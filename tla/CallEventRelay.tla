--------------------------- MODULE CallEventRelay ---------------------------
(***************************************************************************)
(* The relay of callService, composed with the containers it delivers to.  *)
(* CallService leaves its events in a Redis stream; the pods read them as  *)
(* one consumer group, publish each to the topic of the container its user *)
(* was routed to, record it in a ledger and remove it.                     *)
(*                                                                         *)
(* An entry that was delivered to a pod stays pending until it is acked.   *)
(* A pod first tries to take over entries that have been pending for 30 s, *)
(* of whatever pod, also of its own failed attempts, and reads new ones    *)
(* when it got none or the attempt failed.  Time is not counted: a pending *)
(* entry turns old at any moment, also under a pod that still works on it. *)
(***************************************************************************)
EXTENDS MessagePath

CONSTANTS
    Pods,
    Callees,   \* bound: the users whose calls have events
    MaxEvents  \* bound on the events in the stream

ASSUME RelayAssumption == Callees \subseteq Users /\ MaxEvents \in Nat

VARIABLES
    stream,   \* the events of a call, with their user and topic
    last,     \* last-delivered-id of the group
    pending,  \* the pending entries, each "new" or "old"
    ledger,   \* call:outbox:sent:<event id>
    batch,    \* the entries a pod has still to process, least id first
    step,     \* where a pod is with the first entry of its batch
    sent      \* history: how often an event was published

relayVars == <<stream, last, pending, ledger, batch, step, sent>>
allVars == <<vars, relayVars>>

Entries == 1 .. MaxEvents

RelayInit ==
    /\ Init
    /\ stream = << >> /\ last = 0
    /\ pending = [i \in Entries |-> "no"]
    /\ ledger = {}
    /\ batch = [p \in Pods |-> {}]
    /\ step = [p \in Pods |-> "loop"]
    /\ sent = [i \in Entries |-> 0]

\* XADD by a script of CallService, with the topic its route lookup found.
AddEvent(u) ==
    /\ Spend("call")
    /\ Len(stream) < MaxEvents
    /\ route[u] # Offline
    /\ stream' = Append(stream, [user |-> u, topic |-> route[u]])
    /\ UNCHANGED <<storageVars, routing, redis, df, claims, published, seen>>
    /\ UNCHANGED <<last, pending, ledger, batch, step, sent>>

-----------------------------------------------------------------------------
(* Run.                                                                    *)

Taken(p, E) ==
    /\ step[p] = "loop" /\ E # {}
    /\ batch' = [batch EXCEPT ![p] = E]
    /\ step' = [step EXCEPT ![p] = "check"]
    /\ pending' = [i \in Entries |-> IF i \in E THEN "new" ELSE pending[i]]
    /\ UNCHANGED <<vars, stream, ledger, sent>>

XAutoClaim(p) ==
    /\ Taken(p, {i \in Entries : pending[i] = "old"})
    /\ UNCHANGED last

XReadGroup(p) ==
    /\ Taken(p, {i \in Entries : last < i /\ i <= Len(stream)})
    /\ last' = Len(stream)

-----------------------------------------------------------------------------
(* process.                                                                *)

First(p) == CHOOSE i \in batch[p] : \A j \in batch[p] : i <= j

Goes(p, to) ==
    /\ step' = [step EXCEPT ![p] = to]
    /\ UNCHANGED batch

\* process returns; what it has not acked stays pending.
Returns(p) ==
    /\ step' = [step EXCEPT ![p] = "loop"]
    /\ batch' = [batch EXCEPT ![p] = {}]

CheckLedger(p) ==
    /\ step[p] = "check"
    /\ Goes(p, IF First(p) \in ledger THEN "ack" ELSE "publish")
    /\ UNCHANGED <<vars, stream, last, pending, ledger, sent>>

\* The record is in the topic of the container.
Published(p) ==
    LET i == First(p) IN
    /\ df' = df \cup {[to |-> stream[i].topic, kind |-> "call", user |-> stream[i].user,
                       id |-> i, copy |-> sent[i]]}
    /\ sent' = [sent EXCEPT ![i] = @ + 1]
    /\ UNCHANGED <<storageVars, routing, redis, claims, published, seen>>
    /\ UNCHANGED <<stream, last, pending, ledger>>

PublishEvent(p) ==
    /\ step[p] = "publish"
    /\ Published(p)
    /\ Goes(p, "ack")
    /\ UNCHANGED budget

\* Mutant: the error of a publication is only logged.
PublishErrorLogged(p) ==
    /\ step[p] = "publish"
    /\ Spend("fault")
    /\ \/ Published(p)
       \/ UNCHANGED <<storageVars, routing, redis, df, claims, published, seen>>
          /\ UNCHANGED <<stream, last, pending, ledger, sent>>
    /\ Goes(p, "ack")

\* An error, which does not say that nothing was written.
PublishFails(p) ==
    /\ step[p] = "publish"
    /\ Spend("fault")
    /\ \/ Published(p)
       \/ UNCHANGED <<storageVars, routing, redis, df, claims, published, seen>>
          /\ UNCHANGED <<stream, last, pending, ledger, sent>>
    /\ Returns(p)

\* The pipeline sets the ledger, acks and deletes.
Acked(i) ==
    /\ ledger' = ledger \cup {i}
    /\ pending' = [pending EXCEPT ![i] = "no"]

AckEvent(p) ==
    /\ step[p] = "ack"
    /\ Acked(First(p))
    /\ batch' = [batch EXCEPT ![p] = @ \ {First(p)}]
    /\ step' = [step EXCEPT ![p] = IF batch[p] = {First(p)} THEN "loop" ELSE "check"]
    /\ UNCHANGED <<vars, stream, last, sent>>

\* Redis fails, with or without effect, or the pod dies.
ProcessBreaks(p) ==
    /\ step[p] # "loop"
    /\ Spend("fault")
    /\ \/ step[p] = "ack" /\ Acked(First(p))
       \/ UNCHANGED <<ledger, pending>>
    /\ Returns(p)
    /\ UNCHANGED <<storageVars, routing, redis, df, claims, published, seen>>
    /\ UNCHANGED <<stream, last, sent>>

\* claimIdle passes since the entry was delivered.
TurnsOld(i) ==
    /\ pending[i] = "new"
    /\ pending' = [pending EXCEPT ![i] = "old"]
    /\ UNCHANGED <<vars, stream, last, ledger, batch, step, sent>>

RelayStep ==
    \/ \E p \in Pods : \/ XAutoClaim(p) \/ XReadGroup(p) \/ CheckLedger(p)
                       \/ PublishEvent(p) \/ PublishFails(p) \/ AckEvent(p)
                       \/ ProcessBreaks(p)
    \/ \E i \in Entries : TurnsOld(i)
    \/ \E u \in Callees : AddEvent(u)

RelayNext == (Next /\ UNCHANGED relayVars) \/ RelayStep

RelaySpec == RelayInit /\ [][RelayNext]_allVars

-----------------------------------------------------------------------------
(* Properties.                                                             *)

\* process, XAutoClaim, the ack pipeline: no event of a call is lost on its
\* way to the user's container.  Whatever failed, died or took over, an event
\* that was never published is still unread or pending, also when later events
\* of the call have overtaken it.
CallEventsKept ==
    \A i \in 1 .. Len(stream) : sent[i] = 0 => i > last \/ pending[i] # "no"
=============================================================================
