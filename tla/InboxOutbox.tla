----------------------------- MODULE InboxOutbox -----------------------------
(***************************************************************************)
(* The transactional inbox and outbox of shared/db, the outbox relay of    *)
(* shared/outbox and the retention job, over one PostgreSQL database and   *)
(* one Kafka cluster.  The services chain: an outbox event of one          *)
(* operation is, downstream, an operation of its own whose key is          *)
(* "event/<event_id>".  So operations and events are the same set Ops, and *)
(* Emits[op] are the events op writes to the outbox.                       *)
(*                                                                         *)
(* Workers are the consumers that run ExecuteInboxOutbox; they receive any *)
(* available operation, again and again and at the same time               *)
(* (KafkaConsumer shows why: redelivery, zombies).  Relays run RunOnce.    *)
(*                                                                         *)
(* Time is kept as countdowns: lease[e] is the time left until lease_until,*)
(* wait[e] until next_attempt_at, and age[x] the time since completed_at   *)
(* (of an inbox row) or published_at (of an outbox row).  Processes may    *)
(* pause for any time between two steps.                                   *)
(***************************************************************************)
EXTENDS Naturals

CONSTANTS
    Ops, Sources, Emits,
    Workers, Relays,
    Lease,              \* Config.Lease
    InitialBackoff,     \* Config.InitialBackoff
    MaxBackoff,         \* Config.MaxBackoff
    MaxAttempt,         \* bound: the attempt counter is not told apart above it
    ReplayWindow,       \* KAFKA_MAX_REPLAY_WINDOW
    Retention,          \* CONSUMER_STATE_RETENTION as configured
    Slack,              \* the 24 hours LoadRetentionConfig adds
    Unpublishable,      \* events whose publication fails every time
    EventId,            \* the order of the event_id column
    None

ASSUME PipelineAssumption ==
    /\ Sources \subseteq Ops
    /\ Emits \in [Ops -> SUBSET (Ops \ Sources)]
    /\ \A p, q \in Ops : p # q => Emits[p] \cap Emits[q] = {}
    /\ None \notin Ops \cup Relays
    /\ Unpublishable \subseteq Ops

\* event_id is the primary key.
ASSUME OrderAssumption ==
    /\ EventId \in [Ops -> Nat]
    /\ \A e, f \in Ops : EventId[e] = EventId[f] => e = f

ASSUME TimeAssumption ==
    /\ Lease \in Nat \ {0}
    /\ InitialBackoff \in Nat \ {0}
    /\ MaxBackoff \in Nat
    /\ MaxBackoff >= InitialBackoff
    /\ MaxAttempt \in Nat \ {0}
    /\ ReplayWindow \in Nat
    /\ Retention \in Nat
    /\ Slack \in Nat \ {0}

VARIABLES
    inbox,    \* status of each consumer_inboxes row
    effects,  \* ghost: committed executions of each operation
    acked,    \* operations whose worker was told of success
    wop,      \* the operation of the transaction each worker has open
    status,   \* status of each outbox_events row
    token,    \* claim_token: the relay whose claim it is
    lease, wait, attempt,
    created,  \* created_at, as the rank of the transaction that wrote the row
    commits,  \* transactions committed so far
    inboxAge, outboxAge,
    rpc, rev, \* where each relay is in RunOnce, and its event
    topic     \* operations Kafka has: the sources and the published events

dbInbox  == <<inbox, effects, acked, inboxAge>>
dbOutbox == <<status, token, lease, wait, attempt, created, outboxAge>>
relay    == <<rpc, rev>>
vars     == <<dbInbox, wop, dbOutbox, commits, relay, topic>>

-----------------------------------------------------------------------------
(* Configuration and helpers.                                              *)

\* Mutant: the configured retention is used as it is.
RawRetention == Retention

\* LoadRetentionConfig forces retention beyond the replay window.
EffectiveRetention ==
    IF Retention <= ReplayWindow THEN ReplayWindow + Slack ELSE Retention

MaxAge == EffectiveRetention + 1

\* Mutant: the delay is not limited.
BackoffUnlimited(n) == InitialBackoff * 2^(IF n < 1 THEN 0 ELSE n - 1)

\* Mutant: a failed event is due again at once.
BackoffNone(n) == 0

\* Relay.backoff: the delay doubles with each attempt; one that is out of range
\* (too long, or negative after an overflow) is MaxBackoff.
Backoff(n) ==
    LET delay == InitialBackoff * 2^(IF n < 1 THEN 0 ELSE n - 1)
    IN  IF delay \in 0..MaxBackoff THEN delay ELSE MaxBackoff

Older(t, max) == IF t < max THEN t + 1 ELSE max
Less(t)       == IF t > 0 THEN t - 1 ELSE 0

Statuses == {"none", "pending", "claimed", "retryable", "failed", "published"}

\* A row is locked while a claim transaction has selected it FOR UPDATE.
Locked(e) == \E r \in Relays : rpc[r] = "claiming" /\ rev[r] = e

TypeOK ==
    /\ inbox \in [Ops -> {"absent", "completed"}]
    /\ effects \in [Ops -> Nat]
    /\ acked \subseteq Ops
    /\ wop \in [Workers -> Ops \cup {None}]
    /\ status \in [Ops -> Statuses]
    /\ token \in [Ops -> Relays \cup {None}]
    /\ lease \in [Ops -> 0..Lease]
    /\ wait \in [Ops -> 0..MaxBackoff]
    /\ attempt \in [Ops -> 0..MaxAttempt]
    /\ created \in [Ops -> Nat]
    /\ commits \in Nat
    /\ inboxAge \in [Ops -> 0..MaxAge]
    /\ outboxAge \in [Ops -> 0..MaxAge]
    /\ rpc \in [Relays -> {"idle", "claiming", "publishing", "published",
                           "failed"}]
    /\ rev \in [Relays -> Ops \cup {None}]
    /\ topic \subseteq Ops

Init ==
    /\ inbox = [op \in Ops |-> "absent"]
    /\ effects = [op \in Ops |-> 0]
    /\ acked = {}
    /\ wop = [w \in Workers |-> None]
    /\ status = [e \in Ops |-> "none"]
    /\ token = [e \in Ops |-> None]
    /\ lease = [e \in Ops |-> 0]
    /\ wait = [e \in Ops |-> 0]
    /\ attempt = [e \in Ops |-> 0]
    /\ created = [e \in Ops |-> 0]
    /\ commits = 0
    /\ inboxAge = [op \in Ops |-> 0]
    /\ outboxAge = [e \in Ops |-> 0]
    /\ rpc = [r \in Relays |-> "idle"]
    /\ rev = [r \in Relays |-> None]
    /\ topic = Sources

-----------------------------------------------------------------------------
(* ExecuteInboxOutbox.                                                     *)

\* Kafka delivers what it has.  Once the operation has taken effect, copies of
\* it arrive for ReplayWindow, the longest a record is replayed for.  That a
\* relay's late copy of the event falls into the same time is assumed here:
\* retention.go derives CONSUMER_STATE_RETENTION from the replay window alone.
Deliverable(op) ==
    op \in topic /\ (effects[op] > 0 => inboxAge[op] <= ReplayWindow)

\* The insert of the inbox row waits for any open transaction on the same
\* key: it is the primary key.
KeyFree(op) == \A w \in Workers : wop[w] # op

\* The insert finds no row: the transaction goes on to execute.
Begin(w, op) ==
    /\ wop[w] = None
    /\ Deliverable(op)
    /\ KeyFree(op)
    /\ inbox[op] = "absent"
    /\ wop' = [wop EXCEPT ![w] = op]
    /\ UNCHANGED <<dbInbox, dbOutbox, commits, relay, topic>>

\* The insert finds the completed row: the stored response is returned and
\* execute is not called.
Replay(w, op) ==
    /\ wop[w] = None
    /\ Deliverable(op)
    /\ KeyFree(op)
    /\ inbox[op] = "completed"
    /\ acked' = acked \cup {op}
    /\ UNCHANGED <<inbox, effects, inboxAge, wop, dbOutbox, commits, relay,
                   topic>>

\* Mutant: the outbox rows are written in a transaction of their own, which
\* the process does not live to run.
WriteOutboxLater(op) ==
    /\ created' = [e \in Ops |-> IF e \in Emits[op] THEN commits ELSE created[e]]
    /\ UNCHANGED <<status, token, lease, wait, attempt, outboxAge>>

\* tx.Create of every event; a row with the same event_id fails the
\* transaction.
WriteOutbox(op) ==
    /\ \A e \in Emits[op] : status[e] = "none"
    /\ status'  = [e \in Ops |-> IF e \in Emits[op] THEN "pending" ELSE status[e]]
    /\ created' = [e \in Ops |-> IF e \in Emits[op] THEN commits ELSE created[e]]
    /\ wait'    = [e \in Ops |-> IF e \in Emits[op] THEN 0 ELSE wait[e]]
    /\ attempt' = [e \in Ops |-> IF e \in Emits[op] THEN 0 ELSE attempt[e]]
    /\ UNCHANGED <<token, lease, outboxAge>>

CompleteInbox(op) ==
    /\ inbox' = [inbox EXCEPT ![op] = "completed"]
    /\ inboxAge' = [inboxAge EXCEPT ![op] = 0]
    /\ effects' = [effects EXCEPT ![op] = @ + 1]

\* The business writes, the outbox rows and the completed inbox row commit
\* together.  The worker may not hear of it (the connection breaks, the
\* process dies), so the acknowledgement can be lost.
Commit(w) ==
    LET op == wop[w] IN
    /\ op # None
    /\ WriteOutbox(op)
    /\ CompleteInbox(op)
    /\ commits' = commits + 1
    /\ acked' \in {acked, acked \cup {op}}
    /\ wop' = [wop EXCEPT ![w] = None]
    /\ UNCHANGED <<relay, topic>>

\* execute fails, the context ends or the process dies: PostgreSQL rolls back.
Rollback(w) ==
    /\ wop[w] # None
    /\ wop' = [wop EXCEPT ![w] = None]
    /\ UNCHANGED <<dbInbox, dbOutbox, commits, relay, topic>>

-----------------------------------------------------------------------------
(* Relay.RunOnce.                                                          *)

\* Mutant: a claimed row is taken whatever its lease.
DueAnyLease(e) ==
    \/ status[e] \in {"pending", "retryable", "failed"} /\ wait[e] = 0
    \/ status[e] = "claimed"

\* What claim selects: an unpublished row whose time has come, or a claimed
\* one whose lease has run out.
Due(e) ==
    \/ status[e] \in {"pending", "retryable", "failed"} /\ wait[e] = 0
    \/ status[e] = "claimed" /\ lease[e] = 0

\* ORDER BY created_at, event_id: the events of one transaction are told apart
\* by their ids.
Before(f, e) ==
    created[f] < created[e] \/ (created[f] = created[e] /\ EventId[f] < EventId[e])

\* SELECT ... FOR UPDATE SKIP LOCKED LIMIT 1: the first due row nobody holds.
ClaimSelect(r, e) ==
    /\ rpc[r] = "idle"
    /\ Due(e) /\ ~Locked(e)
    /\ \A f \in Ops : Due(f) /\ ~Locked(f) => ~Before(f, e)
    /\ rpc' = [rpc EXCEPT ![r] = "claiming"]
    /\ rev' = [rev EXCEPT ![r] = e]
    /\ UNCHANGED <<dbInbox, wop, dbOutbox, commits, topic>>

\* The claim commits: a fresh token and a fresh lease.
ClaimCommit(r) ==
    LET e == rev[r] IN
    /\ rpc[r] = "claiming"
    /\ status' = [status EXCEPT ![e] = "claimed"]
    /\ token' = [token EXCEPT ![e] = r]
    /\ lease' = [lease EXCEPT ![e] = Lease]
    /\ attempt' = [attempt EXCEPT ![e] = Older(@, MaxAttempt)]
    /\ rpc' = [rpc EXCEPT ![r] = "publishing"]
    /\ UNCHANGED <<dbInbox, wop, wait, created, outboxAge, commits, rev, topic>>

\* Kafka acknowledges the record.
PublishOk(r) ==
    /\ rpc[r] = "publishing"
    /\ rev[r] \notin Unpublishable
    /\ topic' = topic \cup {rev[r]}
    /\ rpc' = [rpc EXCEPT ![r] = "published"]
    /\ UNCHANGED <<dbInbox, wop, dbOutbox, commits, rev>>

\* The publication fails or times out; Kafka may have stored the record.
PublishError(r) ==
    /\ rpc[r] = "publishing"
    /\ topic' \in {topic} \cup
                  {topic \cup {e} : e \in {rev[r]} \ Unpublishable}
    /\ rpc' = [rpc EXCEPT ![r] = "failed"]
    /\ UNCHANGED <<dbInbox, wop, dbOutbox, commits, rev>>

\* Mutant: no fencing.
HoldsUnfenced(r, e) == TRUE

\* The fence of both marks: the row is still claimed with this relay's token.
\* A fresh token equals no other, so it is represented by the relay itself,
\* which holds one claim at a time.
Holds(r, e) == status[e] = "claimed" /\ token[e] = r

MarkPublished(r) ==
    LET e == rev[r] IN
    /\ rpc[r] = "published"
    /\ ~Locked(e)
    /\ IF Holds(r, e)
       THEN /\ status' = [status EXCEPT ![e] = "published"]
            /\ token' = [token EXCEPT ![e] = None]
            /\ lease' = [lease EXCEPT ![e] = 0]
            /\ outboxAge' = [outboxAge EXCEPT ![e] = 0]
       ELSE UNCHANGED <<status, token, lease, outboxAge>>
    /\ rpc' = [rpc EXCEPT ![r] = "idle"]
    /\ rev' = [rev EXCEPT ![r] = None]
    /\ UNCHANGED <<dbInbox, wop, wait, attempt, created, commits, topic>>

MarkFailure(r) ==
    LET e == rev[r] IN
    /\ rpc[r] = "failed"
    /\ ~Locked(e)
    /\ IF Holds(r, e)
       THEN /\ status' = [status EXCEPT ![e] = "retryable"]
            /\ token' = [token EXCEPT ![e] = None]
            /\ lease' = [lease EXCEPT ![e] = 0]
            /\ wait' = [wait EXCEPT ![e] = Backoff(attempt[e])]
       ELSE UNCHANGED <<status, token, lease, wait>>
    /\ rpc' = [rpc EXCEPT ![r] = "idle"]
    /\ rev' = [rev EXCEPT ![r] = None]
    /\ UNCHANGED <<dbInbox, wop, attempt, created, outboxAge, commits, topic>>

\* The relay process dies, or a statement of it fails: the open claim rolls
\* back, a committed claim waits for its lease.
RelayCrash(r) ==
    /\ rpc[r] # "idle"
    /\ rpc' = [rpc EXCEPT ![r] = "idle"]
    /\ rev' = [rev EXCEPT ![r] = None]
    /\ UNCHANGED <<dbInbox, wop, dbOutbox, commits, topic>>

-----------------------------------------------------------------------------
(* Retention and time.                                                     *)

ExpiredInbox  == {op \in Ops : inbox[op] = "completed"
                                 /\ inboxAge[op] > EffectiveRetention}
ExpiredOutbox == {e \in Ops : status[e] = "published"
                                 /\ outboxAge[e] > EffectiveRetention}

\* CleanupReliabilityState: two statements, each its own transaction; when the
\* first fails or the context ends the second is not run.
Cleanup ==
    /\ ExpiredInbox \cup ExpiredOutbox # {}
    /\ inbox' = [op \in Ops |-> IF op \in ExpiredInbox THEN "absent"
                                                       ELSE inbox[op]]
    /\ \/ UNCHANGED status
       \/ status' = [e \in Ops |-> IF e \in ExpiredOutbox THEN "none"
                                                          ELSE status[e]]
    /\ UNCHANGED <<effects, acked, inboxAge, wop, token, lease, wait, attempt,
                   created, outboxAge, commits, relay, topic>>

Tick ==
    /\ lease' = [e \in Ops |-> Less(lease[e])]
    /\ wait' = [e \in Ops |-> Less(wait[e])]
    /\ inboxAge' = [op \in Ops |-> IF effects[op] > 0
                                   THEN Older(inboxAge[op], MaxAge)
                                   ELSE inboxAge[op]]
    /\ outboxAge' = [e \in Ops |-> IF status[e] = "published"
                                   THEN Older(outboxAge[e], MaxAge)
                                   ELSE outboxAge[e]]
    /\ UNCHANGED <<inbox, effects, acked, wop, status, token, attempt, created,
                   commits, relay, topic>>

Worker(w) == \/ \E op \in Ops : Begin(w, op) \/ Replay(w, op)
             \/ Commit(w)
             \/ Rollback(w)

RunOnce(r) == \/ \E e \in Ops : ClaimSelect(r, e)
              \/ ClaimCommit(r)
              \/ PublishOk(r)
              \/ PublishError(r)
              \/ MarkPublished(r)
              \/ MarkFailure(r)
              \/ RelayCrash(r)

Next ==
    \/ \E w \in Workers : Worker(w)
    \/ \E r \in Relays : RunOnce(r)
    \/ Cleanup
    \/ Tick

Spec == Init /\ [][Next]_vars

(***************************************************************************)
(* Fairness.  A worker or relay that can take its next step does; the      *)
(* database and Kafka work again and again (strong fairness of Begin,      *)
(* Commit and PublishOk), however often they fail in between, and so does  *)
(* a relay up to markFailure: no event kills the relay every time.  A due  *)
(* row that is infinitely often the first is in the end selected: RunOnce  *)
(* polls again at once after an event and every PollInterval (250 ms)      *)
(* otherwise, which is shorter than any backoff.                           *)
(***************************************************************************)
Events == UNION {Emits[op] : op \in Ops}

Fairness ==
    /\ \A op \in Ops \ Unpublishable :
          SF_vars(\E w \in Workers : wop[w] = op /\ Commit(w))
    /\ \A e \in Events \ Unpublishable :
          /\ SF_vars(\E r \in Relays : ClaimSelect(r, e))
          /\ SF_vars(\E r \in Relays : rev[r] = e /\ PublishOk(r))
    /\ \A e \in Events \cap Unpublishable :
          /\ SF_vars(\E r \in Relays : rev[r] = e /\ PublishError(r))
          /\ SF_vars(\E r \in Relays : rev[r] = e /\ MarkFailure(r))
    /\ \A e \in Events : SF_vars(\E r \in Relays : rev[r] = e /\ ClaimCommit(r))
    /\ WF_vars(\E w \in Workers, op \in Ops : Begin(w, op))
    /\ \A w \in Workers : WF_vars(Commit(w) \/ Rollback(w))
    /\ \A r \in Relays :
          WF_vars((\E e \in Events : ClaimSelect(r, e)) \/ ClaimCommit(r) \/ PublishOk(r)
                    \/ PublishError(r) \/ MarkPublished(r) \/ MarkFailure(r))
    /\ WF_vars(Tick)

FairSpec == Spec /\ Fairness

-----------------------------------------------------------------------------
(* Properties.                                                             *)

\* An event of a committed operation is never lost: until Kafka has it, its
\* row is in the outbox with a status a relay will pick up, through crashes
\* between claim, publication and mark, and through retention.
NoEventLost ==
    \A op \in Ops : \A e \in Emits[op] :
        effects[op] > 0 =>
            e \in topic \/ status[e] \in {"pending", "claimed", "retryable"}

\* While a claim's lease runs, nobody but the relay that made it changes the
\* row: the lease and the token fence off slow and restarted relays.
ClaimExclusive ==
    [][\A e \in Ops :
          /\ status[e] = "claimed" /\ lease[e] > 0
          /\ <<status[e], token[e]>>' # <<status[e], token[e]>>
          => \E r \in Relays : token[e] = r /\ rev[r] = e /\ rev'[r] = None]_vars

\* A published row stays published until retention removes it: a relay whose
\* lease ran out cannot turn it back into a retryable one with a late
\* markFailure, which would publish the event again and again.
PublishedIsFinal ==
    [][\A e \in Ops : status[e] = "published"
                         => status'[e] \in {"published", "none"}]_vars

\* The pipeline implements the abstract specification: an operation takes
\* effect at most once whatever is redelivered, republished or replayed, its
\* events become available only after that, and no delivery is acknowledged
\* before.
EO == INSTANCE ExactlyOnce WITH available <- topic

Implements == EO!Spec

\* The inductive invariant.  Its parts: what the inbox says about effects, what
\* an open transaction may assume, where the rows of the outbox come from, and
\* what a relay knows about its event.
Executed(op) == effects[op] = 1

FromExecuted(e) == \E op \in Ops : e \in Emits[op] /\ Executed(op)

InboxInv ==
    \A op \in Ops :
        /\ effects[op] \in {0, 1}
        /\ inbox[op] = "completed" => Executed(op)
        /\ Executed(op) /\ inbox[op] = "absent" => inboxAge[op] > ReplayWindow
        /\ Executed(op) => op \in topic
        /\ op \in acked => Executed(op)

TransactionInv ==
    /\ \A w \in Workers : wop[w] # None => wop[w] \in topic /\ ~Executed(wop[w])
    /\ \A v, w \in Workers : v # w /\ wop[v] # None => wop[v] # wop[w]

OutboxInv ==
    \A e \in Ops :
        /\ status[e] # "failed"
        /\ status[e] # "none" => FromExecuted(e)
        /\ status[e] = "published" => e \in topic

RelayInv ==
    \A r \in Relays :
        rpc[r] # "idle" =>
            /\ rev[r] \in Ops
            /\ FromExecuted(rev[r])
            /\ rpc[r] = "claiming" =>
                   status[rev[r]] \in {"pending", "retryable", "claimed"}
            /\ rpc[r] = "published" => rev[r] \in topic

IInv == /\ TypeOK
        /\ InboxInv
        /\ TransactionInv
        /\ OutboxInv
        /\ RelayInv
        /\ NoEventLost

\* Every event of a committed operation takes effect downstream in the end,
\* also when an event that claim orders before it can never be published: the
\* failing one is out of the way while it waits for its next attempt.
EventsReachConsumers ==
    \A op \in Ops : \A e \in Emits[op] \ Unpublishable :
        effects[op] > 0 ~> effects[e] > 0

=============================================================================
