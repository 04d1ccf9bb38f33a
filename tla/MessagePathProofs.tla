-------------------------- MODULE MessagePathProofs --------------------------
(***************************************************************************)
(* Proofs about the path of a message and the relay of call events, for    *)
(* every number of users, containers, consumers, pods and messages.  The   *)
(* specification is the composition that is model-checked, RelaySpec.      *)
(***************************************************************************)
EXTENDS CallEventRelay, StorageServiceProofs

-----------------------------------------------------------------------------
(* The invariant.                                                          *)

PathTypes ==
    /\ conn \in [Containers -> SUBSET Users]
    /\ route \in [Users -> Containers \cup {Offline}]
    /\ idem \in [IdemKeys -> {Absent, Pending} \cup Ids]
    /\ effects \subseteq Stored
    /\ published \subseteq {r.op : r \in outbox}
    /\ pushes \in [Ids -> Nat] /\ released \in [Ids -> Nat]
    /\ moved \subseteq Users

SyncTypes == cursor \in [Users -> Cursors] /\ synced \in [Users -> SUBSET Ids]

\* A user that has not moved is connected at home or nowhere, and its requests
\* name that container.
AtHome(u, c) == u \in moved \/ c = Home[u]

HomeOK ==
    /\ \A u \in Users : /\ route[u] = Offline \/ AtHome(u, route[u])
                        /\ \A c \in Containers : u \in conn[c] => AtHome(u, c)
    /\ \A o \in DOMAIN topic : AtHome(topic[o].user, topic[o].topic)

\* A completed idempotency key names the row of its client id.
IdemOK ==
    \A k \in IdemKeys : idem[k] \in Ids =>
        /\ idem[k] \in Stored
        /\ messages[idem[k]].from = k[1] /\ messages[idem[k]].client = k[2]

FrameOK(f) ==
    /\ f.user \in Users
    /\ f.kind = "ack" => f.id \in Stored /\ messages[f.id].from = f.user
                                        /\ messages[f.id].client = f.client

FramesOK ==
    /\ \A f \in frames : FrameOK(f)
    /\ \A f \in lost : FrameOK(f) /\ f.user \in moved

\* A record in a container's topic, or in the hands of a consumer.  For a user
\* that has not moved it is at home, and in a format that the container parses.
RecordOK(d) ==
    /\ d.to \in Containers
    /\ d.kind \in {"storage", "forward", "post", "recall", "friend", "push", "call"}
    /\ d.kind = "storage" => d.rsp \in outbox /\ d.to = d.rsp.topic
    /\ d.kind = "forward" =>
         /\ FrameOK(d.frame) /\ d.format \in {"request", "response"}
         /\ d.frame.user \in moved \/ (d.to = Home[d.frame.user] /\ d.format = "request")
    /\ d.kind \in {"post", "recall"} =>
         d.targets \subseteq Users /\ \A u \in d.targets : AtHome(u, d.to)
    /\ d.kind \in {"friend", "push", "call"} => d.user \in Users /\ AtHome(d.user, d.to)

ClaimPhases == {"idle", "start", "deliver", "route", "answer"}

ClaimNames == {"phase", "record", "attempt", "targets", "routes"}

ClaimShape(t) == t = [x \in ClaimNames |-> t[x]]

\* A consumer that delivers a post handles the response of its store; the routes
\* it has read lead home for those who have not moved, and to the one reader of a
\* direct message at all.
RoutesOK(k) ==
    /\ claims[k].targets \subseteq Users
    /\ claims[k].routes \in [Users -> Containers \cup {Offline}]
    /\ \A u \in Users : claims[k].routes[u] = Offline \/ AtHome(u, claims[k].routes[u])
    /\ PostOf(k).to # Group => claims[k].routes[PostOf(k).to] # Offline

ClaimOK(k) ==
    LET t == claims[k] IN
    /\ ClaimShape(t) /\ t.phase \in ClaimPhases /\ t.attempt \in 0 .. MaxRetries
    /\ t.phase # "idle" => RecordOK(t.record)
    /\ t.phase \in {"deliver", "route", "answer"} => t.record.kind = "storage"
    /\ t.phase \in {"deliver", "route"} => Rsp(k).kind = "store"
    /\ t.phase = "route" => RoutesOK(k)

\* A consumer between the claim of the effects key and the answer.
Delivering(k, i) == claims[k].phase \in {"deliver", "route"} /\ Rsp(k).id = i

\* The effects key of a message is held by one consumer, and a push that was asked
\* for is paid for by the key or by its release.
EffectsOK ==
    /\ \A k \in Claims, i \in Ids : Delivering(k, i) => i \in effects
    /\ \A j, k \in Claims, i \in Ids : Delivering(j, i) /\ Delivering(k, i) => j = k
    /\ \A i \in Ids : /\ i \notin effects => pushes[i] <= released[i]
                      /\ pushes[i] <= 1 + released[i]
                      /\ pushes[i] > 0 => i \in Stored
    /\ \A k \in Claims, i \in Ids :
         claims[k].phase = "deliver" /\ Rsp(k).id = i => pushes[i] <= released[i]

\* Nothing that is stored from now on falls before a cursor: an open transaction
\* is after it or known to be late, and a new one is after it.
CursorOK(c) ==
    /\ c \in Cursors /\ c.at <= now /\ c.id < nextId
    /\ \A v \in Workers : Open(v) => After(OpenPlace(v), c) \/ workers[v].op \in late

\* A message to u, or to the group after the second in which u joined it.
ForUser(u, i) ==
    \/ messages[i].to = u
    \/ messages[i].to = Group /\ joined[u] # Absent /\ joined[u] < messages[i].at

\* X holds every message for u up to the cursor c that was not late.
Covered(u, c, X) ==
    \A i \in Stored : ForUser(u, i) /\ ~After(Place(i), c) => i \in X \cup LateIds

SyncOK ==
    /\ \A u \in Users : CursorOK(cursor[u]) /\ Covered(u, cursor[u], synced[u])
    /\ \A o \in DOMAIN topic : topic[o].kind = "sync" =>
         /\ CursorOK(topic[o].cursor)
         /\ Covered(topic[o].user, topic[o].cursor, synced[topic[o].user])
    /\ \A r \in outbox : r.kind = "sync" =>
         /\ CursorOK(r.next) /\ r.ids \subseteq Ids
         /\ Covered(r.user, r.next, synced[r.user] \cup r.ids)

SyncInv == SyncTypes /\ SyncOK

RouteInv ==
    /\ PathTypes /\ HomeOK /\ IdemOK /\ FramesOK
    /\ \A d \in df : RecordOK(d)
    /\ claims = [k \in Claims |-> claims[k]]
    /\ \A k \in Claims : ClaimOK(k)
    /\ EffectsOK

\* The events of a call: what a pod is about to ack was published, and so was
\* what the ledger names.
RelayInv ==
    /\ stream \in Seq([user : Users, topic : Containers]) /\ Len(stream) <= MaxEvents
    /\ \A i \in DOMAIN stream : AtHome(stream[i].user, stream[i].topic)
    /\ last \in 0 .. Len(stream)
    /\ pending \in [Entries -> {"no", "new", "old"}]
    /\ \A i \in Entries : pending[i] # "no" => i <= last
    /\ sent \in [Entries -> Nat]
    /\ ledger \subseteq {i \in Entries : sent[i] > 0}
    /\ batch \in [Pods -> SUBSET (1 .. Len(stream))]
    /\ step \in [Pods -> {"loop", "check", "publish", "ack"}]
    /\ \A p \in Pods : /\ step[p] # "loop" => batch[p] # {}
                       /\ step[p] = "ack" => sent[First(p)] > 0
    /\ CallEventsKept


USE PathAssumption

-----------------------------------------------------------------------------
(* The relay of the events of calls.                                       *)

LEMMA FirstTaken ==
    ASSUME NEW p \in Pods, batch[p] # {}, batch[p] \subseteq Nat
    PROVE  First(p) \in batch[p]
<1>1. \E i \in batch[p] : \A j \in batch[p] : i <= j
  BY LeastExists
<1> QED
  BY <1>1 DEF First

LEMMA RelayInitInv ==
    ASSUME RelayInit
    PROVE  RelayInv
<1>1. stream = << >> /\ last = 0 /\ Len(stream) = 0
  BY DEF RelayInit
<1>2. stream \in Seq([user : Users, topic : Containers]) /\ last \in 0 .. Len(stream)
      /\ Len(stream) <= MaxEvents
  BY <1>1, RelayAssumption
<1>3. batch \in [Pods -> SUBSET (1 .. Len(stream))]
  BY DEF RelayInit
<1>4. \A i \in DOMAIN stream : AtHome(stream[i].user, stream[i].topic)
  BY <1>1
<1>5. \A p \in Pods : step[p] = "loop"
  BY DEF RelayInit
<1>6. /\ pending \in [Entries -> {"no", "new", "old"}] /\ sent \in [Entries -> Nat]
      /\ step \in [Pods -> {"loop", "check", "publish", "ack"}]
      /\ ledger = {} /\ \A i \in Entries : pending[i] = "no"
  BY DEF RelayInit
<1>7. CallEventsKept
  BY <1>1 DEF CallEventsKept
<1> QED
  BY <1>2, <1>3, <1>4, <1>5, <1>6, <1>7 DEF RelayInv

\* Steps of the path leave the relay alone.
LEMMA RelayQuiet ==
    ASSUME RelayInv, UNCHANGED relayVars, moved \subseteq moved'
    PROVE  RelayInv'
<1>1. /\ stream' = stream /\ last' = last /\ pending' = pending /\ ledger' = ledger
      /\ batch' = batch /\ step' = step /\ sent' = sent
  BY DEF relayVars
<1>2. \A i \in DOMAIN stream : AtHome(stream[i].user, stream[i].topic)'
  BY <1>1 DEF RelayInv, AtHome
<1>3. \A p \in Pods : First(p)' = First(p)
  BY <1>1 DEF First
<1> QED
  BY <1>1, <1>2, <1>3 DEF RelayInv, CallEventsKept

LEMMA RelayTaken ==
    ASSUME RelayInv, NEW p \in Pods, NEW E \in SUBSET (1 .. Len(stream)), Taken(p, E),
           last' \in 0 .. Len(stream), last <= last',
           \A i \in 1 .. Len(stream) : i <= last' => i <= last \/ i \in E,
           \A i \in E : i <= last'
    PROVE  RelayInv'
<1>1. /\ stream' = stream /\ ledger' = ledger /\ sent' = sent /\ moved' = moved
      /\ step[p] = "loop" /\ E # {}
      /\ batch' = [batch EXCEPT ![p] = E]
      /\ step' = [step EXCEPT ![p] = "check"]
      /\ pending' = [i \in Entries |-> IF i \in E THEN "new" ELSE pending[i]]
  BY DEF Taken, vars, routing
<1>2. \A i \in DOMAIN stream : AtHome(stream[i].user, stream[i].topic)'
  BY <1>1 DEF RelayInv, AtHome
<1>3. /\ pending' \in [Entries -> {"no", "new", "old"}]
      /\ \A i \in Entries : pending'[i] # "no" => i <= last'
  <2>1. \A i \in Entries : pending[i] # "no" => i \in Nat /\ i <= last
    BY DEF RelayInv, Entries
  <2>2. \A i \in Entries : pending'[i] # "no" => i \in E \/ pending[i] # "no"
    BY <1>1
  <2>0. last \in Nat /\ last' \in Nat
    BY DEF RelayInv
  <2>3. ASSUME NEW i \in Entries, pending'[i] # "no" PROVE i <= last'
    <3>1. CASE i \in E
      BY <3>1
    <3>2. CASE pending[i] # "no"
      <4>1. i \in Nat /\ i <= last
        BY <2>1, <3>2
      <4> QED
        BY <2>0, <4>1
    <3> QED
      BY <2>2, <2>3, <3>1, <3>2
  <2>4. pending' \in [Entries -> {"no", "new", "old"}]
    BY <1>1 DEF RelayInv
  <2> QED
    BY <2>3, <2>4
<1>4. /\ batch' \in [Pods -> SUBSET (1 .. Len(stream'))]
      /\ step' \in [Pods -> {"loop", "check", "publish", "ack"}]
  BY <1>1 DEF RelayInv
<1>5. ASSUME NEW x \in Pods
      PROVE  /\ step'[x] # "loop" => batch'[x] # {}
             /\ step'[x] = "ack" => sent'[First(x)'] > 0
  <2>1. CASE x = p
    BY <1>1, <2>1 DEF RelayInv
  <2>2. CASE x # p
    <3>1. step'[x] = step[x] /\ batch'[x] = batch[x]
      BY <1>1, <2>2 DEF RelayInv
    <3>2. First(x)' = First(x)
      BY <3>1 DEF First
    <3> QED
      BY <1>1, <3>1, <3>2 DEF RelayInv
  <2> QED
    BY <2>1, <2>2
<1>6. CallEventsKept'
  <2> SUFFICES ASSUME NEW i \in 1 .. Len(stream), sent[i] = 0
               PROVE  i > last' \/ pending'[i] # "no"
    BY <1>1 DEF CallEventsKept
  <2>1. i \in Entries
    BY RelayAssumption DEF RelayInv, Entries
  <2>2. i > last \/ pending[i] # "no"
    BY DEF RelayInv, CallEventsKept
  <2>3. i \in E => pending'[i] = "new"
    BY <1>1, <2>1
  <2>4. i \notin E => pending'[i] = pending[i]
    BY <1>1, <2>1
  <2> QED
    BY <2>2, <2>3, <2>4 DEF RelayInv
<1> QED
  BY <1>1, <1>2, <1>3, <1>4, <1>5, <1>6 DEF RelayInv

\* A pod goes on with its batch: what it removes from the pending entries was
\* published.
LEMMA RelayPodStep ==
    ASSUME RelayInv, NEW p \in Pods, stream' = stream, last' = last, moved' = moved,
           sent' \in [Entries -> Nat], \A i \in Entries : sent[i] > 0 => sent'[i] > 0,
           ledger' \subseteq {i \in Entries : sent'[i] > 0},
           pending' \in [Entries -> {"no", "new", "old"}],
           \A i \in Entries : pending'[i] # "no" => pending[i] # "no",
           \A i \in Entries : pending[i] # "no" /\ pending'[i] = "no" => sent'[i] > 0,
           NEW B \in SUBSET batch[p], batch' = [batch EXCEPT ![p] = B],
           NEW s \in {"loop", "check", "publish", "ack"}, step' = [step EXCEPT ![p] = s],
           s # "loop" => B # {},
           s = "ack" => sent'[First(p)'] > 0
    PROVE  RelayInv'
<1>1. \A i \in DOMAIN stream : AtHome(stream[i].user, stream[i].topic)'
  BY DEF RelayInv, AtHome
<1>2. /\ batch' \in [Pods -> SUBSET (1 .. Len(stream))] /\ batch'[p] = B
      /\ step' \in [Pods -> {"loop", "check", "publish", "ack"}] /\ step'[p] = s
      /\ \A x \in Pods : x # p => batch'[x] = batch[x] /\ step'[x] = step[x]
  BY DEF RelayInv
<1>3. ASSUME NEW x \in Pods
      PROVE  /\ step'[x] # "loop" => batch'[x] # {}
             /\ step'[x] = "ack" => sent'[First(x)'] > 0
  <2>1. CASE x = p
    BY <1>2, <2>1
  <2>2. CASE x # p
    <3>1. step'[x] = step[x] /\ batch'[x] = batch[x] /\ First(x)' = First(x)
      BY <1>2, <2>2 DEF First
    <3>2. step[x] # "loop" => First(x) \in Entries
      <4>1. step[x] # "loop" => batch[x] # {} /\ batch[x] \subseteq Nat
                                /\ batch[x] \subseteq Entries
        BY RelayAssumption DEF RelayInv, Entries
      <4> QED
        BY <4>1, FirstTaken
    <3> QED
      BY <3>1, <3>2 DEF RelayInv
  <2> QED
    BY <2>1, <2>2
<1>4. CallEventsKept'
  <2> SUFFICES ASSUME NEW i \in 1 .. Len(stream), sent'[i] = 0
               PROVE  i > last \/ pending'[i] # "no"
    BY DEF CallEventsKept
  <2>1. i \in Entries
    BY RelayAssumption DEF RelayInv, Entries
  <2>2. sent[i] = 0
    BY <2>1 DEF RelayInv
  <2>3. i > last \/ pending[i] # "no"
    BY <2>2 DEF RelayInv, CallEventsKept
  <2> QED
    BY <2>1, <2>3
<1> QED
  BY <1>1, <1>2, <1>3, <1>4 DEF RelayInv

\* What a busy pod works on.
LEMMA BusyPod ==
    ASSUME RelayInv, NEW p \in Pods, step[p] # "loop"
    PROVE  /\ batch[p] # {} /\ First(p) \in batch[p] /\ First(p) \in DOMAIN stream
           /\ First(p) \in Entries
<1>1. batch[p] # {} /\ batch[p] \subseteq 1 .. Len(stream) /\ batch[p] \subseteq Nat
  BY DEF RelayInv
<1>2. First(p) \in batch[p]
  BY <1>1, FirstTaken
<1> QED
  BY <1>1, <1>2, RelayAssumption DEF RelayInv, Entries

LEMMA RelayStepInv ==
    ASSUME RelayInv, PathTypes, HomeOK, RelayStep
    PROVE  RelayInv' /\ moved' = moved
<1>1. ASSUME NEW p \in Pods, XAutoClaim(p) PROVE RelayInv' /\ moved' = moved
  <2> DEFINE E == {i \in Entries : pending[i] = "old"}
  <2>1. Taken(p, E) /\ last' = last
    BY <1>1 DEF XAutoClaim
  <2>2. /\ E \in SUBSET (1 .. Len(stream)) /\ \A i \in E : i <= last
        /\ last \in 0 .. Len(stream) /\ last <= last
    BY DEF RelayInv, Entries
  <2>3. moved' = moved
    BY <2>1 DEF Taken, vars, routing
  <2> HIDE DEF E
  <2> QED
    BY <2>1, <2>2, <2>3, RelayTaken
<1>2. ASSUME NEW p \in Pods, XReadGroup(p) PROVE RelayInv' /\ moved' = moved
  <2> DEFINE E == {i \in Entries : last < i /\ i <= Len(stream)}
  <2>1. Taken(p, E) /\ last' = Len(stream)
    BY <1>2 DEF XReadGroup
  <2>2. /\ E \in SUBSET (1 .. Len(stream)) /\ \A i \in E : i <= Len(stream)
        /\ last <= Len(stream) /\ Len(stream) \in 0 .. Len(stream)
    BY DEF RelayInv, Entries
  <2>3. \A i \in 1 .. Len(stream) : i <= last \/ i \in E
    BY RelayAssumption DEF RelayInv, Entries
  <2>4. moved' = moved
    BY <2>1 DEF Taken, vars, routing
  <2> HIDE DEF E
  <2> QED
    BY <2>1, <2>2, <2>3, <2>4, RelayTaken
<1>3. ASSUME NEW p \in Pods, step[p] # "loop", moved' = moved, UNCHANGED <<stream, last>>,
             pending' = pending \/ /\ sent[First(p)] > 0
                                   /\ pending' = [pending EXCEPT ![First(p)] = "no"],
             sent' = sent \/ sent' = [sent EXCEPT ![First(p)] = @ + 1],
             ledger' = ledger \/ (sent[First(p)] > 0 /\ ledger' = ledger \cup {First(p)}),
             NEW B \in SUBSET batch[p], batch' = [batch EXCEPT ![p] = B],
             NEW s \in {"loop", "check", "publish", "ack"}, step' = [step EXCEPT ![p] = s],
             s # "loop" => B # {},
             s = "ack" => B = batch[p] /\ (sent[First(p)] > 0 \/ sent' # sent)
      PROVE  RelayInv' /\ moved' = moved
  <2>1. PICK i \in Entries : i = First(p)
    BY <1>3, BusyPod
  <2>2. sent \in [Entries -> Nat] /\ pending \in [Entries -> {"no", "new", "old"}]
        /\ ledger \subseteq {x \in Entries : sent[x] > 0}
    BY DEF RelayInv
  <2>3. /\ sent' \in [Entries -> Nat] /\ \A x \in Entries : sent[x] > 0 => sent'[x] > 0
        /\ sent' = sent \/ sent'[i] > 0
    BY <1>3, <2>1, <2>2
  <2>4. ledger' \subseteq {x \in Entries : sent'[x] > 0}
    BY <1>3, <2>1, <2>2, <2>3
  <2>5. /\ pending' \in [Entries -> {"no", "new", "old"}]
        /\ \A x \in Entries : pending'[x] # "no" => pending[x] # "no"
        /\ \A x \in Entries : pending[x] # "no" /\ pending'[x] = "no" => sent'[x] > 0
    BY <1>3, <2>1, <2>2, <2>3
  <2>6. s = "ack" => sent'[First(p)'] > 0
    <3>1. s = "ack" => batch'[p] = batch[p]
      BY <1>3 DEF RelayInv
    <3>2. s = "ack" => First(p)' = First(p)
      BY <3>1 DEF First
    <3> QED
      BY <1>3, <2>1, <2>3, <3>2
  <2> QED
    BY <1>3, <2>3, <2>4, <2>5, <2>6, RelayPodStep
<1>4. /\ batch \in [Pods -> SUBSET (1 .. Len(stream))]
      /\ step \in [Pods -> {"loop", "check", "publish", "ack"}]
      /\ \A p \in Pods : step[p] # "loop" => batch[p] # {}
      /\ \A p \in Pods : step[p] = "ack" => sent[First(p)] > 0
      /\ \A i \in ledger : sent[i] > 0
      /\ \A p \in Pods : batch = [batch EXCEPT ![p] = batch[p]]
  BY DEF RelayInv
<1>5. ASSUME NEW p \in Pods, CheckLedger(p) PROVE RelayInv' /\ moved' = moved
  <2>1. PICK s \in {"publish", "ack"} :
          /\ step' = [step EXCEPT ![p] = s]
          /\ s = "ack" => First(p) \in ledger
    BY <1>5 DEF CheckLedger, Goes
  <2>2. /\ UNCHANGED <<stream, last, pending, sent, ledger, batch>> /\ moved' = moved
        /\ step[p] # "loop"
    BY <1>5 DEF CheckLedger, Goes, vars, routing
  <2>3. PICK B \in SUBSET batch[p] : B = batch[p]
    OBVIOUS
  <2>4. batch' = [batch EXCEPT ![p] = B] /\ B # {} /\ s \in {"loop", "check", "publish", "ack"}
    BY <1>4, <2>1, <2>2, <2>3
  <2>5. s = "ack" => B = batch[p] /\ sent[First(p)] > 0
    BY <1>4, <2>1, <2>3
  <2> QED
    BY <1>3, <2>1, <2>2, <2>3, <2>4, <2>5
<1>6. ASSUME NEW p \in Pods, Published(p)
      PROVE  /\ UNCHANGED <<stream, last, pending, ledger>> /\ moved' = moved
             /\ sent' = [sent EXCEPT ![First(p)] = @ + 1]
  BY <1>6 DEF Published, routing
<1>7. ASSUME NEW p \in Pods, PublishEvent(p) PROVE RelayInv' /\ moved' = moved
  <2>1. /\ step' = [step EXCEPT ![p] = "ack"] /\ batch' = batch /\ step[p] # "loop"
        /\ Published(p)
    BY <1>7 DEF PublishEvent, Goes
  <2>2. sent' # sent
    <3>1. PICK i \in Entries : i = First(p)
      BY <2>1, BusyPod
    <3>2. sent \in [Entries -> Nat] /\ sent' = [sent EXCEPT ![i] = @ + 1]
      BY <1>6, <2>1, <3>1 DEF RelayInv
    <3>3. sent'[i] = sent[i] + 1 /\ sent[i] \in Nat
      BY <3>2
    <3> QED
      BY <3>3
  <2>3. PICK B \in SUBSET batch[p] : B = batch[p]
    OBVIOUS
  <2>4. batch' = [batch EXCEPT ![p] = B] /\ B # {}
    BY <1>4, <2>1, <2>3
  <2>5. PICK s \in {"loop", "check", "publish", "ack"} : s = "ack"
    OBVIOUS
  <2>6. step' = [step EXCEPT ![p] = s]
    BY <2>1, <2>5
  <2> QED
    BY <1>3, <1>6, <2>1, <2>2, <2>3, <2>4, <2>5, <2>6
<1>8. ASSUME NEW p \in Pods, PublishFails(p) PROVE RelayInv' /\ moved' = moved
  <2>1. /\ step' = [step EXCEPT ![p] = "loop"] /\ batch' = [batch EXCEPT ![p] = {}]
        /\ step[p] # "loop"
    BY <1>8 DEF PublishFails, Returns
  <2>2. /\ UNCHANGED <<stream, last, pending, ledger>> /\ moved' = moved
        /\ sent' = sent \/ sent' = [sent EXCEPT ![First(p)] = @ + 1]
    BY <1>6, <1>8 DEF PublishFails, routing
  <2>3. PICK B \in SUBSET batch[p] : B = {}
    OBVIOUS
  <2>4. PICK s \in {"loop", "check", "publish", "ack"} : s = "loop"
    OBVIOUS
  <2>5. batch' = [batch EXCEPT ![p] = B] /\ step' = [step EXCEPT ![p] = s]
    BY <2>1, <2>3, <2>4
  <2> QED
    BY <1>3, <2>1, <2>2, <2>3, <2>4, <2>5
<1>9. ASSUME NEW p \in Pods, AckEvent(p) PROVE RelayInv' /\ moved' = moved
  <2>0. PICK B \in SUBSET batch[p] : B = batch[p] \ {First(p)}
    OBVIOUS
  <2>1. /\ batch' = [batch EXCEPT ![p] = B] /\ step[p] = "ack"
        /\ ledger' = ledger \cup {First(p)}
        /\ pending' = [pending EXCEPT ![First(p)] = "no"]
        /\ UNCHANGED <<stream, last, sent>> /\ moved' = moved
    BY <1>9, <2>0 DEF AckEvent, Acked, vars, routing
  <2>2. PICK s \in {"loop", "check"} :
          /\ step' = [step EXCEPT ![p] = s]
          /\ s = "check" => batch[p] # {First(p)}
    BY <1>9 DEF AckEvent
  <2>3. s # "loop" => B # {}
    <3>1. batch[p] # {}
      BY <1>4, <2>1
    <3> QED
      BY <2>0, <2>2, <3>1
  <2>4. step[p] # "loop" /\ sent[First(p)] > 0 /\ s \in {"loop", "check", "publish", "ack"}
    BY <1>4, <2>1, <2>2
  <2>5. s # "ack"
    BY <2>2
  <2> QED
    BY <1>3, <2>0, <2>1, <2>2, <2>3, <2>4, <2>5
<1>10. ASSUME NEW p \in Pods, ProcessBreaks(p) PROVE RelayInv' /\ moved' = moved
  <2>1. /\ step' = [step EXCEPT ![p] = "loop"] /\ batch' = [batch EXCEPT ![p] = {}]
        /\ step[p] # "loop" /\ UNCHANGED <<stream, last, sent>> /\ moved' = moved
    BY <1>10 DEF ProcessBreaks, Returns, routing
  <2>2. \/ /\ step[p] = "ack" /\ ledger' = ledger \cup {First(p)}
           /\ pending' = [pending EXCEPT ![First(p)] = "no"]
        \/ ledger' = ledger /\ pending' = pending
    BY <1>10 DEF ProcessBreaks, Acked
  <2>3. PICK B \in SUBSET batch[p] : B = {}
    OBVIOUS
  <2>4. PICK s \in {"loop", "check", "publish", "ack"} : s = "loop"
    OBVIOUS
  <2>5. batch' = [batch EXCEPT ![p] = B] /\ step' = [step EXCEPT ![p] = s]
    BY <2>1, <2>3, <2>4
  <2>6. step[p] = "ack" => sent[First(p)] > 0
    BY <1>4
  <2> QED
    BY <1>3, <2>1, <2>2, <2>3, <2>4, <2>5, <2>6
<1>11. ASSUME NEW i \in Entries, TurnsOld(i) PROVE RelayInv' /\ moved' = moved
  <2>1. /\ UNCHANGED <<stream, last, ledger, batch, step, sent>> /\ moved' = moved
        /\ pending[i] = "new" /\ pending' = [pending EXCEPT ![i] = "old"]
    BY <1>11 DEF TurnsOld, vars, routing
  <2>2. /\ pending' \in [Entries -> {"no", "new", "old"}]
        /\ \A x \in Entries : pending'[x] # "no" <=> pending[x] # "no"
    BY <2>1 DEF RelayInv
  <2>3. CallEventsKept'
    <3>1. 1 .. Len(stream) \subseteq Entries
      BY RelayAssumption DEF RelayInv, Entries
    <3> QED
      BY <2>1, <2>2, <3>1 DEF RelayInv, CallEventsKept
  <2>4. \A p \in Pods : First(p)' = First(p)
    BY <2>1 DEF First
  <2>5. \A x \in DOMAIN stream : AtHome(stream[x].user, stream[x].topic)'
    BY <2>1 DEF RelayInv, AtHome
  <2> QED
    BY <2>1, <2>2, <2>3, <2>4, <2>5 DEF RelayInv
<1>12. ASSUME NEW u \in Callees, AddEvent(u) PROVE RelayInv' /\ moved' = moved
  <2>1. PICK e : e = [user |-> u, topic |-> route[u]]
    OBVIOUS
  <2>2. /\ UNCHANGED <<last, pending, ledger, batch, step, sent>> /\ moved' = moved
        /\ Len(stream) < MaxEvents /\ route[u] # Offline
        /\ stream' = Append(stream, e)
    BY <1>12, <2>1 DEF AddEvent, routing
  <2>3. u \in Users /\ route[u] \in Containers /\ AtHome(u, route[u])
    BY <2>2, RelayAssumption DEF PathTypes, HomeOK
  <2>4. e \in [user : Users, topic : Containers] /\ e.user = u /\ e.topic = route[u]
    BY <2>1, <2>3
  <2>5. /\ stream \in Seq([user : Users, topic : Containers])
        /\ stream' \in Seq([user : Users, topic : Containers])
        /\ Len(stream') = Len(stream) + 1 /\ Len(stream) \in Nat
        /\ stream'[Len(stream) + 1] = e
        /\ \A i \in 1 .. Len(stream) : stream'[i] = stream[i]
        /\ DOMAIN stream' = 1 .. Len(stream) + 1
    BY <2>2, <2>4 DEF RelayInv
  <2>6. ASSUME NEW i \in DOMAIN stream' PROVE AtHome(stream[i].user, stream[i].topic)'
    <3>1. CASE i \in 1 .. Len(stream)
      BY <2>2, <2>5, <3>1 DEF RelayInv, AtHome
    <3>2. CASE i = Len(stream) + 1
      BY <2>2, <2>3, <2>4, <2>5, <3>2 DEF AtHome
    <3> QED
      BY <2>5, <3>1, <3>2
  <2>7. last' \in 0 .. Len(stream') /\ batch' \in [Pods -> SUBSET (1 .. Len(stream'))]
        /\ Len(stream') <= MaxEvents
    BY <2>2, <2>5, RelayAssumption DEF RelayInv
  <2>8. CallEventsKept'
    <3> SUFFICES ASSUME NEW i \in 1 .. Len(stream'), sent[i] = 0
                 PROVE  i > last \/ pending[i] # "no"
      BY <2>2 DEF CallEventsKept
    <3>1. CASE i \in 1 .. Len(stream)
      BY <3>1 DEF RelayInv, CallEventsKept
    <3>2. CASE i = Len(stream) + 1
      BY <2>5, <3>2 DEF RelayInv
    <3> QED
      BY <2>5, <3>1, <3>2
  <2>9. \A p \in Pods : First(p)' = First(p)
    BY <2>2 DEF First
  <2> QED
    BY <2>2, <2>5, <2>6, <2>7, <2>8, <2>9 DEF RelayInv
<1> QED
  BY <1>1, <1>2, <1>5, <1>7, <1>8, <1>9, <1>10, <1>11, <1>12 DEF RelayStep

-----------------------------------------------------------------------------
(* What the path does to storageService.                                   *)

LEMMA AskMoves ==
    ASSUME NEW c, NEW q \in Requests, Ask(c, q)
    PROVE  /\ Arrive(q) /\ UNCHANGED <<routing, redis, df, claims, published, seen>>
           /\ q.user \in conn[c]
BY DEF Ask, Publish, Arrive, storageRest

\* Every request a container publishes is one the service knows, with the
\* container's own topic.
Asked(q) == /\ q \in Requests /\ Arrive(q)
            /\ q.user \in conn[q.topic]
            /\ q.kind = "sync" => q.cursor = cursor[q.user]
            /\ UNCHANGED <<routing, effects, df, claims, published, seen>>

LEMMA ClientAsks ==
    ASSUME SyncTypes, NEW c \in Containers, NEW a \in Asks,
           \/ HandleRecallMessage(c, a) \/ HandleQueryMessage(c, a) \/ HandleQueryUser(c, a)
           \/ HandleQuerySyncMessages(c, a) \/ HandleUpdateUser(c, a)
    PROVE  (\E q : Asked(q)) /\ idem' = idem
<1>1. a.user \in Users /\ cursor[a.user] \in Cursors
  BY DEF SyncTypes
<1>2. ASSUME NEW q \in Requests, Ask(c, q), q.topic = c,
             q.kind = "sync" => q.cursor = cursor[q.user]
      PROVE  (\E x : Asked(x)) /\ idem' = idem
  <2>1. Asked(q)
    BY <1>2, AskMoves DEF Asked, redis
  <2>2. idem' = idem
    BY <1>2 DEF Ask, redis
  <2> QED
    BY <2>1, <2>2
<1>3. CASE HandleRecallMessage(c, a)
  <2>1. PICK q : q = [kind |-> "recall", user |-> a.user, topic |-> c, id |-> a.about]
    OBVIOUS
  <2>2. Ask(c, q) /\ a.about \in Ids
    BY <1>3, <2>1 DEF HandleRecallMessage
  <2>3. q \in Requests /\ q.topic = c /\ q.kind # "sync"
    BY <1>1, <2>1, <2>2 DEF Requests
  <2> QED
    BY <1>2, <2>2, <2>3
<1>4. CASE HandleQueryMessage(c, a)
  <2>1. PICK q : q = [kind |-> "message", user |-> a.user, topic |-> c, id |-> a.about]
    OBVIOUS
  <2>2. Ask(c, q) /\ a.about \in Ids
    BY <1>4, <2>1 DEF HandleQueryMessage
  <2>3. q \in Requests /\ q.topic = c /\ q.kind # "sync"
    BY <1>1, <2>1, <2>2 DEF Requests
  <2> QED
    BY <1>2, <2>2, <2>3
<1>5. CASE HandleQueryUser(c, a)
  <2>1. PICK q : q = [kind |-> "user", user |-> a.user, topic |-> c, about |-> a.about]
    OBVIOUS
  <2>2. Ask(c, q) /\ a.about \in Users
    BY <1>5, <2>1 DEF HandleQueryUser
  <2>3. q \in Requests /\ q.topic = c /\ q.kind # "sync"
    BY <1>1, <2>1, <2>2 DEF Requests
  <2> QED
    BY <1>2, <2>2, <2>3
<1>6. CASE HandleQuerySyncMessages(c, a)
  <2>1. PICK q : q = [kind |-> "sync", user |-> a.user, topic |-> c,
                      cursor |-> cursor[a.user]]
    OBVIOUS
  <2>2. Ask(c, q)
    BY <1>6, <2>1 DEF HandleQuerySyncMessages
  <2>3. q \in Requests /\ q.topic = c /\ q.cursor = cursor[q.user]
    BY <1>1, <2>1 DEF Requests
  <2> QED
    BY <1>2, <2>2, <2>3
<1>7. CASE HandleUpdateUser(c, a)
  <2>1. PICK q : q = [kind |-> "update", user |-> a.user, topic |-> c, about |-> a.about]
    OBVIOUS
  <2>2. Ask(c, q) /\ a.about \in Users
    BY <1>7, <2>1 DEF HandleUpdateUser
  <2>3. q \in Requests /\ q.topic = c /\ q.kind # "sync"
    BY <1>1, <2>1, <2>2 DEF Requests
  <2> QED
    BY <1>2, <2>2, <2>3
<1> QED
  BY <1>3, <1>4, <1>5, <1>6, <1>7

LEMMA PostAsks ==
    ASSUME NEW c \in Containers, NEW a \in Posts, HandlePost(c, a)
    PROVE  \/ /\ \E q : Asked(q)
              /\ idem' = [idem EXCEPT ![<<a.user, a.client>>] = Pending]
           \/ /\ UNCHANGED <<storageVars, routing, redis, df, claims, published, lost, pushes,
                             released, cursor, synced>>
              /\ idem[<<a.user, a.client>>] \notin {Absent, Pending}
              /\ frames' = frames \cup {PostAck(a.user, a.client, idem[<<a.user, a.client>>])}
<1> DEFINE k == <<a.user, a.client>>
<1>1. a.user \in Users /\ a.client \in Clients /\ a.to \in Users \cup {Group}
  OBVIOUS
<1>2. CASE /\ idem[k] = Absent /\ idem' = [idem EXCEPT ![k] = Pending]
           /\ topic' = Append(topic, [kind |-> "store", user |-> a.user, topic |-> c,
                                      to |-> a.to, client |-> a.client])
           /\ UNCHANGED frames
  <2>1. PICK q : q = [kind |-> "store", user |-> a.user, topic |-> c, to |-> a.to,
                      client |-> a.client]
    OBVIOUS
  <2>2. q \in Requests /\ q.topic = c /\ q.kind # "sync" /\ q.user = a.user
    BY <1>1, <2>1 DEF Requests
  <2>3. Arrive(q) /\ a.user \in conn[c]
    BY <1>2, <2>1 DEF HandlePost, Arrive, storageRest
  <2>4. UNCHANGED <<routing, effects, df, claims, published, seen>>
    BY <1>2 DEF HandlePost, seen
  <2>5. Asked(q)
    BY <2>2, <2>3, <2>4 DEF Asked
  <2> QED
    BY <1>2, <2>5
<1>3. CASE /\ idem[k] \notin {Absent, Pending}
           /\ frames' = frames \cup {PostAck(a.user, a.client, idem[k])}
           /\ UNCHANGED <<idem, topic>>
  BY <1>3 DEF HandlePost, storageRest, storageVars, redis
<1> QED
  BY <1>2, <1>3 DEF HandlePost, Publish

-----------------------------------------------------------------------------
(* Frames, records and consumers that are left alone.                      *)

LEMMA FrameKept ==
    ASSUME Grows, NEW f, FrameOK(f)
    PROVE  FrameOK(f)'
BY DEF FrameOK, Grows

LEMMA RecordKept ==
    ASSUME Grows, moved \subseteq moved', NEW d, RecordOK(d)
    PROVE  RecordOK(d)'
<1>1. d.kind = "forward" => FrameOK(d.frame)'
  BY FrameKept DEF RecordOK
<1>2. d.kind = "storage" => d.rsp \in outbox'
  BY DEF RecordOK, Grows
<1>3. \A u, c : AtHome(u, c) => AtHome(u, c)'
  BY DEF AtHome
<1> QED
  BY <1>1, <1>2, <1>3 DEF RecordOK

\* The response in a record.
LEMMA StorageRecord ==
    ASSUME StorageInv, HomeOK, NEW d, RecordOK(d), d.kind = "storage"
    PROVE  /\ d.rsp \in outbox /\ d.rsp.user \in Users /\ AtHome(d.rsp.user, d.to)
           /\ d.rsp.kind = "store" => /\ d.rsp.id \in Stored /\ d.rsp.id \in Ids
                                      /\ messages[d.rsp.id].from = d.rsp.user
                                      /\ messages[d.rsp.id].client = d.rsp.client
                                      /\ messages[d.rsp.id] \in Rows
           /\ d.rsp.kind = "recall" /\ d.rsp.result = "ok" =>
                d.rsp.id \in Stored /\ messages[d.rsp.id] \in Rows
           /\ FrameOK(AnswerFrame(d.rsp)) /\ AnswerFrame(d.rsp).user = d.rsp.user
<1>1. PICK r \in outbox : r = d.rsp
  BY DEF RecordOK
<1>2. ResponseOK(r)
  BY <1>1 DEF StorageInv, OutboxOK
<1>3. PICK q \in Requests : q = topic[r.op]
  BY <1>2 DEF ResponseOK, StorageInv, StorageTypes
<1>4. r.user = q.user /\ r.topic = q.topic /\ r.kind = q.kind /\ q.user \in Users
      /\ q.kind \in {"store", "recall", "message", "user", "sync", "update"}
  BY <1>2, <1>3, RequestFields DEF ResponseOK
<1>5. AtHome(r.user, d.to)
  BY <1>1, <1>2, <1>3, <1>4 DEF HomeOK, RecordOK, ResponseOK
<1>6. r.kind = "store" => r.id \in Existing(q) /\ r.client = q.client
  BY <1>2, <1>3 DEF ResponseOK
<1>7. r.kind = "store" => /\ r.id \in Stored /\ r.id \in Ids /\ messages[r.id].from = r.user
                          /\ messages[r.id].client = r.client
  BY <1>4, <1>6 DEF Existing, Stored
<1>8. r.kind = "recall" /\ r.result = "ok" => r.id \in Stored
  BY <1>2 DEF ResponseOK
<1>9. \A i \in Stored : messages[i] \in Rows
  BY DEF StorageInv, StorageTypes, Stored
<1>10. FrameOK(AnswerFrame(r)) /\ AnswerFrame(r).user = r.user
  BY <1>4, <1>7 DEF FrameOK, AnswerFrame, PostAck, Frame
<1> QED
  BY <1>1, <1>4, <1>5, <1>7, <1>8, <1>9, <1>10

LEMMA ClaimKept ==
    ASSUME StorageInv, HomeOK, Grows, moved \subseteq moved', NEW k \in Claims, ClaimOK(k),
           claims'[k] = claims[k]
    PROVE  ClaimOK(k)'
<1> DEFINE t == claims[k]
<1>1. PICK d : d = t.record
  OBVIOUS
<1>2. t.phase # "idle" => RecordOK(d)'
  BY <1>1, RecordKept DEF ClaimOK
<1>3. t.phase = "route" => RoutesOK(k)'
  <2>1. SUFFICES ASSUME t.phase = "route" PROVE RoutesOK(k)'
    OBVIOUS
  <2>2. RecordOK(d) /\ d.kind = "storage" /\ d.rsp.kind = "store" /\ RoutesOK(k)
    BY <1>1, <2>1 DEF ClaimOK, Rsp
  <2>3. d.rsp.id \in Stored
    BY <2>2, StorageRecord
  <2>4. messages'[d.rsp.id].to = messages[d.rsp.id].to
    BY <2>3 DEF Grows
  <2>5. PostOf(k)'.to = PostOf(k).to
    BY <1>1, <2>4 DEF PostOf, Rsp
  <2>6. \A u, c : AtHome(u, c) => AtHome(u, c)'
    BY DEF AtHome
  <2> QED
    BY <2>2, <2>5, <2>6 DEF RoutesOK, AtHome
<1> QED
  BY <1>1, <1>2, <1>3 DEF ClaimOK, Rsp

\* The effects keys, when no consumer begins to deliver.
LEMMA EffectsKept ==
    ASSUME EffectsOK, Grows, UNCHANGED <<effects, pushes, released>>,
           \A k \in Claims : \/ claims'[k] = claims[k]
                             \/ claims'[k].phase \notin {"deliver", "route"}
    PROVE  EffectsOK'
<1>1. \A k \in Claims, i \in Ids : /\ Delivering(k, i)' => Delivering(k, i)
                                   /\ Delivering(k, i)' => claims'[k] = claims[k]
  BY DEF Delivering, Rsp
<1>2. \A i \in Stored : i \in Stored'
  BY DEF Grows
<1>3. \A k \in Claims, i \in Ids :
         claims'[k].phase = "deliver" /\ Rsp(k)'.id = i => pushes[i] <= released[i]
  BY DEF EffectsOK, Rsp
<1> QED
  BY <1>1, <1>2, <1>3 DEF EffectsOK

\* Steps that leave the containers' consumers and their topics alone.
LEMMA RouteQuiet ==
    ASSUME StorageInv, RouteInv, Grows, moved \subseteq moved',
           UNCHANGED <<claims, effects, pushes, released, lost>>,
           \A d \in df' : d \in df \/ RecordOK(d),
           \A f \in frames' : f \in frames \/ FrameOK(f),
           PathTypes', HomeOK', IdemOK'
    PROVE  RouteInv'
<1>1. FramesOK'
  BY FrameKept DEF RouteInv, FramesOK
<1>2. \A d \in df' : RecordOK(d)'
  BY RecordKept DEF RouteInv
<1>3. \A k \in Claims : ClaimOK(k)'
  BY ClaimKept DEF RouteInv
<1>4. EffectsOK'
  BY EffectsKept DEF RouteInv
<1>5. claims' = [k \in Claims |-> claims'[k]]
  BY DEF RouteInv
<1> QED
  BY <1>1, <1>2, <1>3, <1>4, <1>5 DEF RouteInv

-----------------------------------------------------------------------------
(* The clients, the connections and the keys.                              *)

LEMMA IdemKept ==
    ASSUME RouteInv, Grows, idem' = idem
    PROVE  IdemOK'
BY DEF RouteInv, IdemOK, Grows

LEMMA TypesKept ==
    ASSUME RouteInv, Grows, UNCHANGED <<effects, published, pushes, released>>,
           conn' \in [Containers -> SUBSET Users],
           route' \in [Users -> Containers \cup {Offline}],
           idem' \in [IdemKeys -> {Absent, Pending} \cup Ids], moved' \subseteq Users
    PROVE  PathTypes'
<1>1. effects' \subseteq Stored'
  BY DEF RouteInv, PathTypes, Grows
<1>2. outbox \subseteq outbox'
  BY DEF Grows
<1>3. {r.op : r \in outbox} \subseteq {r.op : r \in outbox'}
  BY <1>2
<1> QED
  BY <1>1, <1>3 DEF RouteInv, PathTypes

\* storageService works, members come and go, time passes.
LEMMA StorageRoutes ==
    ASSUME StorageInv, RouteInv, Grows, topic' = topic, UNCHANGED dfVars
    PROVE  RouteInv'
<1>1. /\ UNCHANGED <<conn, route, moved, idem, effects, df, claims, published>>
      /\ UNCHANGED <<frames, lost, pushes, released>>
  BY DEF dfVars, routing, redis, seen
<1>2. PathTypes'
  BY <1>1, TypesKept DEF RouteInv, PathTypes
<1>3. HomeOK'
  BY <1>1 DEF RouteInv, HomeOK, AtHome
<1> QED
  BY <1>1, <1>2, <1>3, IdemKept, RouteQuiet

\* A request of a client arrives.
LEMMA AskedRoutes ==
    ASSUME StorageInv, RouteInv, Grows, NEW q, Asked(q),
           idem' = idem \/ \E k \in IdemKeys : idem' = [idem EXCEPT ![k] = Pending]
    PROVE  RouteInv'
<1>1. /\ UNCHANGED <<conn, route, moved, effects, df, claims, published>>
      /\ UNCHANGED <<frames, lost, pushes, released>>
      /\ topic' = Append(topic, q) /\ q \in Requests /\ q.user \in conn[q.topic]
  BY DEF Asked, Arrive, routing, seen
<1>2. q.user \in Users /\ q.topic \in Containers
  BY <1>1, RequestFields
<1>3. /\ \A k \in IdemKeys : idem'[k] = idem[k] \/ idem'[k] = Pending
      /\ idem' \in [IdemKeys -> {Absent, Pending} \cup Ids]
  <2>1. idem \in [IdemKeys -> {Absent, Pending} \cup Ids]
    BY DEF RouteInv, PathTypes
  <2> QED
    BY <2>1
<1>4. PathTypes'
  BY <1>1, <1>3, TypesKept DEF RouteInv, PathTypes
<1>5. HomeOK'
  <2>1. topic \in Seq(Requests)
    BY DEF StorageInv, StorageTypes
  <2>2. ASSUME NEW o \in DOMAIN topic' PROVE AtHome(topic[o].user, topic[o].topic)'
    <3>1. CASE o \in DOMAIN topic
      <4>1. topic'[o] = topic[o]
        BY <1>1, <2>1, <3>1
      <4> QED
        BY <1>1, <3>1, <4>1 DEF RouteInv, HomeOK, AtHome
    <3>2. CASE o \notin DOMAIN topic
      <4>1. topic'[o] = q
        BY <1>1, <2>1, <3>2
      <4>2. AtHome(q.user, q.topic)
        BY <1>1, <1>2 DEF RouteInv, HomeOK
      <4> QED
        BY <1>1, <4>1, <4>2 DEF AtHome
    <3> QED
      BY <3>1, <3>2
  <2> QED
    BY <1>1, <2>2 DEF RouteInv, HomeOK, AtHome
<1>6. IdemOK'
  <2>1. Pending \notin Ids
    BY DEF Ids
  <2>2. \A k \in IdemKeys : idem'[k] \in Ids => idem[k] \in Ids /\ idem'[k] = idem[k]
    BY <1>3, <2>1
  <2> QED
    BY <2>2 DEF RouteInv, IdemOK, Grows
<1> QED
  BY <1>1, <1>4, <1>5, <1>6, RouteQuiet

\* A repeated post is acknowledged from its key.
LEMMA AckedRoutes ==
    ASSUME StorageInv, RouteInv, Grows, UNCHANGED <<storageVars, routing, redis>>,
           UNCHANGED <<df, claims, published, lost, pushes, released>>,
           NEW k \in IdemKeys, idem[k] \notin {Absent, Pending},
           frames' = frames \cup {PostAck(k[1], k[2], idem[k])}
    PROVE  RouteInv'
<1>1. UNCHANGED <<topic, conn, route, moved, idem, effects>>
  BY DEF storageVars, routing, redis
<1>2. idem[k] \in Ids /\ k[1] \in Users
  BY DEF RouteInv, PathTypes, IdemKeys
<1>3. FrameOK(PostAck(k[1], k[2], idem[k]))
  BY <1>2 DEF RouteInv, IdemOK, FrameOK, PostAck
<1>4. PathTypes'
  BY <1>1, TypesKept DEF RouteInv, PathTypes
<1>5. HomeOK'
  BY <1>1 DEF RouteInv, HomeOK, AtHome
<1> QED
  BY <1>1, <1>3, <1>4, <1>5, IdemKept, RouteQuiet

\* A key expires, or is claimed for a post that is never published.
LEMMA KeyRoutes ==
    ASSUME StorageInv, RouteInv, Grows, UNCHANGED <<storageVars, routing, effects>>,
           UNCHANGED <<df, claims, published, seen>>,
           NEW k \in IdemKeys, NEW v \in {Absent, Pending}, idem' = [idem EXCEPT ![k] = v]
    PROVE  RouteInv'
<1>1. UNCHANGED <<topic, conn, route, moved, frames, lost, pushes, released>>
  BY DEF storageVars, routing, seen
<1>2. idem \in [IdemKeys -> {Absent, Pending} \cup Ids]
  BY DEF RouteInv, PathTypes
<1>3. /\ idem' \in [IdemKeys -> {Absent, Pending} \cup Ids]
      /\ \A j \in IdemKeys : idem'[j] = idem[j] \/ idem'[j] \in {Absent, Pending}
  BY <1>2
<1>4. PathTypes'
  BY <1>1, <1>3, TypesKept DEF RouteInv, PathTypes
<1>5. HomeOK'
  BY <1>1 DEF RouteInv, HomeOK, AtHome
<1>6. IdemOK'
  <2>1. Pending \notin Ids /\ Absent \notin Ids
    BY StorageAssumption DEF Ids
  <2>2. \A j \in IdemKeys : idem'[j] \in Ids => idem[j] \in Ids /\ idem'[j] = idem[j]
    BY <1>3, <2>1
  <2> QED
    BY <2>2 DEF RouteInv, IdemOK, Grows
<1> QED
  BY <1>1, <1>4, <1>5, <1>6, RouteQuiet

\* Users come and go: only a login may be away from home, and it is a move.
LEMMA ConnectRoutes ==
    ASSUME StorageInv, RouteInv, Grows, NEW u \in Movers,
           \/ \E c \in Containers : Login(u, c) \/ CloseStale(u, c)
           \/ Disconnect(u) \/ LoseRoute(u)
    PROVE  RouteInv' /\ moved \subseteq moved'
<1>1. /\ UNCHANGED <<topic, idem, effects, df, claims, published>>
      /\ UNCHANGED <<frames, lost, pushes, released>>
  BY DEF Login, CloseStale, Disconnect, LoseRoute, storageVars, redis, seen
<1>2. u \in Users /\ conn \in [Containers -> SUBSET Users]
      /\ route \in [Users -> Containers \cup {Offline}] /\ moved \subseteq Users
  BY DEF RouteInv, PathTypes
<1>3. /\ moved' \subseteq Users /\ moved \subseteq moved'
      /\ conn' \in [Containers -> SUBSET Users]
      /\ route' \in [Users -> Containers \cup {Offline}]
      /\ \A x \in Users : route'[x] \in {route[x], Offline} \/ x \in moved'
      /\ \A x \in Users, c \in Containers : x \in conn'[c] => x \in conn[c] \/ x \in moved'
  <2>1. ASSUME NEW c \in Containers, Login(u, c)
        PROVE  <1>3!:
    BY <1>2, <2>1 DEF Login
  <2>2. ASSUME NEW c \in Containers, CloseStale(u, c)
        PROVE  <1>3!:
    BY <1>2, <2>2 DEF CloseStale
  <2>3. CASE Disconnect(u)
    BY <1>2, <2>3 DEF Disconnect
  <2>4. CASE LoseRoute(u)
    BY <1>2, <2>4 DEF LoseRoute
  <2> QED
    BY <2>1, <2>2, <2>3, <2>4
<1>4. PathTypes'
  BY <1>1, <1>3, TypesKept DEF RouteInv, PathTypes
<1>5. HomeOK'
  <2>1. \A x \in Users : /\ route[x] = Offline \/ AtHome(x, route[x])
                         /\ \A c \in Containers : x \in conn[c] => AtHome(x, c)
    BY DEF RouteInv, HomeOK
  <2>2. \A o \in DOMAIN topic : AtHome(topic[o].user, topic[o].topic)
    BY DEF RouteInv, HomeOK
  <2> QED
    BY <1>1, <1>3, <2>1, <2>2 DEF HomeOK, AtHome
<1> QED
  BY <1>1, <1>3, <1>4, <1>5, IdemKept, RouteQuiet

\* Another service answers, or the relay of calls publishes an event.
LEMMA NoticeRoutes ==
    ASSUME StorageInv, RouteInv, Grows, UNCHANGED <<storageVars, routing, redis>>,
           UNCHANGED <<claims, published, seen>>,
           NEW d, df' = df \cup {d}, RecordOK(d)
    PROVE  RouteInv'
<1>1. UNCHANGED <<topic, conn, route, moved, idem, effects, frames, lost, pushes, released>>
  BY DEF storageVars, routing, redis, seen
<1>2. PathTypes'
  BY <1>1, TypesKept DEF RouteInv, PathTypes
<1>3. HomeOK'
  BY <1>1 DEF RouteInv, HomeOK, AtHome
<1> QED
  BY <1>1, <1>2, <1>3, IdemKept, RouteQuiet

LEMMA AnsweredRoutes ==
    ASSUME StorageInv, RouteInv, Grows, NEW c \in Containers, NEW u \in Movers,
           FriendRequest(c, u) \/ PushRequest(c, u)
    PROVE  RouteInv'
<1>1. PICK kind \in {"friend", "push"} : Answered(c, u, kind)
  BY DEF FriendRequest, PushRequest
<1>2. PICK d : d = [to |-> c, kind |-> kind, user |-> u, id |-> 0]
  OBVIOUS
<1>3. u \in Users /\ AtHome(u, c)
  BY <1>1 DEF Answered, RouteInv, HomeOK
<1>4. RecordOK(d)
  BY <1>2, <1>3 DEF RecordOK
<1>5. /\ UNCHANGED <<storageVars, routing, redis>> /\ UNCHANGED <<claims, published, seen>>
      /\ df' = df \cup {d}
  BY <1>1, <1>2 DEF Answered
<1> QED
  BY <1>4, <1>5, NoticeRoutes

LEMMA PublishedRoutes ==
    ASSUME StorageInv, RouteInv, RelayInv, Grows, NEW p \in Pods, step[p] # "loop",
           Published(p)
    PROVE  RouteInv'
<1>1. PICK i \in DOMAIN stream : i = First(p)
  BY BusyPod
<1>2. PICK e \in [user : Users, topic : Containers] : e = stream[i]
  <2>1. PICK S : S = [user : Users, topic : Containers]
    OBVIOUS
  <2>2. stream \in Seq(S)
    BY <2>1 DEF RelayInv
  <2>3. stream[i] \in S
    BY <1>1, <2>2
  <2> QED
    BY <2>1, <2>3
<1>3. e.user \in Users /\ e.topic \in Containers /\ AtHome(e.user, e.topic)
  BY <1>1, <1>2 DEF RelayInv
<1>4. PICK d : d = [to |-> e.topic, kind |-> "call", user |-> e.user, id |-> i,
                    copy |-> sent[i]]
  OBVIOUS
<1>5. RecordOK(d)
  BY <1>3, <1>4 DEF RecordOK
<1>6. /\ UNCHANGED <<storageVars, routing, redis>> /\ UNCHANGED <<claims, published, seen>>
      /\ df' = df \cup {d}
  BY <1>1, <1>2, <1>4 DEF Published
<1> QED
  BY <1>5, <1>6, NoticeRoutes

LEMMA RelayRoutes ==
    ASSUME StorageInv, RouteInv, Grows, NEW r \in outbox, Relay(r)
    PROVE  RouteInv'
<1>1. /\ UNCHANGED <<topic, outbox, conn, route, moved, idem, effects, claims>>
      /\ UNCHANGED <<frames, lost, pushes, released, messages>>
      /\ published' = published \cup {r.op}
  BY DEF Relay, storageVars, db, routing, redis, seen
<1>2. PICK n \in 1 .. 2 : df' = df \cup {[to |-> r.topic, kind |-> "storage", rsp |-> r,
                                          copy |-> n]}
  BY DEF Relay
<1>3. PICK d : d = [to |-> r.topic, kind |-> "storage", rsp |-> r, copy |-> n]
  OBVIOUS
<1>4. r.topic \in Containers
  <2>1. ResponseOK(r)
    BY DEF StorageInv, OutboxOK
  <2>2. PICK q \in Requests : q = topic[r.op]
    BY <2>1 DEF ResponseOK, StorageInv, StorageTypes
  <2>3. q.topic \in Containers
    BY RequestFields
  <2> QED
    BY <2>1, <2>2, <2>3 DEF ResponseOK
<1>5. RecordOK(d)
  BY <1>3, <1>4 DEF RecordOK
<1>6. PathTypes'
  <2>1. published' \subseteq {x.op : x \in outbox'}
    BY <1>1 DEF RouteInv, PathTypes
  <2>2. effects' \subseteq Stored'
    BY <1>1 DEF RouteInv, PathTypes, Stored
  <2> QED
    BY <1>1, <2>1, <2>2 DEF RouteInv, PathTypes
<1>7. HomeOK'
  BY <1>1 DEF RouteInv, HomeOK, AtHome
<1>8. IdemOK'
  BY <1>1, IdemKept
<1>9. \A x \in df' : x \in df \/ RecordOK(x)
  BY <1>2, <1>3, <1>5
<1> QED
  BY <1>1, <1>6, <1>7, <1>8, <1>9, RouteQuiet

-----------------------------------------------------------------------------
(* The consumers.                                                          *)

\* A consumer has turned to its next step, and does not deliver.
Turned(k) ==
    /\ claims' = [j \in Claims |-> claims'[j]]
    /\ \A j \in Claims : j # k => claims'[j] = claims[j]
    /\ claims'[k].phase \in {"idle", "start", "answer"}
    /\ ClaimOK(k)'

LEMMA TurnedRoutes ==
    ASSUME StorageInv, RouteInv, Grows, NEW k \in Claims, Turned(k),
           UNCHANGED <<storageVars, routing, redis, published, pushes, released>>,
           \A d \in df' : d \in df \/ RecordOK(d),
           \A f \in frames' : f \in frames \/ FrameOK(f),
           \A f \in lost' : f \in lost \/ (FrameOK(f) /\ f.user \in moved)
    PROVE  RouteInv'
<1>1. UNCHANGED <<topic, conn, route, moved, idem, effects>>
  BY DEF storageVars, routing, redis
<1>2. PathTypes'
  BY <1>1, TypesKept DEF RouteInv, PathTypes
<1>3. HomeOK'
  BY <1>1 DEF RouteInv, HomeOK, AtHome
<1>4. IdemOK'
  BY <1>1, IdemKept
<1>5. FramesOK'
  BY <1>1, FrameKept DEF RouteInv, FramesOK
<1>6. \A d \in df' : RecordOK(d)'
  BY <1>1, RecordKept DEF RouteInv
<1>7. \A j \in Claims : ClaimOK(j)'
  BY <1>1, ClaimKept DEF RouteInv, Turned
<1>8. EffectsOK'
  BY <1>1, EffectsKept DEF RouteInv, Turned
<1> QED
  BY <1>2, <1>3, <1>4, <1>5, <1>6, <1>7, <1>8 DEF RouteInv, Turned

\* The state t is one a consumer may turn to.
LEMMA TurnedTo ==
    ASSUME RouteInv, Grows, UNCHANGED moved, NEW k \in Claims, NEW t, Set(k, t),
           ClaimShape(t), t.phase \in {"idle", "start", "answer"}, t.attempt \in 0 .. MaxRetries,
           t.phase # "idle" => RecordOK(t.record),
           t.phase = "answer" => t.record.kind = "storage"
    PROVE  Turned(k)
<1>1. /\ claims' = [j \in Claims |-> claims'[j]] /\ claims'[k] = t
      /\ \A j \in Claims : j # k => claims'[j] = claims[j]
  <2>1. claims = [j \in Claims |-> claims[j]]
    BY DEF RouteInv
  <2>2. claims' = [claims EXCEPT ![k] = t]
    BY DEF Set
  <2>3. claims' = [j \in Claims |-> IF j = k THEN t ELSE claims[j]]
    BY <2>1, <2>2
  <2> QED
    BY <2>3
<1>2. PICK d : d = t.record
  OBVIOUS
<1>3. t.phase # "idle" => RecordOK(d)'
  BY <1>2, RecordKept
<1>4. ClaimOK(k)'
  BY <1>1, <1>2, <1>3 DEF ClaimOK, ClaimPhases, ClaimShape
<1> QED
  BY <1>1, <1>4 DEF Turned

\* How the state of a consumer is changed.
LEMMA ClaimFields ==
    ASSUME NEW t, ClaimShape(t)
    PROVE  /\ LET n == [t EXCEPT !.phase = "answer", !.targets = {}, !.routes = Home] IN
              ClaimShape(n) /\ n.phase = "answer" /\ n.record = t.record /\ n.attempt = t.attempt
           /\ LET n == [t EXCEPT !.phase = "start", !.attempt = @ + 1] IN
              /\ ClaimShape(n) /\ n.phase = "start" /\ n.record = t.record
              /\ n.attempt = t.attempt + 1
           /\ LET n == [t EXCEPT !.phase = "deliver"] IN
              ClaimShape(n) /\ n.phase = "deliver" /\ n.record = t.record /\ n.attempt = t.attempt
           /\ \A T, R : LET n == [t EXCEPT !.phase = "route", !.targets = T, !.routes = R] IN
              /\ ClaimShape(n) /\ n.phase = "route" /\ n.record = t.record
              /\ n.attempt = t.attempt /\ n.targets = T /\ n.routes = R
BY DEF ClaimShape, ClaimNames

LEMMA TurnedFree ==
    ASSUME RouteInv, Grows, UNCHANGED moved, NEW k \in Claims, Set(k, Free)
    PROVE  Turned(k)
<1>0. 0 \in 0 .. MaxRetries
  BY PathAssumption
<1>1. ClaimShape(Free) /\ Free.phase = "idle" /\ Free.attempt = 0
  BY DEF ClaimShape, ClaimNames, Free
<1> QED
  BY <1>0, <1>1, TurnedTo

LEMMA TurnedToAnswer ==
    ASSUME RouteInv, Grows, UNCHANGED moved, NEW k \in Claims, ToAnswer(k),
           claims[k].phase # "idle", claims[k].record.kind = "storage"
    PROVE  Turned(k)
<1> DEFINE t == claims[k]
           n == [t EXCEPT !.phase = "answer", !.targets = {}, !.routes = Home]
<1>1. ClaimShape(t) /\ t.attempt \in 0 .. MaxRetries /\ RecordOK(t.record)
  BY DEF RouteInv, ClaimOK
<1>3. ClaimShape(n) /\ n.phase = "answer" /\ n.attempt = t.attempt /\ n.record = t.record
  BY <1>1, ClaimFields
<1>4. Set(k, n)
  BY DEF ToAnswer
<1> HIDE DEF n
<1> QED
  BY <1>1, <1>3, <1>4, TurnedTo

LEMMA TurnedRetry ==
    ASSUME RouteInv, Grows, UNCHANGED moved, NEW k \in Claims, Retry(k),
           claims[k].phase # "idle"
    PROVE  Turned(k) /\ df' \subseteq df
<1> DEFINE t == claims[k]
           n == [t EXCEPT !.phase = "start", !.attempt = @ + 1]
<1>1. ClaimShape(t) /\ t.attempt \in 0 .. MaxRetries /\ RecordOK(t.record)
  BY DEF RouteInv, ClaimOK
<1>2. CASE RetriesLeft(t)
  <2>2. /\ ClaimShape(n) /\ n.phase = "start" /\ n.attempt = t.attempt + 1
        /\ n.record = t.record
    BY <1>1, ClaimFields
  <2>3. n.attempt \in 0 .. MaxRetries
    BY <1>1, <1>2, <2>2 DEF RetriesLeft
  <2>4. Set(k, n) /\ df' = df
    BY <1>2 DEF Retry
  <2> HIDE DEF n
  <2> QED
    BY <1>1, <2>2, <2>3, <2>4, TurnedTo
<1>3. CASE ~RetriesLeft(t)
  BY <1>3, TurnedFree DEF Retry
<1> QED
  BY <1>2, <1>3

\* The format suits where the frame is, for a user that has not moved.
Fits(f, c, format) ==
    /\ FrameOK(f)
    /\ \/ f.user \in moved
       \/ c = Home[f.user] /\ format = "response"
       \/ c # Home[f.user] /\ format = "request"

\* Frames of one format are routed from the home of their users, or to it: what
\* is handed over can be read, and what is forwarded can be parsed.
LEMMA RoutedFrames ==
    ASSUME PathTypes, HomeOK, NEW c \in Containers, NEW F,
           NEW format \in {"request", "response"}, NEW D, NEW done,
           RouteAll(c, F, format, D, done),
           \A f \in F : Fits(f, c, format),
           \A d \in D : RecordOK(d)
    PROVE  /\ \A d \in df' : d \in df \/ RecordOK(d)
           /\ \A f \in frames' : f \in frames \/ FrameOK(f)
           /\ \A f \in lost' : f \in lost \/ (FrameOK(f) /\ f.user \in moved)
<1>1. ASSUME NEW f \in F, RoutePath(c, f.user) = "local"
      PROVE  FrameOK(f) /\ (format = "request" => f.user \in moved)
  <2>1. f.user \in Users /\ f.user \in conn[c]
    BY <1>1 DEF RoutePath, FrameOK, Fits
  <2> QED
    BY <1>1, <2>1 DEF HomeOK, AtHome, Fits
<1>2. ASSUME NEW f \in F, RoutePath(c, f.user) = "cross"
      PROVE  RecordOK(Forward(f, format))
  <2>1. PICK d : d = Forward(f, format)
    OBVIOUS
  <2>2. PICK u \in Users : u = f.user
    BY DEF FrameOK, Fits
  <2>3. route[u] # Offline /\ route[u] # c /\ route[u] \in Containers
    BY <1>2, <2>2 DEF RoutePath, PathTypes
  <2>4. u \in moved \/ route[u] = Home[u]
    BY <2>3 DEF HomeOK, AtHome
  <2>5. u \in moved \/ (route[u] = Home[u] /\ format = "request")
    BY <2>2, <2>3, <2>4 DEF Fits
  <2>6. /\ d.to = route[u] /\ d.kind = "forward" /\ d.frame = f /\ d.format = format
    BY <2>1, <2>2 DEF Forward
  <2>7. RecordOK(d)
    BY <2>2, <2>3, <2>5, <2>6 DEF RecordOK, Fits
  <2> QED
    BY <2>1, <2>7
<1>3. \A d \in df' : d \in df \/ RecordOK(d)
  <2> SUFFICES ASSUME NEW d \in df', d \notin df, d \notin D PROVE RecordOK(d)
    OBVIOUS
  <2>1. PICK f \in F : RoutePath(c, f.user) = "cross" /\ d = Forward(f, format)
    BY DEF RouteAll
  <2> QED
    BY <1>2, <2>1
<1>4. \A f \in frames' : f \in frames \/ FrameOK(f)
  BY <1>1 DEF RouteAll
<1>5. \A f \in lost' : f \in lost \/ (FrameOK(f) /\ f.user \in moved)
  BY <1>1 DEF RouteAll
<1> QED
  BY <1>3, <1>4, <1>5

\* ... with no records beside them and none finished.
LEMMA PlainFrames ==
    ASSUME PathTypes, HomeOK, NEW c \in Containers, NEW F,
           NEW format \in {"request", "response"}, RouteAll(c, F, format, {}, {}),
           \A f \in F : Fits(f, c, format)
    PROVE  /\ \A d \in df' : d \in df \/ RecordOK(d)
           /\ \A f \in frames' : f \in frames \/ FrameOK(f)
           /\ \A f \in lost' : f \in lost \/ (FrameOK(f) /\ f.user \in moved)
<1>1. PICK D, done : D = {} /\ done = {}
  OBVIOUS
<1>2. RouteAll(c, F, format, D, done)
  BY <1>1
<1>3. \A d \in D : RecordOK(d)
  BY <1>1
<1> QED
  BY <1>2, <1>3, RoutedFrames

\* Frames are sent from the home of their users.
LEMMA SentRoutes ==
    ASSUME StorageInv, RouteInv, Grows, NEW k \in Claims, Turned(k),
           UNCHANGED <<storageVars, routing, redis, published, pushes, released>>,
           NEW c \in Containers, NEW F, \A f \in F : FrameOK(f) /\ AtHome(f.user, c),
           NEW D, \A d \in D : RecordOK(d), NEW done,
           RouteAll(c, F, "response", D, done)
    PROVE  RouteInv'
<1>1. PICK format \in {"request", "response"} : format = "response"
  OBVIOUS
<1>2. RouteAll(c, F, format, D, done)
  BY <1>1
<1>3. \A f \in F : Fits(f, c, format)
  BY <1>1 DEF AtHome, Fits
<1>4. /\ \A d \in df' : d \in df \/ RecordOK(d)
      /\ \A f \in frames' : f \in frames \/ FrameOK(f)
      /\ \A f \in lost' : f \in lost \/ (FrameOK(f) /\ f.user \in moved)
  BY <1>1, <1>2, <1>3, RoutedFrames DEF RouteInv
<1> QED
  BY <1>4, TurnedRoutes

\* A record is tried again, after some of its frames were sent.
LEMMA RetryRoutes ==
    ASSUME StorageInv, RouteInv, Grows, NEW k \in Claims, claims[k].phase # "idle", Retry(k),
           UNCHANGED <<storageVars, routing, redis, published, pushes, released>>,
           \A f \in frames' : f \in frames \/ FrameOK(f), UNCHANGED lost
    PROVE  RouteInv'
<1>1. moved' = moved
  BY DEF routing
<1>2. Turned(k) /\ df' \subseteq df
  BY <1>1, TurnedRetry
<1> QED
  BY <1>2, TurnedRoutes

\* The record of a busy consumer.
LEMMA BusyClaim ==
    ASSUME RouteInv, NEW k \in Claims, claims[k].phase # "idle"
    PROVE  RecordOK(claims[k].record) /\ claims[k].record.to \in Containers
BY DEF RouteInv, ClaimOK, RecordOK

LEMMA ReceiveRoutes ==
    ASSUME StorageInv, RouteInv, Grows, NEW k \in Claims, NEW d \in df, Receive(k, d)
    PROVE  RouteInv'
<1> DEFINE n == [Free EXCEPT !.phase = "start", !.record = d]
<1>0. 0 \in 0 .. MaxRetries
  BY PathAssumption
<1>1. ClaimShape(n) /\ n.phase = "start" /\ n.attempt = 0 /\ n.record = d
  BY DEF ClaimShape, ClaimNames, Free
<1>2. Set(k, n) /\ moved' = moved /\ UNCHANGED <<df, frames, lost, pushes, released>>
      /\ UNCHANGED <<storageVars, routing, redis, published>>
  BY DEF Receive, routing, seen
<1>3. RecordOK(d)
  BY DEF RouteInv
<1> HIDE DEF n
<1>4. Turned(k)
  BY <1>0, <1>1, <1>2, <1>3, TurnedTo
<1> QED
  BY <1>2, <1>4, TurnedRoutes

LEMMA DropClaimRoutes ==
    ASSUME StorageInv, RouteInv, Grows, NEW k \in Claims, DropClaim(k)
    PROVE  RouteInv'
<1>1. /\ Set(k, Free) /\ moved' = moved /\ UNCHANGED <<df, frames, lost, pushes, released>>
      /\ UNCHANGED <<storageVars, routing, redis, published>>
  BY DEF DropClaim, routing, seen
<1> QED
  BY <1>1, TurnedFree, TurnedRoutes

LEMMA HandleOtherRoutes ==
    ASSUME StorageInv, RouteInv, Grows, NEW k \in Claims,
           HandleOther(k) \/ HandleStoreResponseWithoutRedis(k)
    PROVE  RouteInv'
<1>1. /\ ToAnswer(k) /\ moved' = moved /\ UNCHANGED <<df, frames, lost, pushes, released>>
      /\ UNCHANGED <<storageVars, routing, redis, published>>
      /\ claims[k].phase # "idle" /\ claims[k].record.kind = "storage"
  BY DEF HandleOther, HandleStoreResponseWithoutRedis, Handling, At, routing, seen
<1> QED
  BY <1>1, TurnedToAnswer, TurnedRoutes

LEMMA SendAnswerRoutes ==
    ASSUME StorageInv, RouteInv, Grows, NEW k \in Claims, SendAnswer(k)
    PROVE  RouteInv'
<1>1. PICK d : d = claims[k].record
  OBVIOUS
<1>2. claims[k].phase = "answer" /\ claims[k].phase # "idle"
  BY DEF SendAnswer, At
<1>3. RecordOK(d) /\ d.to \in Containers /\ d.kind = "storage"
  BY <1>1, <1>2, BusyClaim DEF RouteInv, ClaimOK
<1>4. PICK F : F = {AnswerFrame(d.rsp)}
  OBVIOUS
<1>5. \A f \in F : FrameOK(f) /\ AtHome(f.user, d.to)
  BY <1>3, <1>4, StorageRecord DEF RouteInv
<1>6. UNCHANGED <<storageVars, routing, redis, published, pushes, released>> /\ moved' = moved
  BY DEF SendAnswer, routing
<1>7. CASE RouteAll(d.to, F, "response", {}, {d}) /\ Set(k, Free)
  <2>1. Turned(k)
    BY <1>6, <1>7, TurnedFree
  <2> QED
    BY <1>2, <1>3, <1>5, <1>6, <1>7, <2>1, SentRoutes
<1>8. CASE Retry(k) /\ UNCHANGED <<frames, lost>>
  BY <1>2, <1>6, <1>8, RetryRoutes
<1> QED
  BY <1>1, <1>4, <1>7, <1>8 DEF SendAnswer

LEMMA HandleForwardRoutes ==
    ASSUME StorageInv, RouteInv, Grows, NEW k \in Claims, HandleForward(k)
    PROVE  RouteInv'
<1>1. PICK d : d = claims[k].record
  OBVIOUS
<1>2. claims[k].phase = "start" /\ claims[k].phase # "idle" /\ d.kind = "forward"
  BY <1>1 DEF HandleForward, At
<1>3. RecordOK(d) /\ d.to \in Containers
  BY <1>1, <1>2, BusyClaim
<1>4. PICK F : F = {d.frame}
  OBVIOUS
<1>5. /\ FrameOK(d.frame)
      /\ d.frame.user \in moved \/ (d.to = Home[d.frame.user] /\ d.format = "request")
  BY <1>2, <1>3 DEF RecordOK
<1>6. UNCHANGED <<storageVars, routing, redis, published, pushes, released>> /\ moved' = moved
  BY DEF HandleForward, routing
<1>7. CASE RouteAll(d.to, F, "response", {}, {d}) /\ Set(k, Free)
  <2>1. Turned(k)
    BY <1>6, <1>7, TurnedFree
  <2>2. \A f \in F : FrameOK(f) /\ AtHome(f.user, d.to)
    BY <1>4, <1>5 DEF AtHome
  <2> QED
    BY <1>3, <1>6, <1>7, <2>1, <2>2, SentRoutes
<1>8. CASE Retry(k) /\ UNCHANGED <<frames, lost>>
  BY <1>2, <1>6, <1>8, RetryRoutes
<1>9. CASE /\ d.format = "response" /\ lost' = lost \cup {d.frame} /\ df' = df \ {d}
           /\ Set(k, Free) /\ UNCHANGED frames
  <2>1. Turned(k)
    BY <1>6, <1>9, TurnedFree
  <2>2. \A f \in lost' : f \in lost \/ (FrameOK(f) /\ f.user \in moved)
    BY <1>5, <1>9
  <2> QED
    BY <1>6, <1>9, <2>1, <2>2, TurnedRoutes
<1> QED
  BY <1>1, <1>4, <1>7, <1>8, <1>9 DEF HandleForward

LEMMA HandleDFResponseRoutes ==
    ASSUME StorageInv, RouteInv, Grows, NEW k \in Claims, HandleDFResponse(k)
    PROVE  RouteInv'
<1>1. PICK d : d = claims[k].record
  OBVIOUS
<1>2. claims[k].phase = "start" /\ claims[k].phase # "idle" /\ d.kind \in {"post", "recall"}
  BY <1>1 DEF HandleDFResponse, At
<1>3. RecordOK(d) /\ d.to \in Containers
  BY <1>1, <1>2, BusyClaim
<1>4. PICK F : F = {Frame(u, d.kind, d.id) : u \in d.targets}
  OBVIOUS
<1>5. ASSUME NEW f \in F PROVE FrameOK(f) /\ AtHome(f.user, d.to)
  <2>1. PICK u \in d.targets : f = Frame(u, d.kind, d.id)
    BY <1>4
  <2>2. f.user = u /\ f.kind # "ack"
    BY <1>2, <2>1 DEF Frame
  <2> QED
    BY <1>2, <1>3, <2>1, <2>2 DEF RecordOK, FrameOK
<1>6. UNCHANGED <<storageVars, routing, redis, published, pushes, released>> /\ moved' = moved
  BY DEF HandleDFResponse, routing
<1>7. CASE RouteAll(d.to, F, "response", {}, {d}) /\ Set(k, Free)
  <2>1. Turned(k)
    BY <1>6, <1>7, TurnedFree
  <2> QED
    BY <1>3, <1>5, <1>6, <1>7, <2>1, SentRoutes
<1>8. CASE ToldSome(d.to, F) /\ Retry(k)
  <2>1. (\A f \in frames' : f \in frames \/ FrameOK(f)) /\ UNCHANGED lost
    BY <1>5, <1>8 DEF ToldSome
  <2> QED
    BY <1>2, <1>6, <1>8, <2>1, RetryRoutes
<1> QED
  BY <1>1, <1>4, <1>7, <1>8 DEF HandleDFResponse

LEMMA NotifyRoutes ==
    ASSUME StorageInv, RouteInv, Grows, NEW k \in Claims,
           NEW kind \in {"friend", "push", "call"}, Notify(k, kind)
    PROVE  RouteInv'
<1>1. PICK d : d = claims[k].record
  OBVIOUS
<1>2. claims[k].phase = "start" /\ claims[k].phase # "idle" /\ d.kind = kind
  BY <1>1 DEF Notify, At
<1>3. RecordOK(d) /\ d.to \in Containers
  BY <1>1, <1>2, BusyClaim
<1>4. PICK F : F = {Frame(d.user, d.kind, d.id)}
  OBVIOUS
<1>5. ASSUME NEW f \in F PROVE FrameOK(f) /\ AtHome(f.user, d.to)
  <2>1. f.user = d.user /\ f.kind = kind
    BY <1>2, <1>4 DEF Frame
  <2> QED
    BY <1>2, <1>3, <2>1 DEF RecordOK, FrameOK
<1>6. UNCHANGED <<storageVars, routing, redis, published, pushes, released>> /\ moved' = moved
  BY DEF Notify, routing
<1>7. CASE RouteAll(d.to, F, "response", {}, {d}) /\ Set(k, Free)
  <2>1. Turned(k)
    BY <1>6, <1>7, TurnedFree
  <2> QED
    BY <1>3, <1>5, <1>6, <1>7, <2>1, SentRoutes
<1>8. CASE Retry(k) /\ UNCHANGED <<frames, lost>>
  BY <1>2, <1>6, <1>8, RetryRoutes
<1> QED
  BY <1>1, <1>4, <1>7, <1>8 DEF Notify

\* The records of a fan-out are for the readers that its routes name.
LEMMA FanOutRecords ==
    ASSUME PathTypes, NEW c, NEW T \in SUBSET Users,
           NEW R \in [Users -> Containers \cup {Offline}],
           \A u \in Users : R[u] = Offline \/ AtHome(u, R[u]),
           NEW kind \in {"post", "recall"}, NEW i, NEW d \in FanOut(c, T, R, kind, i)
    PROVE  RecordOK(d)
<1>1. PICK x \in {R[u] : u \in T} \ {c, Offline} :
        d = [to |-> x, kind |-> kind, id |-> i, targets |-> {u \in T : R[u] = x}]
  BY DEF FanOut
<1>2. x \in Containers /\ x # Offline
  BY <1>1
<1>3. d.to = x /\ d.kind = kind /\ d.targets = {u \in T : R[u] = x}
  BY <1>1
<1>4. \A u \in d.targets : u \in Users /\ AtHome(u, x)
  BY <1>2, <1>3
<1> QED
  BY <1>2, <1>3, <1>4 DEF RecordOK

\* The readers of a message are users.
LEMMA TargetsAreUsers ==
    ASSUME NEW m \in Rows
    PROVE  Targets(m) \subseteq Users
BY DEF Targets, Members, Rows

LEMMA DeliverMessageRecallRoutes ==
    ASSUME StorageInv, RouteInv, Grows, NEW k \in Claims, DeliverMessageRecall(k)
    PROVE  RouteInv'
<1>1. PICK d : d = claims[k].record
  OBVIOUS
<1>2. /\ claims[k].phase = "start" /\ claims[k].phase # "idle" /\ d.kind = "storage"
      /\ d.rsp.kind = "recall" /\ d.rsp.result = "ok" /\ Rsp(k) = d.rsp
  BY <1>1 DEF DeliverMessageRecall, Handling, At, Rsp
<1>3. RecordOK(d) /\ d.to \in Containers
  BY <1>1, <1>2, BusyClaim
<1>4. messages[d.rsp.id] \in Rows
  BY <1>2, <1>3, StorageRecord DEF RouteInv
<1>5. PICK T \in SUBSET Users : T = Targets(PostOf(k)) \ {Rsp(k).user}
  BY <1>2, <1>4, TargetsAreUsers DEF PostOf
<1>6. PICK F : F = {Frame(u, "recall", Rsp(k).id) : u \in {v \in T : route[v] = d.to}}
  OBVIOUS
<1>7. ASSUME NEW f \in F PROVE FrameOK(f) /\ AtHome(f.user, d.to)
  <2>1. PICK u \in T : route[u] = d.to /\ f = Frame(u, "recall", Rsp(k).id)
    BY <1>6
  <2>2. f.user = u /\ f.kind # "ack" /\ u \in Users
    BY <2>1 DEF Frame
  <2>3. AtHome(u, d.to)
    BY <1>3, <2>1, <2>2, PathAssumption DEF RouteInv, HomeOK
  <2> QED
    BY <2>2, <2>3 DEF FrameOK
<1>8. UNCHANGED <<storageVars, routing, redis, published, pushes, released>> /\ moved' = moved
  BY DEF DeliverMessageRecall, routing
<1>9. PICK D : D = FanOut(d.to, T, route, "recall", Rsp(k).id)
  OBVIOUS
<1>10. CASE RouteAll(d.to, F, "response", D, {}) /\ ToAnswer(k)
  <2>1. Turned(k)
    BY <1>1, <1>2, <1>8, <1>10, TurnedToAnswer
  <2>2. \A x \in D : RecordOK(x)
    BY <1>9, FanOutRecords DEF RouteInv, PathTypes, HomeOK
  <2> QED
    BY <1>3, <1>7, <1>8, <1>10, <2>1, <2>2, SentRoutes
<1>11. CASE ToldSome(d.to, F) /\ Retry(k)
  <2>1. (\A f \in frames' : f \in frames \/ FrameOK(f)) /\ UNCHANGED lost
    BY <1>7, <1>11 DEF ToldSome
  <2> QED
    BY <1>2, <1>8, <1>11, <2>1, RetryRoutes
<1> QED
  BY <1>1, <1>5, <1>6, <1>9, <1>10, <1>11 DEF DeliverMessageRecall

LEMMA RouteGroupPostRoutes ==
    ASSUME StorageInv, RouteInv, Grows, NEW k \in Claims, RouteGroupPost(k)
    PROVE  RouteInv'
<1>1. PICK d : d = claims[k].record
  OBVIOUS
<1>2. claims[k].phase = "route" /\ claims[k].phase # "idle"
  BY DEF RouteGroupPost, At
<1>3. RecordOK(d) /\ d.to \in Containers /\ d.kind = "storage" /\ RoutesOK(k)
  BY <1>1, <1>2, BusyClaim DEF RouteInv, ClaimOK
<1>4. PICK T \in SUBSET Users : T = claims[k].targets
  BY <1>3 DEF RoutesOK
<1>5. PICK R \in [Users -> Containers \cup {Offline}] : R = claims[k].routes
  BY <1>3 DEF RoutesOK
<1>6. \A u \in Users : R[u] = Offline \/ AtHome(u, R[u])
  BY <1>3, <1>5 DEF RoutesOK
<1>7. PICK F : F = {PostFrame(k, u) : u \in {v \in T : R[v] = d.to}}
  OBVIOUS
<1>8. ASSUME NEW f \in F PROVE FrameOK(f) /\ AtHome(f.user, d.to)
  <2>1. PICK u \in T : R[u] = d.to /\ f = PostFrame(k, u)
    BY <1>7
  <2>2. f.user = u /\ f.kind # "ack" /\ u \in Users
    BY <2>1 DEF PostFrame, Frame
  <2>3. AtHome(u, d.to)
    BY <1>3, <1>6, <2>1, <2>2, PathAssumption
  <2> QED
    BY <2>2, <2>3 DEF FrameOK
<1>9. PICK D : D = FanOut(d.to, T, R, "post", Rsp(k).id)
  OBVIOUS
<1>10. /\ UNCHANGED <<storageVars, routing, redis, published, pushes, released>>
       /\ moved' = moved /\ ToAnswer(k)
  BY DEF RouteGroupPost, routing
<1>11. PICK E \in SUBSET D : RouteAll(d.to, F, "response", E, {})
  BY <1>1, <1>4, <1>5, <1>7, <1>9 DEF RouteGroupPost
<1>12. Turned(k)
  BY <1>1, <1>2, <1>3, <1>10, TurnedToAnswer
<1>13. \A x \in E : RecordOK(x)
  BY <1>4, <1>5, <1>6, <1>9, FanOutRecords DEF RouteInv
<1> QED
  BY <1>3, <1>8, <1>10, <1>11, <1>12, <1>13, SentRoutes

\* A consumer has moved on; what it holds and the effects keys are as they should.
LEMMA ConsumerRoutes ==
    ASSUME StorageInv, RouteInv, Grows, NEW k \in Claims,
           claims' = [j \in Claims |-> claims'[j]],
           \A j \in Claims : j # k => claims'[j] = claims[j],
           ClaimOK(k)', UNCHANGED <<storageVars, routing>>,
           \A d \in df' : d \in df \/ RecordOK(d),
           \A f \in frames' : f \in frames \/ FrameOK(f),
           \A f \in lost' : f \in lost \/ (FrameOK(f) /\ f.user \in moved),
           PathTypes', IdemOK', EffectsOK'
    PROVE  RouteInv'
<1>1. UNCHANGED <<topic, conn, route, moved>>
  BY DEF storageVars, routing
<1>2. HomeOK'
  BY <1>1 DEF RouteInv, HomeOK, AtHome
<1>3. FramesOK'
  BY <1>1, FrameKept DEF RouteInv, FramesOK
<1>4. \A d \in df' : RecordOK(d)'
  BY <1>1, RecordKept DEF RouteInv
<1>5. \A j \in Claims : ClaimOK(j)'
  BY <1>1, ClaimKept DEF RouteInv
<1> QED
  BY <1>2, <1>3, <1>4, <1>5 DEF RouteInv

\* The message of a consumer that delivers it.
LEMMA DeliveredPost ==
    ASSUME StorageInv, RouteInv, NEW k \in Claims, claims[k].phase \in {"deliver", "route"}
    PROVE  /\ RecordOK(claims[k].record) /\ claims[k].record.kind = "storage"
           /\ claims[k].record.to \in Containers
           /\ Rsp(k).id \in Stored /\ Rsp(k).id \in Ids /\ PostOf(k) \in Rows
           /\ Delivering(k, Rsp(k).id) /\ Rsp(k).id \in effects
           /\ \A j \in Claims : j # k => ~Delivering(j, Rsp(k).id)
<1>1. PICK d : d = claims[k].record
  OBVIOUS
<1>2. RecordOK(d) /\ d.kind = "storage" /\ d.rsp.kind = "store" /\ d.to \in Containers
  BY <1>1, BusyClaim DEF RouteInv, ClaimOK, Rsp
<1>3. d.rsp.id \in Stored /\ d.rsp.id \in Ids /\ messages[d.rsp.id] \in Rows
  BY <1>2, StorageRecord DEF RouteInv
<1>4. Rsp(k) = d.rsp
  BY <1>1 DEF Rsp
<1>5. Delivering(k, Rsp(k).id)
  BY DEF Delivering
<1> QED
  BY <1>1, <1>2, <1>3, <1>4, <1>5 DEF PostOf, RouteInv, EffectsOK

\* The effects key is released: the push that was asked for is paid by that.
LEMMA GiveUpRoutes ==
    ASSUME StorageInv, RouteInv, Grows, NEW k \in Claims,
           claims[k].phase \in {"deliver", "route"}, GiveUpEffects(k),
           UNCHANGED <<storageVars, routing, idem, published>>,
           pushes' \in [Ids -> Nat], \A i \in Ids : i # Rsp(k).id => pushes'[i] = pushes[i],
           pushes'[Rsp(k).id] <= 1 + released[Rsp(k).id],
           \A d \in df' : d \in df \/ RecordOK(d),
           \A f \in frames' : f \in frames \/ FrameOK(f),
           \A f \in lost' : f \in lost \/ (FrameOK(f) /\ f.user \in moved)
    PROVE  RouteInv'
<1>1. PICK x \in Ids : x = Rsp(k).id
  BY DeliveredPost
<1>2. /\ x \in Stored /\ Delivering(k, x)
      /\ \A j \in Claims : j # k => ~Delivering(j, x)
      /\ claims[k].record.kind = "storage" /\ claims[k].phase # "idle"
  BY <1>1, DeliveredPost
<1>3. /\ effects' = effects \ {x} /\ released' = [released EXCEPT ![x] = @ + 1]
      /\ ToAnswer(k) /\ moved' = moved
  BY <1>1 DEF GiveUpEffects, routing
<1>4. Turned(k)
  BY <1>2, <1>3, TurnedToAnswer
<1>5. /\ UNCHANGED <<topic, messages, outbox, conn, route, moved>> /\ Stored' = Stored
  BY DEF storageVars, db, routing, Stored
<1>6. released' \in [Ids -> Nat] /\ released'[x] = released[x] + 1
      /\ \A i \in Ids : i # x => released'[i] = released[i]
  BY <1>3 DEF RouteInv, PathTypes
<1>7. PathTypes'
  BY <1>3, <1>5, <1>6 DEF RouteInv, PathTypes
<1>8. IdemOK'
  BY IdemKept
<1>9. EffectsOK'
  <2>1. ASSUME NEW j \in Claims, NEW i \in Ids, Delivering(j, i)'
        PROVE  j # k /\ claims'[j] = claims[j] /\ Delivering(j, i) /\ i # x
    <3>1. j # k
      BY <1>4, <2>1 DEF Turned, Delivering
    <3>2. claims'[j] = claims[j]
      BY <1>4, <3>1 DEF Turned
    <3>3. Delivering(j, i)
      BY <2>1, <3>2 DEF Delivering, Rsp
    <3> QED
      BY <1>2, <3>1, <3>2, <3>3
  <2>2. \A j \in Claims, i \in Ids : Delivering(j, i)' => i \in effects'
    BY <1>3, <2>1 DEF RouteInv, EffectsOK
  <2>3. \A j, l \in Claims, i \in Ids : Delivering(j, i)' /\ Delivering(l, i)' => j = l
    BY <2>1 DEF RouteInv, EffectsOK
  <2>4. ASSUME NEW i \in Ids
        PROVE  /\ i \notin effects' => pushes'[i] <= released'[i]
               /\ pushes'[i] <= 1 + released'[i]
               /\ pushes'[i] > 0 => i \in Stored'
    <3>1. pushes[i] \in Nat /\ pushes'[i] \in Nat /\ released[i] \in Nat /\ released'[i] \in Nat
      BY <1>6 DEF RouteInv, PathTypes
    <3>2. CASE i = x
      BY <1>1, <1>2, <1>5, <1>6, <3>1, <3>2
    <3>3. CASE i # x
      BY <1>1, <1>3, <1>5, <1>6, <3>3 DEF RouteInv, EffectsOK
    <3> QED
      BY <3>2, <3>3
  <2>5. ASSUME NEW j \in Claims, NEW i \in Ids, claims'[j].phase = "deliver", Rsp(j)'.id = i
        PROVE  pushes'[i] <= released'[i]
    <3>1. Delivering(j, i)'
      BY <2>5 DEF Delivering
    <3>2. claims'[j] = claims[j] /\ i # x
      BY <2>1, <3>1
    <3>3. claims[j].phase = "deliver" /\ Rsp(j).id = i
      BY <2>5, <3>2 DEF Rsp
    <3> QED
      BY <1>1, <1>6, <3>2, <3>3 DEF RouteInv, EffectsOK
  <2> QED
    BY <2>2, <2>3, <2>4, <2>5 DEF EffectsOK
<1> QED
  BY <1>4, <1>7, <1>8, <1>9, ConsumerRoutes DEF Turned

LEMMA RoutePostRoutes ==
    ASSUME StorageInv, RouteInv, Grows, NEW k \in Claims, RoutePost(k)
    PROVE  RouteInv'
<1>1. PICK d : d = claims[k].record
  OBVIOUS
<1>2. claims[k].phase = "route" /\ claims[k].phase # "idle"
  BY DEF RoutePost, At
<1>3. /\ d.to \in Containers /\ d.kind = "storage" /\ PostOf(k) \in Rows /\ Rsp(k).id \in Ids
      /\ RoutesOK(k)
  BY <1>1, <1>2, DeliveredPost DEF RouteInv, ClaimOK
<1>4. PICK u \in Users : u = PostOf(k).to
  BY <1>3 DEF RoutePost, Rows
<1>5. u \in moved \/ claims[k].routes[u] = Home[u]
  BY <1>3, <1>4 DEF RoutesOK, AtHome, RoutePost
<1>6. PICK format \in {"request", "response"} : format = PostFormat(k, d.to, u)
  BY DEF PostFormat
<1>7. \/ u \in moved \/ (d.to = Home[u] /\ format = "response")
      \/ (d.to # Home[u] /\ format = "request")
  BY <1>5, <1>6 DEF PostFormat
<1>8. PICK F : F = {PostFrame(k, u)}
  OBVIOUS
<1>9. \A f \in F : Fits(f, d.to, format)
  BY <1>7, <1>8 DEF PostFrame, Frame, FrameOK, Fits
<1>10. UNCHANGED <<storageVars, routing, idem, published, pushes>> /\ moved' = moved
  BY DEF RoutePost, routing
<1>11. CASE GiveUpEffects(k) /\ UNCHANGED <<frames, lost, df>>
  <2>1. /\ pushes' \in [Ids -> Nat] /\ \A i \in Ids : pushes'[i] = pushes[i]
        /\ pushes'[Rsp(k).id] <= 1 + released[Rsp(k).id]
    BY <1>3, <1>10 DEF RouteInv, PathTypes, EffectsOK
  <2> QED
    BY <1>2, <1>10, <1>11, <2>1, GiveUpRoutes
<1>12. CASE /\ RouteAll(d.to, F, format, {}, {})
            /\ ToAnswer(k) /\ UNCHANGED <<effects, released>>
  <2>1. Turned(k)
    BY <1>1, <1>2, <1>3, <1>10, <1>12, TurnedToAnswer
  <2>2. UNCHANGED redis
    BY <1>10, <1>12 DEF redis
  <2>3. PathTypes /\ HomeOK
    BY DEF RouteInv
  <2>4. /\ \A x \in df' : x \in df \/ RecordOK(x)
        /\ \A f \in frames' : f \in frames \/ FrameOK(f)
        /\ \A f \in lost' : f \in lost \/ (FrameOK(f) /\ f.user \in moved)
    BY <1>3, <1>6, <1>9, <1>12, <2>3, PlainFrames
  <2> QED
    BY <1>10, <1>12, <2>1, <2>2, <2>4, TurnedRoutes
<1> QED
  BY <1>1, <1>4, <1>6, <1>8, <1>11, <1>12 DEF RoutePost

\* The push is asked for; then the routes are read, or the key is given up.
LEMMA DeliverStoredPostRoutes ==
    ASSUME StorageInv, RouteInv, Grows, NEW k \in Claims, DeliverStoredPost(k)
    PROVE  RouteInv'
<1>1. claims[k].phase = "deliver"
  BY DEF DeliverStoredPost, At
<1>2. PICK x \in Ids : x = Rsp(k).id
  BY <1>1, DeliveredPost
<1>3. PICK m \in Rows : m = PostOf(k)
  BY <1>1, DeliveredPost
<1>4. /\ x \in Stored /\ x \in effects /\ Delivering(k, x)
      /\ \A j \in Claims : j # k => ~Delivering(j, x)
      /\ RecordOK(claims[k].record) /\ claims[k].record.kind = "storage"
  BY <1>1, <1>2, DeliveredPost
<1>5. pushes[x] <= released[x] /\ pushes[x] \in Nat /\ released[x] \in Nat
  BY <1>1, <1>2 DEF RouteInv, EffectsOK, PathTypes
<1>6. /\ pushes' \in [Ids -> Nat] /\ \A i \in Ids : i # x => pushes'[i] = pushes[i]
      /\ pushes'[x] <= 1 + released[x]
  <2>1. pushes \in [Ids -> Nat]
    BY DEF RouteInv, PathTypes
  <2>2. pushes' = pushes \/ pushes' = [pushes EXCEPT ![x] = @ + 1]
    BY <1>2 DEF DeliverStoredPost
  <2> QED
    BY <1>5, <2>1, <2>2
<1>7. /\ UNCHANGED <<storageVars, routing, idem, df, published, frames, lost>>
      /\ moved' = moved
  BY DEF DeliverStoredPost, routing
<1>8. CASE GiveUpEffects(k)
  BY <1>1, <1>2, <1>6, <1>7, <1>8, GiveUpRoutes
<1>9. CASE /\ Set(k, [claims[k] EXCEPT !.phase = "route", !.targets = Targets(m),
                                       !.routes = route])
           /\ UNCHANGED <<effects, released>>
           /\ m.to \notin {u \in Users : route[u] = Offline}
  <2>1. PICK T \in SUBSET Users : T = Targets(m)
    BY <1>3, TargetsAreUsers
  <2>2. PICK t : t = claims[k]
    OBVIOUS
  <2>3. PICK n : n = [t EXCEPT !.phase = "route", !.targets = T, !.routes = route]
    OBVIOUS
  <2>4. ClaimShape(t) /\ t.attempt \in 0 .. MaxRetries /\ Rsp(k).kind = "store"
    BY <1>1, <2>2 DEF RouteInv, ClaimOK
  <2>5. /\ ClaimShape(n) /\ n.phase = "route" /\ n.record = t.record
        /\ n.attempt = t.attempt /\ n.targets = T /\ n.routes = route
    BY <2>3, <2>4 DEF ClaimShape, ClaimNames
  <2>6. /\ claims' = [j \in Claims |-> claims'[j]] /\ claims'[k] = n
        /\ \A j \in Claims : j # k => claims'[j] = claims[j]
    <3>1. claims = [j \in Claims |-> claims[j]]
      BY DEF RouteInv
    <3>2. claims' = [claims EXCEPT ![k] = n]
      BY <1>9, <2>1, <2>2, <2>3 DEF Set
    <3>3. claims' = [j \in Claims |-> IF j = k THEN n ELSE claims[j]]
      BY <3>1, <3>2
    <3> QED
      BY <3>3
  <2>7. /\ UNCHANGED <<topic, messages, outbox, conn, route, moved>> /\ Stored' = Stored
    BY <1>7 DEF storageVars, db, routing, Stored
  <2>8. Rsp(k)' = Rsp(k) /\ PostOf(k)' = m
    BY <1>3, <2>2, <2>5, <2>6, <2>7 DEF Rsp, PostOf
  <2>9. RoutesOK(k)'
    <3>1. m.to # Group => m.to \in Users
      BY <1>3 DEF Rows
    <3>2. route \in [Users -> Containers \cup {Offline}]
      BY DEF RouteInv, PathTypes
    <3>3. \A u \in Users : route[u] = Offline \/ AtHome(u, route[u])
      BY DEF RouteInv, HomeOK
    <3> QED
      BY <1>9, <2>1, <2>5, <2>6, <2>7, <2>8, <3>1, <3>2, <3>3 DEF RoutesOK, AtHome
  <2>10. ClaimOK(k)'
    <3>1. PICK d : d = t.record
      OBVIOUS
    <3>2. RecordOK(d)'
      BY <1>4, <2>2, <2>7, <3>1, RecordKept
    <3> QED
      BY <1>4, <2>2, <2>4, <2>5, <2>6, <2>8, <2>9, <3>1, <3>2 DEF ClaimOK, ClaimPhases
  <2>11. PathTypes'
    BY <1>6, <1>7, <1>9, <2>7 DEF RouteInv, PathTypes
  <2>12. IdemOK'
    BY <1>7, IdemKept
  <2>13. EffectsOK'
    <3>1. \A j \in Claims, i \in Ids : Delivering(j, i)' => Delivering(j, i)
      <4> SUFFICES ASSUME NEW j \in Claims, NEW i \in Ids, Delivering(j, i)'
                   PROVE  Delivering(j, i)
        OBVIOUS
      <4>1. CASE j = k
        BY <1>1, <2>8, <4>1 DEF Delivering
      <4>2. CASE j # k
        BY <2>6, <4>2 DEF Delivering, Rsp
      <4> QED
        BY <4>1, <4>2
    <3>2. ASSUME NEW i \in Ids
          PROVE  /\ i \notin effects' => pushes'[i] <= released'[i]
                 /\ pushes'[i] <= 1 + released'[i]
                 /\ pushes'[i] > 0 => i \in Stored'
      <4>1. CASE i = x
        BY <1>4, <1>6, <1>9, <2>7, <4>1
      <4>2. CASE i # x
        BY <1>6, <1>9, <2>7, <4>2 DEF RouteInv, EffectsOK
      <4> QED
        BY <4>1, <4>2
    <3>3. ASSUME NEW j \in Claims, NEW i \in Ids, claims'[j].phase = "deliver",
                 Rsp(j)'.id = i
          PROVE  pushes'[i] <= released'[i]
      <4>1. j # k
        BY <2>5, <2>6, <3>3
      <4>2. claims[j].phase = "deliver" /\ Rsp(j).id = i
        BY <2>6, <3>3, <4>1 DEF Rsp
      <4>3. i # x
        BY <1>4, <4>1, <4>2 DEF Delivering
      <4> QED
        BY <1>6, <1>9, <4>2, <4>3 DEF RouteInv, EffectsOK
    <3>4. effects' = effects
      BY <1>9
    <3> QED
      BY <3>1, <3>2, <3>3, <3>4 DEF RouteInv, EffectsOK
  <2> QED
    BY <1>7, <2>6, <2>10, <2>11, <2>12, <2>13, ConsumerRoutes
<1> QED
  BY <1>3, <1>8, <1>9 DEF DeliverStoredPost

\* The key of the post names its row; a consumer that claims the effects of a
\* message is the only one.
LEMMA HandleStoreResponseRoutes ==
    ASSUME StorageInv, RouteInv, Grows, NEW k \in Claims, HandleStoreResponse(k)
    PROVE  RouteInv'
<1>1. PICK d : d = claims[k].record
  OBVIOUS
<1>2. /\ claims[k].phase = "start" /\ claims[k].phase # "idle" /\ d.kind = "storage"
      /\ d.rsp.kind = "store" /\ Rsp(k) = d.rsp
  BY <1>1 DEF HandleStoreResponse, Handling, At, Rsp
<1>3. RecordOK(d)
  BY <1>1, <1>2, BusyClaim
<1>4. PICK x \in Ids : x = d.rsp.id
  BY <1>2, <1>3, StorageRecord DEF RouteInv
<1>5. /\ x \in Stored /\ messages[x] \in Rows /\ messages[x].from = d.rsp.user
      /\ messages[x].client = d.rsp.client /\ d.rsp.user \in Users
  BY <1>2, <1>3, <1>4, StorageRecord DEF RouteInv
<1>6. PICK key \in IdemKeys : key = <<d.rsp.user, d.rsp.client>>
  BY <1>5 DEF IdemKeys, Rows
<1>7. /\ idem' = [idem EXCEPT ![key] = x]
      /\ UNCHANGED <<storageVars, routing, df, published, frames, lost, pushes, released>>
  BY <1>2, <1>4, <1>6 DEF HandleStoreResponse, seen
<1>8. UNCHANGED <<topic, messages, outbox, conn, route, moved>> /\ Stored' = Stored
  BY <1>7 DEF storageVars, db, routing, Stored
<1>9. idem' \in [IdemKeys -> {Absent, Pending} \cup Ids] /\ idem'[key] = x
      /\ \A j \in IdemKeys : j # key => idem'[j] = idem[j]
  BY <1>7 DEF RouteInv, PathTypes
<1>10. IdemOK'
  <2> SUFFICES ASSUME NEW j \in IdemKeys, idem'[j] \in Ids
               PROVE  /\ idem'[j] \in Stored
                      /\ messages[idem'[j]].from = j[1] /\ messages[idem'[j]].client = j[2]
    BY <1>8 DEF IdemOK
  <2>1. CASE j = key
    BY <1>5, <1>6, <1>9, <2>1
  <2>2. CASE j # key
    BY <1>9, <2>2 DEF RouteInv, IdemOK
  <2> QED
    BY <2>1, <2>2
<1>11. /\ \A e \in df' : e \in df \/ RecordOK(e)
       /\ \A f \in frames' : f \in frames \/ FrameOK(f)
       /\ \A f \in lost' : f \in lost \/ (FrameOK(f) /\ f.user \in moved)
  BY <1>7
<1>12. CASE UNCHANGED effects /\ ToAnswer(k)
  <2>1. Turned(k)
    BY <1>1, <1>2, <1>8, <1>12, TurnedToAnswer
  <2>2. PathTypes'
    BY <1>7, <1>8, <1>9, <1>12 DEF RouteInv, PathTypes
  <2>3. EffectsOK'
    BY <1>7, <1>12, <2>1, EffectsKept DEF RouteInv, Turned
  <2> QED
    BY <1>7, <1>10, <1>11, <2>1, <2>2, <2>3, ConsumerRoutes DEF Turned
<1>13. CASE /\ x \notin effects /\ effects' = effects \cup {x}
            /\ Set(k, [claims[k] EXCEPT !.phase = "deliver"])
  <2>1. PICK t : t = claims[k]
    OBVIOUS
  <2>2. PICK n : n = [t EXCEPT !.phase = "deliver"]
    OBVIOUS
  <2>3. ClaimShape(t) /\ t.attempt \in 0 .. MaxRetries
    BY <2>1 DEF RouteInv, ClaimOK
  <2>4. ClaimShape(n) /\ n.phase = "deliver" /\ n.record = d /\ n.attempt = t.attempt
    BY <1>1, <2>1, <2>2, <2>3 DEF ClaimShape, ClaimNames
  <2>5. /\ claims' = [j \in Claims |-> claims'[j]] /\ claims'[k] = n
        /\ \A j \in Claims : j # k => claims'[j] = claims[j]
    <3>1. claims = [j \in Claims |-> claims[j]]
      BY DEF RouteInv
    <3>2. claims' = [claims EXCEPT ![k] = n]
      BY <1>13, <2>1, <2>2 DEF Set
    <3>3. claims' = [j \in Claims |-> IF j = k THEN n ELSE claims[j]]
      BY <3>1, <3>2
    <3> QED
      BY <3>3
  <2>6. Rsp(k)' = d.rsp
    BY <2>4, <2>5 DEF Rsp
  <2>7. ClaimOK(k)'
    <3>1. RecordOK(d)'
      BY <1>3, <1>8, RecordKept
    <3> QED
      BY <1>2, <2>3, <2>4, <2>5, <2>6, <3>1 DEF ClaimOK, ClaimPhases
  <2>8. PathTypes'
    BY <1>5, <1>7, <1>8, <1>9, <1>13 DEF RouteInv, PathTypes
  <2>9. EffectsOK'
    <3>1. ASSUME NEW j \in Claims, NEW i \in Ids, Delivering(j, i)'
          PROVE  (j = k /\ i = x) \/ (j # k /\ i # x /\ Delivering(j, i) /\ i \in effects)
      <4>1. CASE j = k
        BY <1>4, <2>6, <3>1, <4>1 DEF Delivering
      <4>2. CASE j # k
        <5>1. Delivering(j, i)
          BY <2>5, <3>1, <4>2 DEF Delivering, Rsp
        <5>2. i \in effects
          BY <5>1 DEF RouteInv, EffectsOK
        <5> QED
          BY <1>13, <4>2, <5>1, <5>2
      <4> QED
        BY <4>1, <4>2
    <3>2. \A j \in Claims, i \in Ids : Delivering(j, i)' => i \in effects'
      BY <1>13, <3>1
    <3>3. \A j, l \in Claims, i \in Ids : Delivering(j, i)' /\ Delivering(l, i)' => j = l
      BY <3>1 DEF RouteInv, EffectsOK
    <3>4. \A i \in Ids : /\ i \notin effects' => pushes'[i] <= released'[i]
                         /\ pushes'[i] <= 1 + released'[i]
                         /\ pushes'[i] > 0 => i \in Stored'
      BY <1>7, <1>8, <1>13 DEF RouteInv, EffectsOK
    <3>5. ASSUME NEW j \in Claims, NEW i \in Ids, claims'[j].phase = "deliver",
                 Rsp(j)'.id = i
          PROVE  pushes'[i] <= released'[i]
      <4>1. Delivering(j, i)'
        BY <3>5 DEF Delivering
      <4>2. CASE i = x
        BY <1>7, <1>13, <4>2 DEF RouteInv, EffectsOK
      <4>3. CASE i # x
        <5>1. j # k
          BY <3>1, <4>1, <4>3
        <5>2. claims[j].phase = "deliver" /\ Rsp(j).id = i
          BY <2>5, <3>5, <5>1 DEF Rsp
        <5> QED
          BY <1>7, <5>2 DEF RouteInv, EffectsOK
      <4> QED
        BY <4>2, <4>3
    <3> QED
      BY <3>2, <3>3, <3>4, <3>5 DEF EffectsOK
  <2> QED
    BY <1>7, <1>10, <1>11, <2>5, <2>7, <2>8, <2>9, ConsumerRoutes
<1> QED
  BY <1>2, <1>4, <1>12, <1>13 DEF HandleStoreResponse, ClaimPostEffects

-----------------------------------------------------------------------------
(* The cursors of the clients.                                             *)

\* A cursor keeps what it promises: what is opened later comes after it.
LEMMA CursorKept ==
    ASSUME StorageInv, Grows, StorageInv', OpensFrom, NEW c, CursorOK(c)
    PROVE  CursorOK(c)'
<1>1. /\ c \in Cursors /\ c.at \in Nat /\ c.id \in Nat /\ now \in Nat /\ nextId \in Nat
      /\ now' \in Nat /\ nextId' \in Nat /\ now <= now' /\ nextId <= nextId'
      /\ c.at <= now /\ c.id < nextId
  BY StorageAssumption DEF CursorOK, Cursors, Times, Grows, StorageInv, StorageTypes
<1>2. c.at <= now' /\ c.id < nextId'
  BY <1>1
<1>3. ASSUME NEW v \in Workers, Open(v)'
      PROVE  After(OpenPlace(v)', c) \/ workers'[v].op \in late'
  <2>1. /\ workers[v].at \in Nat /\ OpenPlace(v).id \in Nat /\ OpenPlace(v)'.id \in Nat
        /\ OpenPlace(v).at = workers[v].at /\ OpenPlace(v)'.at = workers'[v].at
    BY <1>1 DEF OpenPlace, StorageInv, StorageTypes, WorkerStates, Times
  <2>2. CASE Stays(v)
    <3>1. After(OpenPlace(v), c) \/ workers[v].op \in late
      BY <2>2 DEF CursorOK, Stays
    <3> QED
      BY <1>1, <2>1, <2>2, <3>1 DEF After, Stays
  <2>3. CASE Opens(v)
    BY <1>1, <2>1, <2>3 DEF After, Opens
  <2> QED
    BY <1>3, <2>2, <2>3 DEF OpensFrom
<1> QED
  BY <1>1, <1>2, <1>3 DEF CursorOK, After

\* What is covered stays covered: a row that is new was open, hence late or after
\* the cursor, and whoever joins the group is not given what was sent before.
LEMMA CoveredKept ==
    ASSUME StorageInv, Grows, RowsFrom, NEW u \in Users, NEW c, NEW X, CursorOK(c),
           Covered(u, c, X)
    PROVE  Covered(u, c, X)'
<1> SUFFICES ASSUME NEW i \in Stored', ForUser(u, i)', ~After(Place(i)', c)
             PROVE  i \in X \cup LateIds'
  BY DEF Covered, After
<1>1. CASE i \in Stored
  <2>1. messages'[i].to = messages[i].to /\ messages'[i].at = messages[i].at
    BY <1>1 DEF Grows
  <2>2. ~After(Place(i), c)
    BY <2>1 DEF After, Place
  <2>3. messages[i].at \in Nat /\ messages[i].at <= now /\ now \in Nat
    BY <1>1 DEF StorageInv, TableOK, StorageTypes, Stored, Rows, Times
  <2>4. joined'[u] \in {joined[u], Absent, now}
    BY DEF Grows
  <2>5. ForUser(u, i)
    BY <2>1, <2>3, <2>4 DEF ForUser
  <2> QED
    BY <1>1, <2>2, <2>5 DEF Covered, Grows
<1>2. CASE i \notin Stored
  <2>1. PICK v \in Workers : /\ Open(v) /\ OpenPlace(v) = [at |-> messages'[i].at, id |-> i]
                             /\ workers[v].op \in late => i \in LateIds'
    BY <1>2 DEF RowsFrom
  <2>2. ~After(OpenPlace(v), c)
    BY <2>1 DEF After, Place
  <2> QED
    BY <2>1, <2>2 DEF CursorOK
<1> QED
  BY <1>1, <1>2

\* The cursor of a new page, and what the page adds.
LEMMA PagedCursor ==
    ASSUME StorageInv, Grows, NEW r, Paged(r), CursorOK(topic[r.op].cursor), NEW X,
           Covered(r.user, topic[r.op].cursor, X)
    PROVE  CursorOK(r.next)' /\ r.ids \subseteq Ids /\ Covered(r.user, r.next, X \cup r.ids)'
<1>1. PICK c \in Cursors : c = topic[r.op].cursor
  BY DEF CursorOK
<1>2. PICK u \in Users : u = r.user
  <2>1. PICK q \in Requests : q = topic[r.op]
    BY DEF Paged, StorageInv, StorageTypes
  <2> QED
    BY <2>1, RequestFields DEF Paged
<1>3. PICK P : P = r.ids
  OBVIOUS
<1>4. P = Page(u, c) /\ r.next = NextCursor(P, c)
  BY <1>1, <1>2, <1>3 DEF Paged
<1>5. P \in SUBSET Stored /\ StorageTypes /\ P \subseteq Ids
  BY <1>4 DEF Page, Unseen, Stored, StorageInv
<1>6. UNCHANGED <<topic, messages, joined, now, nextId>> /\ Stored' = Stored
  BY DEF Paged, Stored
<1>7. PICK n : n = r.next
  OBVIOUS
<1>8. n \in Cursors /\ n.at <= now /\ n.id < nextId
  <2>1. CASE P = {}
    BY <1>1, <1>4, <1>7, <2>1 DEF NextCursor, CursorOK
  <2>2. CASE P # {}
    <3>1. PICK m \in P : n = Place(m)
      BY <1>4, <1>5, <1>7, <2>2, LastOfPage
    <3>2. m \in Stored /\ m \in 0 .. MaxId /\ messages[m].at \in Times /\ m < nextId
          /\ messages[m].at <= now
      BY <1>5 DEF StorageInv, TableOK, StorageTypes, Rows, Stored, Ids
    <3>3. n.at = messages[m].at /\ n.id = m /\ n = [at |-> messages[m].at, id |-> m]
      BY <3>1 DEF Place
    <3> QED
      BY <3>2, <3>3 DEF Cursors
  <2> QED
    BY <2>1, <2>2
<1>9. CursorOK(n)'
  <2>1. ASSUME NEW v \in Workers, Open(v)'
        PROVE  After(OpenPlace(v)', n) \/ workers'[v].op \in late'
    <3>1. Open(v) /\ workers'[v] = workers[v]
      BY <2>1 DEF Paged
    <3>2. OpenPlace(v)' = OpenPlace(v)
      BY <1>6, <3>1 DEF OpenPlace
    <3> QED
      BY <1>7, <3>1, <3>2 DEF Paged
  <2> QED
    BY <1>6, <1>8, <2>1 DEF CursorOK, After
<1>10. Covered(u, n, X \cup P)'
  <2> SUFFICES ASSUME NEW i \in Stored, ForUser(u, i), ~After(Place(i), n)
               PROVE  i \in X \cup P \cup LateIds'
    BY <1>6 DEF Covered, ForUser, After, Place
  <2>1. CASE ~After(Place(i), c)
    BY <1>1, <1>2, <2>1 DEF Covered, Grows
  <2>2. CASE After(Place(i), c)
    <3>0. messages[i].at \in Nat /\ joined[u] \in Nat \cup {Absent}
      BY <1>5 DEF StorageTypes, Stored, Rows, Times
    <3>1. i \in Unseen(u, c)
      BY <2>2, <3>0 DEF Unseen, Visible, ForUser
    <3> QED
      BY <1>4, <1>5, <1>7, <3>1, PageComplete
  <2> QED
    BY <2>1, <2>2
<1> QED
  BY <1>2, <1>3, <1>5, <1>7, <1>9, <1>10

\* A response is for a user.
LEMMA OutboxUser ==
    ASSUME StorageInv, NEW r \in outbox
    PROVE  r.user \in Users
<1>1. ResponseOK(r)
  BY DEF StorageInv, OutboxOK
<1>2. PICK q \in Requests : q = topic[r.op]
  BY <1>1 DEF ResponseOK, StorageInv, StorageTypes
<1> QED
  BY <1>1, <1>2, RequestFields DEF ResponseOK

\* storageService moves while no client reads a page.
LEMMA SyncKept ==
    ASSUME StorageInv, SyncInv, Grows, StorageInv', OpensFrom, RowsFrom, PagesFrom,
           UNCHANGED <<cursor, synced>>,
           \A o \in DOMAIN topic' : \/ o \in DOMAIN topic
                                    \/ topic'[o].kind # "sync"
                                    \/ topic'[o].cursor = cursor[topic'[o].user]
    PROVE  SyncInv'
<1>1. \A u \in Users : CursorOK(cursor[u])' /\ Covered(u, cursor[u], synced[u])'
  <2> SUFFICES ASSUME NEW u \in Users
               PROVE  CursorOK(cursor[u])' /\ Covered(u, cursor[u], synced[u])'
    OBVIOUS
  <2>1. PICK c, X : c = cursor[u] /\ X = synced[u]
    OBVIOUS
  <2>2. CursorOK(c)' /\ Covered(u, c, X)'
    BY <2>1, CursorKept, CoveredKept DEF SyncInv, SyncOK
  <2> QED
    BY <2>1, <2>2
<1>2. ASSUME NEW o \in DOMAIN topic', topic'[o].kind = "sync"
      PROVE  /\ CursorOK(topic[o].cursor)'
             /\ Covered(topic[o].user, topic[o].cursor, synced[topic[o].user])'
  <2>1. CASE o \in DOMAIN topic
    <3>1. topic'[o] = topic[o]
      BY <2>1 DEF Grows
    <3>2. PICK u, c, X : u = topic[o].user /\ c = topic[o].cursor /\ X = synced[topic[o].user]
      OBVIOUS
    <3>3. CursorOK(c) /\ Covered(u, c, X)
      BY <1>2, <2>1, <3>1, <3>2 DEF SyncInv, SyncOK
    <3>4. u \in Users
      <4>1. PICK q \in Requests : q = topic[o]
        BY <2>1 DEF StorageInv, StorageTypes
      <4> QED
        BY <3>2, <4>1, RequestFields
    <3>5. CursorOK(c)' /\ Covered(u, c, X)'
      BY <3>3, <3>4, CursorKept, CoveredKept
    <3> QED
      BY <3>1, <3>2, <3>5
  <2>2. CASE o \notin DOMAIN topic
    <3>1. PICK q \in Requests : q = topic'[o]
      BY <1>2 DEF StorageInv, StorageTypes
    <3>2. q.user \in Users
      BY RequestFields
    <3>3. q.cursor = cursor[q.user]
      BY <1>2, <2>2, <3>1
    <3> QED
      BY <1>1, <3>1, <3>2, <3>3
  <2> QED
    BY <2>1, <2>2
<1>3. ASSUME NEW r \in outbox', r.kind = "sync"
      PROVE  /\ CursorOK(r.next)' /\ r.ids \subseteq Ids
             /\ Covered(r.user, r.next, synced[r.user] \cup r.ids)'
  <2>1. CASE r \in outbox
    <3>1. PICK X : X = synced[r.user] \cup r.ids
      OBVIOUS
    <3>2. CursorOK(r.next) /\ Covered(r.user, r.next, X) /\ r.ids \subseteq Ids
      BY <1>3, <2>1, <3>1 DEF SyncInv, SyncOK
    <3>3. r.user \in Users
      BY <2>1, OutboxUser
    <3>4. CursorOK(r.next)' /\ Covered(r.user, r.next, X)'
      BY <3>2, <3>3, CursorKept, CoveredKept
    <3> QED
      BY <3>1, <3>2, <3>4
  <2>2. CASE r \notin outbox
    <3>1. Paged(r)
      BY <1>3, <2>2 DEF PagesFrom
    <3>2. PICK X : X = synced[r.user]
      OBVIOUS
    <3>3. CursorOK(topic[r.op].cursor) /\ Covered(r.user, topic[r.op].cursor, X)
      BY <3>1, <3>2 DEF Paged, SyncInv, SyncOK
    <3>4. CursorOK(r.next)' /\ r.ids \subseteq Ids /\ Covered(r.user, r.next, X \cup r.ids)'
      BY <3>1, <3>3, PagedCursor
    <3> QED
      BY <3>2, <3>4
  <2> QED
    BY <2>1, <2>2
<1>4. SyncTypes'
  BY DEF SyncInv, SyncTypes
<1> QED
  BY <1>1, <1>2, <1>3, <1>4 DEF SyncInv, SyncOK

\* A client reads a page.
LEMMA SyncAnswered ==
    ASSUME StorageInv, RouteInv, SyncInv, NEW k \in Claims, SendAnswer(k)
    PROVE  SyncInv'
<1>0. /\ UNCHANGED <<topic, messages, nextId, joined, now, workers, outbox, late>>
      /\ Stored' = Stored /\ LateIds' = LateIds
  BY DEF SendAnswer, storageVars, db, Stored, LateIds
<1>1. \A c : CursorOK(c) => CursorOK(c)'
  BY <1>0 DEF CursorOK, Open, OpenPlace, After
<1>2. \A u, c, X, Y : Covered(u, c, X) /\ X \subseteq Y => Covered(u, c, Y)'
  BY <1>0 DEF Covered, ForUser, After, Place
<1>3. PICK d : d = claims[k].record
  OBVIOUS
<1>4. PICK r : r = d.rsp
  OBVIOUS
<1>5. r \in outbox /\ r.user \in Users
  <2>1. claims[k].phase = "answer" /\ claims[k].phase # "idle"
    BY DEF SendAnswer, At
  <2>2. RecordOK(d) /\ d.kind = "storage"
    BY <1>3, <2>1, BusyClaim DEF RouteInv, ClaimOK
  <2> QED
    BY <1>4, <2>2, StorageRecord DEF RouteInv
<1>6. \/ cursor' = cursor /\ synced' = synced
      \/ /\ r.kind = "sync" /\ cursor' = [cursor EXCEPT ![r.user] = r.next]
         /\ synced' = [synced EXCEPT ![r.user] = @ \cup r.ids]
  BY <1>3, <1>4 DEF SendAnswer
<1>7. r.kind = "sync" => /\ CursorOK(r.next) /\ r.ids \subseteq Ids
                         /\ Covered(r.user, r.next, synced[r.user] \cup r.ids)
  BY <1>5 DEF SyncInv, SyncOK
<1>8. SyncTypes /\ SyncTypes' /\ \A u \in Users : synced[u] \subseteq synced'[u]
  <2>1. SyncTypes /\ (r.kind = "sync" => r.next \in Cursors)
    BY <1>7 DEF SyncInv, CursorOK
  <2> QED
    BY <1>6, <1>7, <2>1 DEF SyncTypes
<1>9. ASSUME NEW u \in Users PROVE CursorOK(cursor[u])' /\ Covered(u, cursor[u], synced[u])'
  <2>0. PICK c, X : c = cursor'[u] /\ X = synced'[u]
    OBVIOUS
  <2>1. CASE c = cursor[u] /\ X = synced[u]
    <3>1. CursorOK(c) /\ Covered(u, c, X) /\ X \subseteq X
      BY <2>1 DEF SyncInv, SyncOK
    <3>2. CursorOK(c)' /\ Covered(u, c, X)'
      BY <1>1, <1>2, <3>1
    <3> QED
      BY <2>0, <3>2
  <2>2. CASE r.kind = "sync" /\ u = r.user /\ c = r.next /\ X = synced[u] \cup r.ids
    <3>1. CursorOK(c) /\ Covered(u, c, X) /\ X \subseteq X
      BY <1>7, <2>2
    <3>2. CursorOK(c)' /\ Covered(u, c, X)'
      BY <1>1, <1>2, <3>1
    <3> QED
      BY <2>0, <3>2
  <2>3. \/ c = cursor[u] /\ X = synced[u]
        \/ r.kind = "sync" /\ u = r.user /\ c = r.next /\ X = synced[u] \cup r.ids
    BY <1>6, <1>8, <2>0 DEF SyncTypes
  <2> QED
    BY <2>1, <2>2, <2>3
<1>10. ASSUME NEW o \in DOMAIN topic, topic[o].kind = "sync"
       PROVE  /\ CursorOK(topic[o].cursor)'
              /\ Covered(topic[o].user, topic[o].cursor, synced[topic[o].user])'
  <2>1. PICK q \in Requests : q = topic[o]
    BY DEF StorageInv, StorageTypes
  <2>2. q.user \in Users /\ CursorOK(q.cursor) /\ Covered(q.user, q.cursor, synced[q.user])
    BY <1>10, <2>1, RequestFields DEF SyncInv, SyncOK
  <2>3. PICK X, Y : X = synced[q.user] /\ Y = synced'[q.user]
    OBVIOUS
  <2>4. CursorOK(q.cursor)' /\ Covered(q.user, q.cursor, Y)'
    BY <1>1, <1>2, <1>8, <2>2, <2>3
  <2>5. topic'[o] = q
    BY <1>0, <2>1
  <2> QED
    BY <2>3, <2>4, <2>5
<1>11. ASSUME NEW x \in outbox, x.kind = "sync"
       PROVE  /\ CursorOK(x.next)' /\ x.ids \subseteq Ids
              /\ Covered(x.user, x.next, synced[x.user] \cup x.ids)'
  <2>1. x.user \in Users
    BY OutboxUser
  <2>2. /\ CursorOK(x.next) /\ x.ids \subseteq Ids
        /\ Covered(x.user, x.next, synced[x.user] \cup x.ids)
    BY <1>11 DEF SyncInv, SyncOK
  <2>3. PICK X, Y : X = synced[x.user] \cup x.ids /\ Y = synced'[x.user] \cup x.ids
    OBVIOUS
  <2>4. X \subseteq Y
    BY <1>8, <2>1, <2>3
  <2>5. CursorOK(x.next)' /\ Covered(x.user, x.next, Y)'
    BY <1>1, <1>2, <2>2, <2>3, <2>4
  <2> QED
    BY <2>2, <2>3, <2>5
<1> QED
  BY <1>0, <1>8, <1>9, <1>10, <1>11 DEF SyncInv, SyncOK

-----------------------------------------------------------------------------
(* Every step of the composition.                                          *)

BudgetOK == budget \in [Events -> Nat]

PathInv == StorageInv /\ RouteInv /\ SyncInv

IInv == PathInv /\ RelayInv /\ BudgetOK

LEMMA PathInitInv ==
    ASSUME RelayInit
    PROVE  IInv
<1>1. Init /\ StorageInit /\ RelayInv
  BY RelayInitInv DEF RelayInit, Init
<1>2. StorageInv
  BY <1>1, StorageInitInv
<1>3. /\ topic = << >> /\ outbox = {} /\ Stored = {} /\ nextId = 1 /\ now = 1
      /\ \A w \in Workers : workers[w] = Idle
  BY <1>1 DEF StorageInit, Stored
<1>4. PathTypes
  BY <1>1, <1>3 DEF Init, PathTypes
<1>5. HomeOK
  BY <1>1, <1>3 DEF Init, HomeOK, AtHome
<1>6. IdemOK
  <2>1. Absent \notin Ids
    BY StorageAssumption DEF Ids
  <2> QED
    BY <1>1, <2>1 DEF Init, IdemOK
<1>7. FramesOK /\ \A d \in df : RecordOK(d)
  BY <1>1 DEF Init, FramesOK
<1>8. claims = [k \in Claims |-> claims[k]] /\ \A k \in Claims : claims[k] = Free
  BY <1>1 DEF Init
<1>9. \A k \in Claims : ClaimOK(k)
  <2>1. ClaimShape(Free) /\ Free.phase = "idle" /\ Free.attempt = 0
    BY DEF ClaimShape, ClaimNames, Free
  <2>2. 0 \in 0 .. MaxRetries
    OBVIOUS
  <2> QED
    BY <1>8, <2>1, <2>2 DEF ClaimOK, ClaimPhases
<1>10. EffectsOK
  <2>1. \A k \in Claims : claims[k].phase = "idle"
    BY <1>8 DEF Free
  <2>2. \A i \in Ids : pushes[i] = 0 /\ released[i] = 0
    BY <1>1 DEF Init
  <2>3. effects = {}
    BY <1>1 DEF Init
  <2> QED
    BY <2>1, <2>2, <2>3 DEF EffectsOK, Delivering
<1>11. RouteInv
  BY <1>4, <1>5, <1>6, <1>7, <1>8, <1>9, <1>10 DEF RouteInv
<1>12. SyncInv
  <2>1. \A u \in Users : cursor[u] = Start /\ synced[u] = {}
    BY <1>1 DEF Init
  <2>2. 0 \in Times /\ 0 \in 0 .. MaxId
    BY StorageAssumption DEF Times
  <2>3. Start \in Cursors /\ Start.at = 0 /\ Start.id = 0
    BY <2>2 DEF Start, Cursors
  <2>4. SyncTypes
    BY <1>1, <2>3 DEF Init, SyncTypes
  <2>5. \A w \in Workers : ~Open(w)
    BY <1>3, WorkerFields DEF Open
  <2>6. CursorOK(Start)
    BY <1>3, <2>3, <2>5 DEF CursorOK
  <2>7. \A u \in Users : CursorOK(cursor[u]) /\ Covered(u, cursor[u], synced[u])
    BY <1>3, <2>1, <2>6 DEF Covered
  <2>8. DOMAIN topic = {}
    BY <1>3
  <2> QED
    BY <1>3, <2>4, <2>7, <2>8 DEF SyncInv, SyncOK
<1>13. BudgetOK
  BY <1>1, WorkloadAssumption DEF Init, BudgetOK
<1> QED
  BY <1>1, <1>2, <1>11, <1>12, <1>13 DEF IInv, PathInv

\* Steps in which no request arrives and no client reads a page.
LEMMA QuietStep ==
    ASSUME PathInv, StorageMove, topic' = topic, UNCHANGED <<cursor, synced>>
    PROVE  StorageInv' /\ Grows /\ SyncInv'
<1>1. StorageInv /\ SyncInv
  BY DEF PathInv
<1>2. StorageInv' /\ Grows
  BY <1>1, StorageKept
<1>3. OpensFrom /\ RowsFrom /\ PagesFrom
  BY <1>1, StorageFrom
<1> QED
  BY <1>1, <1>2, <1>3, SyncKept

LEMMA NoStorageStep ==
    ASSUME PathInv, UNCHANGED storageVars
    PROVE  /\ StorageInv' /\ Grows /\ StorageInv /\ RouteInv
           /\ UNCHANGED <<cursor, synced>> => SyncInv'
<1>1. StorageMove /\ topic' = topic
  BY DEF StorageMove, storageVars
<1>2. StorageInv /\ RouteInv
  BY DEF PathInv
<1>3. StorageInv' /\ Grows
  BY <1>1, <1>2, StorageKept
<1>4. UNCHANGED <<cursor, synced>> => SyncInv'
  BY <1>1, QuietStep
<1> QED
  BY <1>2, <1>3, <1>4

LEMMA AskedKept ==
    ASSUME PathInv, NEW q, Asked(q),
           idem' = idem \/ \E k \in IdemKeys : idem' = [idem EXCEPT ![k] = Pending]
    PROVE  PathInv' /\ moved' = moved
<1>1. StorageInv /\ RouteInv /\ SyncInv
  BY DEF PathInv
<1>2. StorageMove /\ topic' = Append(topic, q) /\ q \in Requests
      /\ UNCHANGED <<cursor, synced>> /\ moved' = moved
      /\ (q.kind = "sync" => q.cursor = cursor[q.user])
  BY DEF StorageMove, Asked, Arrive, seen, routing
<1>3. StorageInv' /\ Grows
  BY <1>1, <1>2, StorageKept
<1>4. OpensFrom /\ RowsFrom /\ PagesFrom
  BY <1>1, <1>2, StorageFrom
<1>5. RouteInv'
  BY <1>1, <1>3, AskedRoutes
<1>6. ASSUME NEW o \in DOMAIN topic'
      PROVE  \/ o \in DOMAIN topic
             \/ topic'[o].kind # "sync"
             \/ topic'[o].cursor = cursor[topic'[o].user]
  <2>1. topic \in Seq(Requests)
    BY <1>1 DEF StorageInv, StorageTypes
  <2>2. o \in DOMAIN topic \/ topic'[o] = q
    BY <1>2, <2>1
  <2> QED
    BY <1>2, <2>2
<1>7. SyncInv'
  BY <1>1, <1>2, <1>3, <1>4, <1>6, SyncKept
<1> QED
  BY <1>2, <1>3, <1>5, <1>7 DEF PathInv

LEMMA ClientKept ==
    ASSUME PathInv, Client
    PROVE  PathInv' /\ moved \subseteq moved'
<1>0. StorageInv /\ RouteInv /\ SyncTypes
  BY DEF PathInv, SyncInv
<1>1. ASSUME NEW c \in Containers, NEW p \in Posts, HandlePost(c, p)
      PROVE  PathInv' /\ moved \subseteq moved'
  <2>0. PICK k \in IdemKeys : k = <<p.user, p.client>>
    BY DEF IdemKeys
  <2>1. k = <<p.user, p.client>> /\ k[1] = p.user /\ k[2] = p.client
    BY <2>0
  <2>2. CASE (\E q : Asked(q)) /\ idem' = [idem EXCEPT ![k] = Pending]
    BY <2>2, AskedKept
  <2>3. CASE /\ UNCHANGED <<storageVars, routing, redis, df, claims, published, lost, pushes,
                             released, cursor, synced>>
             /\ idem[k] \notin {Absent, Pending}
             /\ frames' = frames \cup {PostAck(k[1], k[2], idem[k])}
    <3>1. StorageInv' /\ Grows /\ SyncInv'
      BY <2>3, NoStorageStep
    <3>2. RouteInv'
      BY <1>0, <2>1, <2>3, <3>1, AckedRoutes
    <3>3. moved' = moved
      BY <2>3 DEF routing
    <3> QED
      BY <3>1, <3>2, <3>3 DEF PathInv
  <2> QED
    BY <1>1, <2>1, <2>2, <2>3, PostAsks
<1>2. ASSUME NEW c \in Containers, NEW q \in Asks,
             \/ HandleRecallMessage(c, q) \/ HandleQueryMessage(c, q)
             \/ HandleQueryUser(c, q) \/ HandleQuerySyncMessages(c, q)
             \/ HandleUpdateUser(c, q)
      PROVE  PathInv' /\ moved \subseteq moved'
  <2>1. (\E x : Asked(x)) /\ idem' = idem
    BY <1>0, <1>2, ClientAsks
  <2> QED
    BY <2>1, AskedKept
<1>3. ASSUME NEW c \in Containers, NEW u \in Movers, Login(u, c) \/ CloseStale(u, c)
      PROVE  PathInv' /\ moved \subseteq moved'
  <2>1. UNCHANGED storageVars /\ UNCHANGED <<cursor, synced>>
    BY <1>3 DEF Login, CloseStale, seen
  <2>2. StorageInv' /\ Grows /\ SyncInv'
    BY <2>1, NoStorageStep
  <2>3. RouteInv' /\ moved \subseteq moved'
    BY <1>0, <1>3, <2>2, ConnectRoutes
  <2> QED
    BY <2>2, <2>3 DEF PathInv
<1>4. ASSUME NEW c \in Containers, NEW u \in Movers, FriendRequest(c, u) \/ PushRequest(c, u)
      PROVE  PathInv' /\ moved \subseteq moved'
  <2>1. UNCHANGED storageVars /\ UNCHANGED <<cursor, synced>> /\ moved' = moved
    BY <1>4 DEF FriendRequest, PushRequest, Answered, seen, routing
  <2>2. StorageInv' /\ Grows /\ SyncInv'
    BY <2>1, NoStorageStep
  <2>3. RouteInv'
    BY <1>0, <1>4, <2>2, AnsweredRoutes
  <2> QED
    BY <2>1, <2>2, <2>3 DEF PathInv
<1> QED
  BY <1>1, <1>2, <1>3, <1>4 DEF Client

LEMMA ConsumeKept ==
    ASSUME PathInv, Consume
    PROVE  PathInv' /\ moved' = moved
<1>0. StorageInv /\ RouteInv /\ SyncInv
  BY DEF PathInv
<1>1. PICK k \in Claims :
        \/ \E d \in df : Receive(k, d)
        \/ HandleStoreResponse(k) \/ HandleStoreResponseWithoutRedis(k)
        \/ DeliverStoredPost(k) \/ RoutePost(k) \/ RouteGroupPost(k)
        \/ DeliverMessageRecall(k) \/ HandleOther(k) \/ SendAnswer(k)
        \/ HandleForward(k) \/ HandleDFResponse(k) \/ DropClaim(k)
        \/ HandleFriendResponse(k) \/ HandlePushResponse(k) \/ HandleCallDelivery(k)
  BY DEF Consume
<1>2. UNCHANGED storageVars /\ moved' = moved
  BY <1>1 DEF Receive, HandleStoreResponse, HandleStoreResponseWithoutRedis,
     DeliverStoredPost, RoutePost, RouteGroupPost, DeliverMessageRecall, HandleOther,
     SendAnswer, HandleForward, HandleDFResponse, DropClaim, HandleFriendResponse,
     HandlePushResponse, HandleCallDelivery, Notify, routing
<1>3. StorageInv' /\ Grows
  BY <1>2, NoStorageStep
<1>4. RouteInv'
  <2>1. CASE \/ HandleFriendResponse(k) \/ HandlePushResponse(k) \/ HandleCallDelivery(k)
    <3>1. PICK kind \in {"friend", "push", "call"} : Notify(k, kind)
      BY <2>1 DEF HandleFriendResponse, HandlePushResponse, HandleCallDelivery
    <3> QED
      BY <1>0, <1>3, <3>1, NotifyRoutes
  <2>2. CASE \/ \E d \in df : Receive(k, d)
             \/ DropClaim(k) \/ HandleOther(k) \/ HandleStoreResponseWithoutRedis(k)
    BY <1>0, <1>3, <2>2, ReceiveRoutes, DropClaimRoutes, HandleOtherRoutes
  <2>3. CASE HandleStoreResponse(k) \/ DeliverStoredPost(k) \/ RoutePost(k)
             \/ RouteGroupPost(k)
    BY <1>0, <1>3, <2>3, HandleStoreResponseRoutes, DeliverStoredPostRoutes, RoutePostRoutes,
       RouteGroupPostRoutes
  <2>4. CASE DeliverMessageRecall(k) \/ SendAnswer(k) \/ HandleForward(k)
             \/ HandleDFResponse(k)
    BY <1>0, <1>3, <2>4, DeliverMessageRecallRoutes, SendAnswerRoutes, HandleForwardRoutes,
       HandleDFResponseRoutes
  <2> QED
    BY <1>1, <2>1, <2>2, <2>3, <2>4
<1>5. SyncInv'
  <2>1. CASE SendAnswer(k)
    BY <1>0, <2>1, SyncAnswered
  <2>2. CASE ~SendAnswer(k)
    <3>1. UNCHANGED <<cursor, synced>>
      BY <1>1, <2>2 DEF Receive, HandleStoreResponse, HandleStoreResponseWithoutRedis,
         DeliverStoredPost, RoutePost, RouteGroupPost, DeliverMessageRecall, HandleOther,
         HandleForward, HandleDFResponse, DropClaim, HandleFriendResponse,
         HandlePushResponse, HandleCallDelivery, Notify, seen
    <3> QED
      BY <1>2, <3>1, NoStorageStep
  <2> QED
    BY <2>1, <2>2
<1> QED
  BY <1>2, <1>3, <1>4, <1>5 DEF PathInv

LEMMA PathKept ==
    ASSUME PathInv, Next
    PROVE  PathInv' /\ moved \subseteq moved'
<1>0. StorageInv /\ RouteInv /\ joined \in [Users -> Times \cup {Absent}] /\ now \in Times
  BY DEF PathInv, StorageInv, StorageTypes
<1>1. ASSUME StorageMove, topic' = topic, UNCHANGED dfVars
      PROVE  PathInv' /\ moved \subseteq moved'
  <2>1. UNCHANGED <<cursor, synced>> /\ moved' = moved
    BY <1>1 DEF dfVars, seen, routing
  <2>2. StorageInv' /\ Grows /\ SyncInv'
    BY <1>1, <2>1, QuietStep
  <2>3. RouteInv'
    BY <1>0, <1>1, <2>2, StorageRoutes
  <2> QED
    BY <2>1, <2>2, <2>3 DEF PathInv
<1>2. CASE /\ StorageStep \/ StorageFault \/ \E k \in Keys : Evict(k)
           /\ UNCHANGED dfVars
  <2>1. StorageMove
    BY <1>2 DEF StorageMove
  <2>2. topic' = topic
    BY ZenonT(60), <1>2 DEF StorageStep, StorageFault, Evict, StampMessage, StoreNewMessage,
       CommitStore, Fill, ClearL1, Finish, Finished, RecallMessage, UpdateUser, Query,
       QuerySyncMessages, Replay, Crash, Fail, FinishClearingL1
  <2> QED
    BY <1>1, <1>2, <2>1, <2>2
<1>3. CASE Client
  BY <1>3, ClientKept
<1>4. CASE Consume
  BY <1>4, ConsumeKept
<1>5. ASSUME NEW r \in outbox, Relay(r) PROVE PathInv' /\ moved \subseteq moved'
  <2>1. UNCHANGED storageVars /\ UNCHANGED <<cursor, synced>> /\ moved' = moved
    BY <1>5 DEF Relay, seen, routing
  <2>2. StorageInv' /\ Grows /\ SyncInv'
    BY <2>1, NoStorageStep
  <2>3. RouteInv'
    BY <1>0, <1>5, <2>2, RelayRoutes
  <2> QED
    BY <2>1, <2>2, <2>3 DEF PathInv
<1>6. ASSUME NEW u \in Movers, Disconnect(u) \/ LoseRoute(u)
      PROVE  PathInv' /\ moved \subseteq moved'
  <2>1. UNCHANGED storageVars /\ UNCHANGED <<cursor, synced>>
    BY <1>6 DEF Disconnect, LoseRoute, seen
  <2>2. StorageInv' /\ Grows /\ SyncInv'
    BY <2>1, NoStorageStep
  <2>3. RouteInv' /\ moved \subseteq moved'
    BY <1>0, <1>6, <2>2, ConnectRoutes
  <2> QED
    BY <2>2, <2>3 DEF PathInv
<1>7. ASSUME NEW u \in Movers, ChangeMember(u) PROVE PathInv' /\ moved \subseteq moved'
  <2>1. /\ joined' \in [Users -> Times \cup {Absent}]
        /\ \A x \in Users : joined'[x] \in {joined[x], Absent, now}
    BY <1>0, <1>7 DEF ChangeMember
  <2>2. StorageMove /\ topic' = topic /\ UNCHANGED dfVars
    BY <1>7, <2>1 DEF ChangeMember, StorageMove, ChangeMembers, dfVars
  <2> QED
    BY <1>1, <2>2
<1>8. ASSUME NEW k \in IdemKeys, ExpireKey(k) PROVE PathInv' /\ moved \subseteq moved'
  <2>1. /\ UNCHANGED storageVars /\ UNCHANGED <<cursor, synced>> /\ moved' = moved
        /\ UNCHANGED <<storageVars, routing, effects>>
        /\ UNCHANGED <<df, claims, published, seen>>
        /\ idem' = [idem EXCEPT ![k] = Absent]
    BY <1>8 DEF ExpireKey, seen, routing
  <2>2. StorageInv' /\ Grows /\ SyncInv'
    BY <2>1, NoStorageStep
  <2>3. RouteInv'
    BY <1>0, <2>1, <2>2, KeyRoutes
  <2> QED
    BY <2>1, <2>2, <2>3 DEF PathInv
<1>9. ASSUME NEW p \in Posts, DieBeforePublish(p) PROVE PathInv' /\ moved \subseteq moved'
  <2>0. PICK k \in IdemKeys : k = <<p.user, p.client>>
    BY DEF IdemKeys
  <2>1. /\ UNCHANGED storageVars /\ UNCHANGED <<cursor, synced>> /\ moved' = moved
        /\ UNCHANGED <<storageVars, routing, effects>>
        /\ UNCHANGED <<df, claims, published, seen>>
        /\ idem' = [idem EXCEPT ![k] = Pending]
    BY <1>9, <2>0 DEF DieBeforePublish, seen, routing
  <2>2. StorageInv' /\ Grows /\ SyncInv'
    BY <2>1, NoStorageStep
  <2>3. RouteInv'
    BY <1>0, <2>0, <2>1, <2>2, KeyRoutes
  <2> QED
    BY <2>1, <2>2, <2>3 DEF PathInv
<1>10. CASE Tick
  <2>1. now' \in Times /\ now <= now'
    BY <1>0, <1>10, StorageAssumption DEF Tick, Times
  <2>2. StorageMove /\ topic' = topic /\ UNCHANGED dfVars
    BY <1>10, <2>1 DEF Tick, StorageMove, PassTime, dfVars
  <2> QED
    BY <1>1, <2>2
<1> QED
  BY <1>2, <1>3, <1>4, <1>5, <1>6, <1>7, <1>8, <1>9, <1>10 DEF Next

LEMMA RelayStepKept ==
    ASSUME PathInv, RelayInv, RelayStep
    PROVE  PathInv' /\ RelayInv'
<1>0. StorageInv /\ RouteInv /\ PathTypes /\ HomeOK
  BY DEF PathInv, RouteInv
<1>1. RelayInv'
  BY <1>0, RelayStepInv
<1>2. CASE UNCHANGED <<storageVars, dfVars>>
  <2>1. UNCHANGED storageVars /\ UNCHANGED dfVars /\ UNCHANGED <<cursor, synced>>
        /\ topic' = topic
    BY <1>2 DEF dfVars, seen, storageVars
  <2>2. StorageInv' /\ Grows /\ SyncInv'
    BY <2>1, NoStorageStep
  <2>3. RouteInv'
    BY <1>0, <2>1, <2>2, StorageRoutes
  <2> QED
    BY <1>1, <2>2, <2>3 DEF PathInv
<1>3. ASSUME NEW p \in Pods, step[p] # "loop", Published(p)
      PROVE  PathInv' /\ RelayInv'
  <2>1. UNCHANGED storageVars /\ UNCHANGED <<cursor, synced>>
    BY <1>3 DEF Published, seen
  <2>2. StorageInv' /\ Grows /\ SyncInv'
    BY <2>1, NoStorageStep
  <2>3. RouteInv'
    BY <1>0, <1>3, <2>2, PublishedRoutes
  <2> QED
    BY <1>1, <2>2, <2>3 DEF PathInv
<1>4. \/ UNCHANGED <<storageVars, dfVars>>
      \/ \E p \in Pods : step[p] # "loop" /\ Published(p)
  <2>1. CASE \E p \in Pods : XAutoClaim(p) \/ XReadGroup(p) \/ CheckLedger(p) \/ AckEvent(p)
    BY <2>1 DEF XAutoClaim, XReadGroup, Taken, CheckLedger, AckEvent, vars, dfVars
  <2>2. CASE \E p \in Pods : PublishEvent(p) \/ PublishFails(p) \/ ProcessBreaks(p)
    BY <2>2 DEF PublishEvent, PublishFails, ProcessBreaks, dfVars
  <2>3. CASE \/ \E i \in Entries : TurnsOld(i)
             \/ \E u \in Callees : AddEvent(u)
    BY <2>3 DEF TurnsOld, AddEvent, vars, dfVars
  <2> QED
    BY <2>1, <2>2, <2>3 DEF RelayStep
<1> QED
  BY <1>2, <1>3, <1>4

\* The bounds on the events stay natural numbers.
LEMMA BudgetKept ==
    ASSUME BudgetOK, RelayNext
    PROVE  BudgetOK'
<1>1. budget' = budget \/ \E e : Spend(e)
  <2>1. CASE Client
    BY ZenonT(60), <2>1 DEF Client, HandlePost, Ask, HandleRecallMessage, HandleQueryMessage,
       HandleQueryUser, HandleQuerySyncMessages, HandleUpdateUser, Login, CloseStale,
       FriendRequest, PushRequest, Answered
  <2>2. CASE Consume
    BY ZenonT(60), <2>2 DEF Consume, Receive, HandleStoreResponse, HandleStoreResponseWithoutRedis,
       DeliverStoredPost, RoutePost, RouteGroupPost, DeliverMessageRecall, HandleOther,
       SendAnswer, HandleForward, HandleDFResponse, DropClaim, HandleFriendResponse,
       HandlePushResponse, HandleCallDelivery, Notify, RouteError
  <2>3. CASE \E r \in outbox : Relay(r)
    BY <2>3 DEF Relay
  <2>4. CASE RelayStep
    BY <2>4 DEF RelayStep, XAutoClaim, XReadGroup, Taken, CheckLedger, AckEvent,
       PublishEvent, PublishFails, ProcessBreaks, TurnsOld, AddEvent, vars
  <2>5. CASE \/ \E u \in Movers : Disconnect(u) \/ LoseRoute(u) \/ ChangeMember(u)
             \/ \E k \in IdemKeys : ExpireKey(k)
             \/ \E p \in Posts : DieBeforePublish(p)
             \/ Tick
    BY <2>5 DEF Disconnect, LoseRoute, ChangeMember, ExpireKey, DieBeforePublish, Tick
  <2> QED
    BY <2>1, <2>2, <2>3, <2>4, <2>5 DEF RelayNext, Next
<1>2. ASSUME NEW e, Spend(e) PROVE BudgetOK'
  <2>1. CASE e \in Events
    BY <1>2, <2>1 DEF Spend, BudgetOK
  <2>2. CASE e \notin Events
    BY <1>2, <2>2 DEF Spend, BudgetOK
  <2> QED
    BY <2>1, <2>2
<1> QED
  BY <1>1, <1>2 DEF BudgetOK

LEMMA IInvKept ==
    ASSUME IInv, [RelayNext]_allVars
    PROVE  IInv'
<1>0. PathInv /\ RelayInv /\ BudgetOK
  BY DEF IInv
<1>1. CASE Next /\ UNCHANGED relayVars
  <2>1. PathInv' /\ moved \subseteq moved'
    BY <1>0, <1>1, PathKept
  <2>2. RelayInv'
    BY <1>0, <1>1, <2>1, RelayQuiet
  <2>3. BudgetOK'
    BY <1>0, <1>1, BudgetKept DEF RelayNext
  <2> QED
    BY <2>1, <2>2, <2>3 DEF IInv
<1>2. CASE RelayStep
  BY <1>0, <1>2, RelayStepKept, BudgetKept DEF IInv, RelayNext
<1>3. CASE UNCHANGED allVars
  <2>1. /\ UNCHANGED storageVars /\ UNCHANGED dfVars /\ UNCHANGED <<cursor, synced>>
        /\ topic' = topic /\ moved' = moved /\ UNCHANGED relayVars /\ budget' = budget
    BY <1>3 DEF allVars, vars, dfVars, seen, storageVars, routing
  <2>2. StorageInv' /\ Grows /\ SyncInv' /\ StorageInv /\ RouteInv
    BY <1>0, <2>1, NoStorageStep
  <2>3. RouteInv'
    BY <2>1, <2>2, StorageRoutes
  <2>4. RelayInv'
    BY <1>0, <2>1, RelayQuiet
  <2> QED
    BY <1>0, <2>1, <2>2, <2>3, <2>4 DEF IInv, PathInv, BudgetOK
<1> QED
  BY <1>1, <1>2, <1>3 DEF RelayNext

-----------------------------------------------------------------------------
(* The properties.                                                         *)

\* The composition of storageService, the containers and the call relay keeps
\* IInv, whatever is lost, repeated or moved.
THEOREM SpecIInv == RelaySpec => []IInv
<1>1. RelayInit => IInv
  BY PathInitInv
<1>2. IInv /\ [RelayNext]_allVars => IInv'
  BY IInvKept
<1> QED
  BY <1>1, <1>2, PTL DEF RelaySpec

\* TypeOK: the state of storageService and of the containers has its type.
THEOREM SpecTypeOK == RelaySpec => []TypeOK
<1>1. IInv => TypeOK
  <2> SUFFICES ASSUME IInv PROVE TypeOK
    OBVIOUS
  <2>1. StorageInv /\ RouteInv /\ SyncInv /\ BudgetOK
    BY DEF IInv, PathInv
  <2>2. StorageTypeOK
    BY <2>1, StorageTyped
  <2>3. idem \in [IdemKeys -> {Absent, Pending} \cup Stored]
    BY <2>1 DEF RouteInv, PathTypes, IdemOK
  <2>4. \A k \in Claims : claims[k].attempt \in 0 .. MaxRetries
    BY <2>1 DEF RouteInv, ClaimOK
  <2>5. \A f \in frames \cup lost : f.user \in Users
    BY <2>1 DEF RouteInv, FramesOK, FrameOK
  <2>6. cursor \in [Users -> Cursors] /\ synced \in [Users -> SUBSET Ids]
    BY <2>1 DEF SyncInv, SyncTypes
  <2>7. /\ conn \in [Containers -> SUBSET Users]
        /\ route \in [Users -> Containers \cup {Offline}]
        /\ effects \subseteq Stored /\ published \subseteq {r.op : r \in outbox}
        /\ pushes \in [Ids -> Nat] /\ released \in [Ids -> Nat] /\ moved \subseteq Users
    BY <2>1 DEF RouteInv, PathTypes
  <2> QED
    BY <2>1, <2>2, <2>3, <2>4, <2>5, <2>6, <2>7 DEF TypeOK, BudgetOK
<1> QED
  BY <1>1, SpecIInv, PTL

\* StaleOnlyByRace: storageService's caches hold an old version of a row only
\* while the operation that changed it is not finished, unless a query wrote an old
\* copy after the key was deleted from L1, or Redis failed the delete.
THEOREM SpecStaleOnlyByRace == RelaySpec => []StaleOnlyByRace
<1>1. IInv => StaleOnlyByRace
  BY StaleIsOwed DEF IInv, PathInv
<1> QED
  BY <1>1, SpecIInv, PTL

\* AcksAgree: a client's message is stored once and every acknowledgement, of the
\* response or of the idempotency key, names the row of its client id.
THEOREM SpecAcksAgree == RelaySpec => []AcksAgree
<1>1. IInv => AcksAgree
  <2> SUFFICES ASSUME IInv PROVE AcksAgree
    OBVIOUS
  <2>1. StorageInv /\ RouteInv
    BY DEF IInv, PathInv
  <2>2. \A i, j \in Stored : messages[i].from = messages[j].from
                             /\ messages[i].client = messages[j].client => i = j
    BY <2>1 DEF StorageInv, TableOK
  <2>3. \A f \in frames \cup lost :
          f.kind = "ack" => f.id \in Stored /\ messages[f.id].from = f.user
                                           /\ messages[f.id].client = f.client
    BY <2>1 DEF RouteInv, FramesOK, FrameOK
  <2>4. \A k \in IdemKeys :
          idem[k] \in Ids => messages[idem[k]].from = k[1] /\ messages[idem[k]].client = k[2]
    BY <2>1 DEF RouteInv, IdemOK
  <2> QED
    BY <2>2, <2>3, <2>4 DEF AcksAgree
<1> QED
  BY <1>1, SpecIInv, PTL

\* EffectsOnce: the push of a message is asked for after it is stored, and once
\* more at most for every release of its effects key by DeliverStoredPost.
THEOREM SpecEffectsOnce == RelaySpec => []EffectsOnce
<1>1. IInv => EffectsOnce
  BY DEF IInv, PathInv, RouteInv, EffectsOK, EffectsOnce
<1> QED
  BY <1>1, SpecIInv, PTL

\* LostOnlyByMove: a frame reaches someone who cannot read its format only when
\* its user reconnected at another container.
THEOREM SpecLostOnlyByMove == RelaySpec => []LostOnlyByMove
<1>1. IInv => LostOnlyByMove
  BY DEF IInv, PathInv, RouteInv, FramesOK, LostOnlyByMove
<1> QED
  BY <1>1, SpecIInv, PTL

\* SyncComplete: a client that follows the cursor of QuerySyncMessages has been
\* given every message to it, and every message of the group sent after the second
\* in which it joined, up to there, save those whose transaction was still open when
\* a page passed them.
THEOREM SpecSyncComplete == RelaySpec => []SyncComplete
<1>1. IInv => SyncComplete
  <2> SUFFICES ASSUME IInv, NEW u \in Users, NEW i \in Stored, ForUser(u, i),
                      \/ messages[i].at < cursor[u].at
                      \/ messages[i].at = cursor[u].at /\ i <= cursor[u].id
               PROVE  i \in synced[u] \cup LateIds
    BY DEF SyncComplete, ForUser
  <2>1. StorageInv /\ CursorOK(cursor[u]) /\ Covered(u, cursor[u], synced[u])
    BY DEF IInv, PathInv, SyncInv, SyncOK
  <2>2. i \in Nat /\ messages[i].at \in Nat
    BY <2>1 DEF StorageInv, StorageTypes, Stored, Ids, Rows, Times
  <2>3. cursor[u].at \in Nat /\ cursor[u].id \in Nat
    BY <2>1 DEF CursorOK, Cursors, Times
  <2>4. ~After(Place(i), cursor[u])
    BY <2>2, <2>3 DEF After, Place
  <2> QED
    BY <2>1, <2>4 DEF Covered
<1> QED
  BY <1>1, SpecIInv, PTL

\* CallEventsKept: an event of a call that was never published is still unread or
\* pending in the stream, whichever pods failed, died or took over.
THEOREM SpecCallEventsKept == RelaySpec => []CallEventsKept
<1>1. IInv => CallEventsKept
  BY DEF IInv, RelayInv
<1> QED
  BY <1>1, SpecIInv, PTL
=============================================================================
