------------------------ MODULE StorageServiceProofs ------------------------
(***************************************************************************)
(* Proofs about storageService, for every number of consumers, users and   *)
(* messages.  StorageInv is kept by every step of the service and by every *)
(* step of its environment: requests that arrive, members that come and    *)
(* go, and time.                                                           *)
(***************************************************************************)
EXTENDS StorageService, FiniteSetTheorems, TLAPS

Phases == {"idle", "stamped", "inserted", "loaded", "committed", "clearing"}

WorkerStates ==
    [phase : Phases, op : Nat, id : 0 .. MaxId, created : BOOLEAN, at : Times,
     value : Versions \cup {Absent}, fresh : BOOLEAN, keys : SUBSET Keys]

StorageTypes ==
    /\ topic \in Seq(Requests)
    /\ finished \subseteq DOMAIN topic
    /\ messages \in [Ids -> Rows \cup {NoRow}]
    /\ nextId \in 1 .. MaxId + 1
    /\ profile \in [Users -> Versions]
    /\ joined \in [Users -> Times \cup {Absent}]
    /\ now \in Times
    /\ l1 \in [Keys -> Versions \cup {Absent}]
    /\ l2 \in [Keys -> Versions \cup {Absent}]
    /\ workers \in [Workers -> WorkerStates]
    /\ leaked \subseteq Keys /\ late \subseteq DOMAIN topic

\* A row has an id that was given out and a time that has passed, and a sender's
\* client id is used once.
TableOK ==
    /\ \A i \in Stored : i < nextId /\ messages[i].at <= now
    /\ \A i, j \in Stored : /\ messages[i].from = messages[j].from
                            /\ messages[i].client = messages[j].client
                            => i = j

\* A response answers its request, and names the row that the request is about.
ResponseOK(r) ==
    /\ r.op \in DOMAIN topic
    /\ r.user = topic[r.op].user
    /\ r.kind = topic[r.op].kind
    /\ r.topic = topic[r.op].topic
    /\ r.kind = "store" => r.id \in Existing(topic[r.op]) /\ r.client = topic[r.op].client
    /\ r.kind = "recall" /\ r.result = "ok" => r.id = topic[r.op].id /\ r.id \in Stored

OutboxOK ==
    /\ \A r \in outbox : ResponseOK(r)
    /\ \A r, s \in outbox : r.op = s.op => r = s

\* The insert of a worker that has not committed.
InsertOK(w) ==
    LET t == workers[w] IN
    IF t.created
    THEN /\ t.id \in Ids /\ t.id < nextId
         /\ messages[t.id] = NoRow
         /\ Existing(topic[t.op]) = {}
    ELSE t.id \in Existing(topic[t.op])

\* A committed worker will clear what its operation changed.
ClearsOK(w) ==
    LET t == workers[w] IN
    /\ Completed(t.op)
    /\ \A r \in outbox : r.op = t.op /\ r.result = "ok" =>
         \A k \in Keys : Changes(topic[t.op], k) => k \in t.keys

WorkerOK(w) ==
    LET t == workers[w] IN
    /\ t.phase = "idle" => t.op = 0
    /\ t.phase # "idle" => t.op \in DOMAIN topic
    /\ t.phase \in {"stamped", "inserted"} =>
         topic[t.op].kind = "store" /\ ~Completed(t.op) /\ t.at <= now
    /\ t.phase = "stamped" => ~t.created
    /\ t.phase = "inserted" => InsertOK(w)
    /\ t.phase = "loaded" =>
         topic[t.op].kind \in {"message", "user"} /\ ~Completed(t.op) /\ t.value \in Versions
    /\ t.phase \in {"committed", "clearing"} => ClearsOK(w)

\* An operation is one worker's, and so are an id and a client id that are being
\* inserted.
Inserts(w) == workers[w].phase = "inserted" /\ workers[w].created

WorkersApart ==
    \A v, w \in Workers :
        \/ v = w
        \/ /\ workers[v].phase # "idle" => workers[v].op # workers[w].op
           /\ Inserts(v) /\ Inserts(w) =>
                /\ workers[v].id # workers[w].id
                /\ \/ topic[workers[v].op].user # topic[workers[w].op].user
                   \/ topic[workers[v].op].client # topic[workers[w].op].client

\* An old version in L2 has a change that is not finished; one in L1 has a change
\* whose L1 delete is still to come.
Owed(k) == Unfinished(k) # {}

L1OK == \A k \in Keys \ leaked : l1[k] \notin {Absent, Current(k)} => ClearAhead(k)

L2OK == \A k \in Keys \ leaked : l2[k] \notin {Absent, Current(k)} => Owed(k)

StorageInv ==
    /\ StorageTypes
    /\ TableOK
    /\ OutboxOK
    /\ \A w \in Workers : WorkerOK(w)
    /\ WorkersApart
    /\ L1OK /\ L2OK

-----------------------------------------------------------------------------
(* The records and what may not change.                                    *)

USE StorageAssumption

\* The fields of a request.
LEMMA RequestFields ==
    ASSUME NEW q \in Requests
    PROVE  /\ q.user \in Users /\ q.topic \in Containers
           /\ q.kind \in {"store", "recall", "message", "user", "sync", "update"}
           /\ q.kind = "store" => q.to \in Users \cup {Group} /\ q.client \in Clients
           /\ q.kind \in {"recall", "message"} => q.id \in Ids
           /\ q.kind \in {"user", "update"} => q.about \in Users
           /\ q.kind = "sync" => q.cursor \in Cursors
BY DEF Requests

\* The fields of a response.
LEMMA ResponseFields ==
    ASSUME NEW o, NEW res, NEW i, NEW c
    PROVE  LET r == Response(o, res, i, c) IN
           /\ r.op = o /\ r.kind = topic[o].kind /\ r.user = topic[o].user
           /\ r.topic = topic[o].topic /\ r.result = res /\ r.id = i
           /\ r.created = c
           /\ topic[o].kind = "store" => r.client = topic[o].client
BY DEF Response

\* What a worker is after it has committed, and while it holds a copy.
Committed(o, K) == [Idle EXCEPT !.phase = "committed", !.op = o, !.keys = K]

LEMMA WorkerFields ==
    /\ Idle \in WorkerStates /\ Idle.phase = "idle" /\ Idle.op = 0 /\ ~Idle.created
    /\ \A o \in Nat, K \in SUBSET Keys :
         /\ Committed(o, K) \in WorkerStates /\ Committed(o, K).phase = "committed"
         /\ Committed(o, K).op = o /\ Committed(o, K).keys = K
    /\ \A o \in Nat, v \in Versions, b \in BOOLEAN :
         /\ Loaded(o, v, b) \in WorkerStates /\ Loaded(o, v, b).phase = "loaded"
         /\ Loaded(o, v, b).op = o /\ Loaded(o, v, b).value = v
         /\ Loaded(o, v, b).fresh = b
<1>1. 0 \in Times /\ 0 \in 0 .. MaxId
  BY DEF Times
<1>2. Idle \in WorkerStates /\ Idle.phase = "idle" /\ Idle.op = 0 /\ ~Idle.created
  BY <1>1 DEF Idle, WorkerStates, Phases
<1>3. ASSUME NEW o \in Nat, NEW K \in SUBSET Keys
      PROVE  /\ Committed(o, K) \in WorkerStates /\ Committed(o, K).phase = "committed"
             /\ Committed(o, K).op = o /\ Committed(o, K).keys = K
  BY <1>1 DEF Idle, Committed, WorkerStates, Phases
<1>4. ASSUME NEW o \in Nat, NEW v \in Versions, NEW b \in BOOLEAN
      PROVE  /\ Loaded(o, v, b) \in WorkerStates /\ Loaded(o, v, b).phase = "loaded"
             /\ Loaded(o, v, b).op = o /\ Loaded(o, v, b).value = v
             /\ Loaded(o, v, b).fresh = b
  BY <1>1 DEF Idle, Loaded, WorkerStates, Phases
<1> QED
  BY <1>2, <1>3, <1>4

\* A step may add requests, rows, responses and history; it changes none.
Grows ==
    /\ \A o \in DOMAIN topic : o \in DOMAIN topic' /\ topic'[o] = topic[o]
    /\ \A i \in Stored : /\ i \in Stored'
                         /\ messages'[i].from = messages[i].from
                         /\ messages'[i].to = messages[i].to
                         /\ messages'[i].client = messages[i].client
                         /\ messages'[i].at = messages[i].at
    /\ outbox \subseteq outbox' /\ LateIds \subseteq LateIds'
    /\ \A u \in Users : joined'[u] \in {joined[u], Absent, now}
    /\ now' \in Nat /\ now <= now'
    /\ nextId' \in Nat /\ nextId <= nextId'

\* A response stays right.
LEMMA ResponseKept ==
    ASSUME Grows, NEW r, ResponseOK(r)
    PROVE  ResponseOK(r)'
<1>1. r.op \in DOMAIN topic /\ r.op \in DOMAIN topic' /\ topic'[r.op] = topic[r.op]
  BY DEF ResponseOK, Grows
<1>2. r.kind = "store" => r.id \in Existing(topic[r.op])'
  BY <1>1 DEF ResponseOK, Grows, Existing
<1>3. r.kind = "recall" /\ r.result = "ok" => r.id \in Stored'
  BY DEF ResponseOK, Grows
<1> QED
  BY <1>1, <1>2, <1>3 DEF ResponseOK

\* A worker that does nothing stays right, unless another completes its
\* operation or inserts its row.
LEMMA WorkerKept ==
    ASSUME StorageTypes, Grows, NEW v \in Workers, WorkerOK(v),
           workers'[v] = workers[v],
           \A r \in outbox' : r \in outbox \/ workers[v].phase = "idle"
                              \/ r.op # workers[v].op,
           Inserts(v) => /\ messages'[workers[v].id] = NoRow
                         /\ Existing(topic[workers[v].op])' = {}
    PROVE  WorkerOK(v)'
<1> DEFINE t == workers[v]
<1>0. t \in WorkerStates /\ t.created \in BOOLEAN
  BY DEF StorageTypes, WorkerStates
<1>1. CASE t.phase = "idle"
  BY <1>1 DEF WorkerOK
<1>2. ASSUME t.phase # "idle"
      PROVE  /\ t.op \in DOMAIN topic /\ t.op \in DOMAIN topic'
             /\ topic'[t.op] = topic[t.op]
             /\ Completed(t.op)' <=> Completed(t.op)
  BY <1>2 DEF WorkerOK, Grows, Completed
<1>6. t.at <= now => t.at <= now'
  BY <1>0 DEF Grows, StorageTypes, WorkerStates, Times
<1>7. CASE t.phase = "stamped"
  BY <1>2, <1>6, <1>7 DEF WorkerOK
<1>3. CASE t.phase = "inserted"
  <2>1. InsertOK(v)'
    <3>1. InsertOK(v)
      BY <1>3 DEF WorkerOK
    <3>2. CASE t.created
      <4>1. t.id \in Ids /\ t.id < nextId
        BY <3>1, <3>2 DEF InsertOK
      <4>2. t.id < nextId'
        BY <1>0, <4>1 DEF Grows, StorageTypes, WorkerStates, Times, Ids
      <4> QED
        BY <1>2, <1>3, <3>2, <4>1, <4>2 DEF InsertOK, Inserts
    <3>3. CASE ~t.created
      BY <1>2, <1>3, <3>1, <3>3 DEF InsertOK, Existing, Grows
    <3> QED
      BY <3>2, <3>3
  <2> QED
    BY <1>2, <1>3, <1>6, <2>1 DEF WorkerOK
<1>4. CASE t.phase = "loaded"
  BY <1>2, <1>4 DEF WorkerOK
<1>5. CASE t.phase \in {"committed", "clearing"}
  <2>1. ClearsOK(v)'
    BY <1>2, <1>5 DEF WorkerOK, ClearsOK, Changes
  <2> QED
    BY <1>2, <1>5, <2>1 DEF WorkerOK
<1> QED
  BY <1>0, <1>1, <1>3, <1>4, <1>5, <1>7 DEF WorkerStates, Phases

\* One worker commits a response.
LEMMA CommitKept ==
    ASSUME StorageInv, Grows, NEW w \in Workers, NEW rsp, NEW K \in SUBSET Keys,
           CommitWith(w, rsp, K), topic' = topic, rsp.op \in Nat,
           \A v \in Workers : v = w \/ workers[v].phase = "idle" \/ workers[v].op # rsp.op,
           ~Completed(rsp.op), ResponseOK(rsp)',
           rsp.result = "ok" => \A k \in Keys : Changes(topic[rsp.op], k) => k \in K,
           \A v \in Workers : v # w /\ Inserts(v) =>
             /\ messages'[workers[v].id] = NoRow
             /\ Existing(topic[workers[v].op])' = {}
    PROVE  /\ OutboxOK'
           /\ \A v \in Workers : WorkerOK(v)'
           /\ WorkersApart'
           /\ workers' \in [Workers -> WorkerStates]
           /\ \A v \in Workers : v # w => workers'[v] = workers[v]
           /\ workers'[w].phase = "committed"
<1>1. /\ outbox' = outbox \cup {rsp}
      /\ workers' = [workers EXCEPT ![w] = Committed(rsp.op, K)]
  BY DEF CommitWith, Committed
<1>2. /\ Committed(rsp.op, K) \in WorkerStates
      /\ Committed(rsp.op, K).phase = "committed"
      /\ Committed(rsp.op, K).op = rsp.op /\ Committed(rsp.op, K).keys = K
  BY WorkerFields
<1>3. /\ workers' \in [Workers -> WorkerStates]
      /\ \A v \in Workers : v # w => workers'[v] = workers[v]
      /\ workers'[w] = Committed(rsp.op, K)
  BY <1>1, <1>2 DEF StorageInv, StorageTypes
<1>4. OutboxOK'
  <2>1. \A r \in outbox' : ResponseOK(r)'
    BY <1>1, ResponseKept DEF StorageInv, OutboxOK
  <2>2. \A r, s \in outbox' : r.op = s.op => r = s
    BY <1>1 DEF StorageInv, OutboxOK, Completed
  <2> QED
    BY <2>1, <2>2 DEF OutboxOK
<1>5. ASSUME NEW v \in Workers PROVE WorkerOK(v)'
  <2>1. CASE v # w
    <3>1. \A r \in outbox' : r \in outbox \/ workers[v].phase = "idle"
                             \/ r.op # workers[v].op
      BY <1>1, <2>1
    <3> QED
      BY <1>3, <2>1, <3>1, WorkerKept DEF StorageInv
  <2>2. CASE v = w
    <3>1. Completed(rsp.op)'
      BY <1>1 DEF Completed
    <3>2. \A r \in outbox' : r.op = rsp.op => r = rsp
      BY <1>1 DEF Completed
    <3>3. ClearsOK(w)'
      BY <1>2, <1>3, <3>1, <3>2 DEF ClearsOK, Changes
    <3>4. rsp.op \in DOMAIN topic'
      BY DEF ResponseOK
    <3> QED
      BY <1>2, <1>3, <2>2, <3>3, <3>4 DEF WorkerOK
  <2> QED
    BY <2>1, <2>2
<1>6. WorkersApart'
  <2> SUFFICES ASSUME NEW u \in Workers, NEW v \in Workers, u # v
               PROVE  /\ workers'[u].phase # "idle" => workers'[u].op # workers'[v].op
                      /\ Inserts(u)' /\ Inserts(v)' =>
                           /\ workers'[u].id # workers'[v].id
                           /\ \/ topic[workers'[u].op].user # topic[workers'[v].op].user
                              \/ topic[workers'[u].op].client # topic[workers'[v].op].client
    BY DEF WorkersApart
  <2>1. CASE u # w /\ v # w
    BY <1>3, <2>1 DEF StorageInv, WorkersApart, Inserts
  <2>2. CASE u = w \/ v = w
    <3>1. ~(Inserts(u)' /\ Inserts(v)')
      BY <1>2, <1>3, <2>2 DEF Inserts
    <3>2. CASE u = w
      <4>1. v # w
        BY <3>2
      <4>2. workers[v].phase = "idle" => workers[v].op = 0
        BY DEF StorageInv, WorkerOK
      <4>3. rsp.op # 0
        BY DEF ResponseOK, StorageInv, StorageTypes
      <4> QED
        BY <1>2, <1>3, <3>1, <3>2, <4>1, <4>2, <4>3
    <3>3. CASE v = w
      BY <1>2, <1>3, <3>1, <3>3
    <3> QED
      BY <2>2, <3>2, <3>3
  <2> QED
    BY <2>1, <2>2
<1> QED
  BY <1>2, <1>3, <1>4, <1>5, <1>6

\* A clear stays owed until its operation is finished, and ahead until a worker
\* has deleted the key from L1.
LEMMA OwedKept ==
    ASSUME OutboxOK, outbox \subseteq outbox',
           \A o \in DOMAIN topic : topic'[o] = topic[o], NEW k,
           \A r \in outbox : r.op \notin finished => \/ r.op \notin finished'
                                                     \/ ~Changes(topic[r.op], k)
                                                     \/ r.result # "ok"
    PROVE  Unfinished(k) \subseteq Unfinished(k)' /\ (Owed(k) => Owed(k)')
<1>1. ASSUME NEW r \in Unfinished(k) PROVE r \in Unfinished(k)'
  <2>1. r \in outbox /\ r.op \notin finished /\ r.result = "ok" /\ Changes(topic[r.op], k)
    BY DEF Unfinished
  <2>2. r \in outbox' /\ r.op \notin finished' /\ topic'[r.op] = topic[r.op]
    BY <2>1 DEF OutboxOK, ResponseOK
  <2> QED
    BY <2>1, <2>2 DEF Unfinished, Changes
<1> QED
  BY <1>1 DEF Owed

LEMMA AheadKept ==
    ASSUME OutboxOK, outbox \subseteq outbox',
           \A o \in DOMAIN topic : topic'[o] = topic[o], NEW k,
           \A r \in outbox : r.op \notin finished => \/ r.op \notin finished'
                                                     \/ ~Changes(topic[r.op], k)
                                                     \/ r.result # "ok",
           \A w \in Workers : workers'[w].phase = "clearing" => workers'[w] = workers[w]
    PROVE  ClearAhead(k) => ClearAhead(k)'
<1> SUFFICES ASSUME ClearAhead(k) PROVE ClearAhead(k)'
  OBVIOUS
<1>1. PICK r \in Unfinished(k) :
        \A w \in Workers : workers[w].op = r.op => workers[w].phase # "clearing"
  BY DEF ClearAhead
<1>2. r \in Unfinished(k)'
  BY OwedKept
<1> QED
  BY <1>1, <1>2 DEF ClearAhead

\* What is ahead is owed.
LEMMA AheadOwes ==
    ASSUME NEW k, ClearAhead(k)
    PROVE  Owed(k)
BY DEF ClearAhead, Owed

\* The key of a query.
LEMMA QueryKey ==
    ASSUME NEW q \in Requests, q.kind \in {"message", "user"}
    PROVE  Key(q) \in Keys
<1>1. CASE q.kind = "message"
  BY <1>1, RequestFields DEF Key, Keys
<1>2. CASE q.kind = "user"
  BY <1>2, RequestFields DEF Key, Keys
<1> QED
  BY <1>1, <1>2

\* The caches stay right when the clears stay owed or are done and a row that
\* changes owes one.
LEMMA CachesKept ==
    ASSUME L1OK, L2OK, leaked \subseteq leaked',
           \A k \in Keys \ leaked' :
             /\ Owed(k) => Owed(k)' \/ l2'[k] = Absent
             /\ ClearAhead(k) => ClearAhead(k)' \/ l1'[k] = Absent
             /\ Current(k)' = Current(k) \/ ClearAhead(k)'
             /\ l1'[k] \in {Absent, l1[k], Current(k)'} \/ ClearAhead(k)'
             /\ l2'[k] \in {Absent, l2[k], Current(k)'} \/ Owed(k)'
    PROVE  L1OK' /\ L2OK'
<1>1. ASSUME NEW k PROVE ClearAhead(k)' => Owed(k)'
  BY DEF ClearAhead, Owed
<1>2. L1OK'
  BY DEF L1OK
<1>3. L2OK'
  BY <1>1 DEF L2OK
<1> QED
  BY <1>2, <1>3

-----------------------------------------------------------------------------
(* Steps of one kind.                                                      *)

\* What the environment does: a request arrives, a member comes or goes, time
\* passes, an entry of a cache expires.
LEMMA QuietKept ==
    ASSUME StorageInv, UNCHANGED <<finished, db, leaked, workers, outbox, late>>,
           topic' = topic \/ \E q \in Requests : topic' = Append(topic, q),
           joined' \in [Users -> Times \cup {Absent}], now' \in Times, now <= now',
           \A u \in Users : joined'[u] \in {joined[u], Absent, now},
           l1' \in [Keys -> Versions \cup {Absent}], l2' \in [Keys -> Versions \cup {Absent}],
           \A k \in Keys : l1'[k] \in {Absent, l1[k]} /\ l2'[k] \in {Absent, l2[k]}
    PROVE  StorageInv' /\ Grows
<1>1. /\ messages' = messages /\ nextId' = nextId /\ profile' = profile
      /\ Stored' = Stored
  BY DEF db, Stored
<1>2. /\ topic' \in Seq(Requests)
      /\ \A o \in DOMAIN topic : o \in DOMAIN topic' /\ topic'[o] = topic[o]
  <2>1. topic \in Seq(Requests)
    BY DEF StorageInv, StorageTypes
  <2>2. ASSUME NEW q \in Requests, topic' = Append(topic, q)
        PROVE  /\ topic' \in Seq(Requests)
               /\ \A o \in DOMAIN topic : o \in DOMAIN topic' /\ topic'[o] = topic[o]
    BY <2>1, <2>2
  <2> QED
    BY <2>1, <2>2
<1>3. Grows
  BY <1>1, <1>2 DEF Grows, StorageInv, StorageTypes, Times, LateIds
<1>4. StorageTypes'
  BY <1>1, <1>2 DEF StorageInv, StorageTypes
<1>5. TableOK'
  <2>1. \A i \in Stored : messages[i] \in Rows /\ messages[i].at \in Times
    BY DEF StorageInv, StorageTypes, Stored, Rows
  <2> QED
    BY <1>1, <2>1 DEF StorageInv, StorageTypes, TableOK, Times
<1>6. OutboxOK'
  BY <1>3, ResponseKept DEF StorageInv, OutboxOK
<1>7. ASSUME NEW v \in Workers PROVE WorkerOK(v)'
  <2>1. Inserts(v) => /\ messages'[workers[v].id] = NoRow
                      /\ Existing(topic[workers[v].op])' = {}
    <3>1. Inserts(v) => /\ workers[v].op \in DOMAIN topic
                        /\ messages[workers[v].id] = NoRow
                        /\ Existing(topic[workers[v].op]) = {}
      BY DEF StorageInv, WorkerOK, InsertOK, Inserts
    <3> QED
      BY <1>1, <1>2, <3>1 DEF Existing
  <2> QED
    BY <1>3, <2>1, WorkerKept DEF StorageInv
<1>8. WorkersApart'
  <2>1. \A v \in Workers : Inserts(v) => workers[v].op \in DOMAIN topic
    BY DEF StorageInv, WorkerOK, Inserts
  <2> QED
    BY <1>2, <2>1 DEF StorageInv, WorkersApart, Inserts
<1>9. L1OK' /\ L2OK'
  <2>1. ASSUME NEW k \in Keys
        PROVE  /\ Owed(k) => Owed(k)'
               /\ ClearAhead(k) => ClearAhead(k)'
               /\ Current(k)' = Current(k)
    <3>1. (Owed(k) => Owed(k)') /\ (ClearAhead(k) => ClearAhead(k)')
      BY <1>2, OwedKept, AheadKept DEF StorageInv
    <3>2. Current(k)' = Current(k)
      BY <1>1 DEF Current
    <3> QED
      BY <3>1, <3>2
  <2> QED
    BY <2>1, CachesKept DEF StorageInv
<1> QED
  BY <1>3, <1>4, <1>5, <1>6, <1>7, <1>8, <1>9 DEF StorageInv

\* Workers end: their operation is finished or given up.
LEMMA ReleaseKept ==
    ASSUME StorageInv, UNCHANGED <<topic, db, joined, now, outbox, late>>,
           NEW W \in SUBSET Workers,
           workers' = [w \in Workers |-> IF w \in W THEN Idle ELSE workers[w]],
           leaked \subseteq leaked', leaked' \subseteq Keys, finished' \subseteq DOMAIN topic,
           l1' \in [Keys -> Versions \cup {Absent}], l2' \in [Keys -> Versions \cup {Absent}],
           \A k \in Keys : l1'[k] \in {Absent, l1[k]} /\ l2'[k] \in {Absent, l2[k]},
           \A k \in Keys \ leaked' : /\ Owed(k) => Owed(k)' \/ l2'[k] = Absent
                                     /\ ClearAhead(k) => ClearAhead(k)' \/ l1'[k] = Absent
    PROVE  StorageInv' /\ Grows
<1>1. /\ messages' = messages /\ nextId' = nextId /\ profile' = profile
      /\ Stored' = Stored
  BY DEF db, Stored
<1>2. \A w \in Workers : IF w \in W THEN workers'[w] = Idle ELSE workers'[w] = workers[w]
  OBVIOUS
<1>3. Grows
  BY <1>1 DEF Grows, StorageInv, StorageTypes, Times, LateIds
<1>4. StorageTypes'
  <2>1. workers' \in [Workers -> WorkerStates]
    BY <1>2, WorkerFields DEF StorageInv, StorageTypes
  <2> QED
    BY <1>1, <2>1 DEF StorageInv, StorageTypes
<1>5. TableOK'
  BY <1>1 DEF StorageInv, TableOK
<1>6. OutboxOK'
  BY <1>3, ResponseKept DEF StorageInv, OutboxOK
<1>7. ASSUME NEW v \in Workers PROVE WorkerOK(v)'
  <2>1. CASE v \in W
    BY <1>2, <2>1, WorkerFields DEF WorkerOK
  <2>2. CASE v \notin W
    <3>1. Inserts(v) => /\ messages[workers[v].id] = NoRow
                        /\ Existing(topic[workers[v].op]) = {}
      BY DEF StorageInv, WorkerOK, InsertOK, Inserts
    <3>2. Existing(topic[workers[v].op])' = Existing(topic[workers[v].op])
      BY <1>1, <1>2, <2>2 DEF Existing
    <3> QED
      BY <1>1, <1>2, <1>3, <2>2, <3>1, <3>2, WorkerKept DEF StorageInv
  <2> QED
    BY <2>1, <2>2
<1>8. WorkersApart'
  <2> SUFFICES ASSUME NEW u \in Workers, NEW v \in Workers, u # v
               PROVE  /\ workers'[u].phase # "idle" => workers'[u].op # workers'[v].op
                      /\ Inserts(u)' /\ Inserts(v)' =>
                           /\ workers'[u].id # workers'[v].id
                           /\ \/ topic[workers'[u].op].user # topic[workers'[v].op].user
                              \/ topic[workers'[u].op].client # topic[workers'[v].op].client
    BY DEF WorkersApart
  <2>1. CASE u \in W
    BY <1>2, <2>1, WorkerFields DEF Inserts
  <2>2. CASE u \notin W /\ v \in W
    <3>1. workers'[u] = workers[u] /\ workers'[v].op = 0 /\ ~Inserts(v)'
      BY <1>2, <2>2, WorkerFields DEF Inserts
    <3>2. workers[u].phase # "idle" => workers[u].op \in DOMAIN topic
      BY DEF StorageInv, WorkerOK
    <3>3. 0 \notin DOMAIN topic
      BY DEF StorageInv, StorageTypes
    <3> QED
      BY <3>1, <3>2, <3>3
  <2>3. CASE u \notin W /\ v \notin W
    BY <1>2, <2>3 DEF StorageInv, WorkersApart, Inserts
  <2> QED
    BY <2>1, <2>2, <2>3
<1>9. \A k \in Keys : Current(k)' = Current(k)
  BY <1>1 DEF Current
<1>10. L1OK' /\ L2OK'
  BY <1>9, CachesKept DEF StorageInv
<1> QED
  BY <1>3, <1>4, <1>5, <1>6, <1>7, <1>8, <1>10 DEF StorageInv

\* One worker goes on.
LEMMA MoveKept ==
    ASSUME StorageInv,
           UNCHANGED <<topic, finished, messages, profile, joined, now, leaked, outbox>>,
           late' \subseteq DOMAIN topic, LateIds \subseteq LateIds',
           l1' \in [Keys -> Versions \cup {Absent}], l2' \in [Keys -> Versions \cup {Absent}],
           NEW w \in Workers, NEW t \in WorkerStates, t.phase # "idle",
           workers' = [workers EXCEPT ![w] = t],
           \A v \in Workers : v = w \/ workers[v].op # t.op,
           nextId' \in 1 .. MaxId + 1, nextId <= nextId',
           WorkerOK(w)',
           t.phase = "inserted" /\ t.created =>
             \A v \in Workers : Inserts(v) =>
               /\ workers[v].id # t.id
               /\ \/ topic[workers[v].op].user # topic[t.op].user
                  \/ topic[workers[v].op].client # topic[t.op].client
    PROVE  /\ StorageTypes' /\ TableOK' /\ OutboxOK'
           /\ \A v \in Workers : WorkerOK(v)'
           /\ WorkersApart' /\ Grows
           /\ workers'[w] = t
           /\ \A v \in Workers : v # w => workers'[v] = workers[v]
           /\ \A k : Current(k)' = Current(k)
<1>1. Stored' = Stored
  BY DEF Stored
<1>2. /\ workers' \in [Workers -> WorkerStates] /\ workers'[w] = t
      /\ \A v \in Workers : v # w => workers'[v] = workers[v]
  BY DEF StorageInv, StorageTypes
<1>3. Grows
  BY <1>1 DEF Grows, StorageInv, StorageTypes, Times
<1>4. StorageTypes'
  BY <1>1, <1>2 DEF StorageInv, StorageTypes
<1>5. TableOK'
  <2>1. \A i \in Stored : i \in Nat /\ i < nextId
    BY DEF StorageInv, TableOK, Stored, Ids
  <2>2. \A i \in Stored : i < nextId'
    BY <2>1 DEF StorageInv, StorageTypes
  <2> QED
    BY <1>1, <2>2 DEF StorageInv, TableOK
<1>6. OutboxOK'
  BY <1>3, ResponseKept DEF StorageInv, OutboxOK
<1>7. ASSUME NEW v \in Workers PROVE WorkerOK(v)'
  <2>1. CASE v # w
    <3>1. Inserts(v) => /\ messages[workers[v].id] = NoRow
                        /\ Existing(topic[workers[v].op]) = {}
      BY DEF StorageInv, WorkerOK, InsertOK, Inserts
    <3>2. Existing(topic[workers[v].op])' = Existing(topic[workers[v].op])
      BY <1>1, <1>2, <2>1 DEF Existing
    <3> QED
      BY <1>2, <1>3, <2>1, <3>1, <3>2, WorkerKept DEF StorageInv
  <2> QED
    BY <2>1
<1>8. WorkersApart'
  <2> SUFFICES ASSUME NEW u \in Workers, NEW v \in Workers, u # v
               PROVE  /\ workers'[u].phase # "idle" => workers'[u].op # workers'[v].op
                      /\ Inserts(u)' /\ Inserts(v)' =>
                           /\ workers'[u].id # workers'[v].id
                           /\ \/ topic[workers'[u].op].user # topic[workers'[v].op].user
                              \/ topic[workers'[u].op].client # topic[workers'[v].op].client
    BY DEF WorkersApart
  <2>1. CASE u = w
    BY <1>2, <2>1 DEF Inserts
  <2>2. CASE v = w
    BY <1>2, <2>2 DEF Inserts
  <2>3. CASE u # w /\ v # w
    BY <1>2, <2>3 DEF StorageInv, WorkersApart, Inserts
  <2> QED
    BY <2>1, <2>2, <2>3
<1>9. \A k : Current(k)' = Current(k)
  BY <1>1 DEF Current
<1> QED
  BY <1>2, <1>3, <1>4, <1>5, <1>6, <1>7, <1>8, <1>9

\* A worker takes an operation, or goes on with it; the caches do not change.
LEMMA StartKept ==
    ASSUME StorageInv,
           UNCHANGED <<topic, finished, messages, profile, joined, now, caches, outbox>>,
           late' \subseteq DOMAIN topic, LateIds \subseteq LateIds',
           NEW w \in Workers, NEW t \in WorkerStates, t.phase \notin {"idle", "clearing"},
           workers' = [workers EXCEPT ![w] = t],
           \A v \in Workers : v = w \/ workers[v].op # t.op,
           nextId' \in 1 .. MaxId + 1, nextId <= nextId',
           WorkerOK(w)',
           t.phase = "inserted" /\ t.created =>
             \A v \in Workers : Inserts(v) =>
               /\ workers[v].id # t.id
               /\ \/ topic[workers[v].op].user # topic[t.op].user
                  \/ topic[workers[v].op].client # topic[t.op].client
    PROVE  StorageInv' /\ Grows
<1>1. l1' = l1 /\ l2' = l2 /\ leaked' = leaked
  BY DEF caches
<1>2. l1' \in [Keys -> Versions \cup {Absent}] /\ l2' \in [Keys -> Versions \cup {Absent}]
  BY <1>1 DEF StorageInv, StorageTypes
<1>3. /\ StorageTypes' /\ TableOK' /\ OutboxOK'
      /\ \A v \in Workers : WorkerOK(v)'
      /\ WorkersApart' /\ Grows
      /\ workers'[w] = t
      /\ \A v \in Workers : v # w => workers'[v] = workers[v]
      /\ \A k : Current(k)' = Current(k)
  BY <1>1, <1>2, MoveKept
<1>4. L1OK' /\ L2OK'
  <2>1. \A v \in Workers : workers'[v].phase = "clearing" => workers'[v] = workers[v]
    BY <1>3
  <2>2. ASSUME NEW k \in Keys
        PROVE  (Owed(k) => Owed(k)') /\ (ClearAhead(k) => ClearAhead(k)')
    BY <2>1, OwedKept, AheadKept DEF StorageInv
  <2> QED
    BY <1>1, <1>3, <2>2, CachesKept DEF StorageInv
<1> QED
  BY <1>3, <1>4 DEF StorageInv

\* A worker answers a query.
LEMMA AnswerKept ==
    ASSUME StorageInv, UNCHANGED <<topic, finished, db, joined, now>>,
           NEW w \in Workers, NEW rsp, CommitWith(w, rsp, {}),
           rsp.op \in DOMAIN topic, ~Completed(rsp.op),
           rsp.kind = topic[rsp.op].kind, rsp.user = topic[rsp.op].user,
           rsp.topic = topic[rsp.op].topic, rsp.kind \in {"message", "user", "sync"},
           \A v \in Workers : v = w \/ workers[v].phase = "idle" \/ workers[v].op # rsp.op,
           late \subseteq late', late' \subseteq DOMAIN topic,
           leaked \subseteq leaked', leaked' \subseteq Keys,
           l1' \in [Keys -> Versions \cup {Absent}], l2' \in [Keys -> Versions \cup {Absent}],
           \A k \in Keys \ leaked' : /\ l1'[k] \in {Absent, l1[k], Current(k)} \/ ClearAhead(k)
                                     /\ l2'[k] \in {Absent, l2[k], Current(k)} \/ Owed(k)
    PROVE  StorageInv' /\ Grows
<1>1. /\ messages' = messages /\ nextId' = nextId /\ profile' = profile
      /\ Stored' = Stored
  BY DEF db, Stored
<1>2. outbox \subseteq outbox'
  BY DEF CommitWith
<1>3. Grows
  BY <1>1, <1>2 DEF Grows, StorageInv, StorageTypes, Times, LateIds
<1>4. ResponseOK(rsp)'
  BY DEF ResponseOK
<1>5. ASSUME NEW v \in Workers, Inserts(v)
      PROVE  /\ messages'[workers[v].id] = NoRow
             /\ Existing(topic[workers[v].op]) = {}
  BY <1>1, <1>5 DEF StorageInv, WorkerOK, InsertOK, Inserts
<1>6. rsp.op \in Nat
  BY DEF StorageInv, StorageTypes
<1>7. \A k : ~Changes(topic[rsp.op], k)
  BY DEF Changes
<1>8. ASSUME NEW v \in Workers, v # w, Inserts(v)
      PROVE  Existing(topic[workers[v].op])' = {}
  <2>1. workers'[v] = workers[v]
    BY <1>8 DEF CommitWith, StorageInv, StorageTypes
  <2> QED
    BY <1>1, <1>5, <1>8, <2>1 DEF Existing
<1>9. /\ OutboxOK' /\ (\A v \in Workers : WorkerOK(v)') /\ WorkersApart'
      /\ workers' \in [Workers -> WorkerStates]
      /\ \A v \in Workers : v # w => workers'[v] = workers[v]
      /\ workers'[w].phase = "committed"
  BY <1>3, <1>4, <1>5, <1>6, <1>7, <1>8, CommitKept
<1>10. StorageTypes'
  BY <1>1, <1>9 DEF StorageInv, StorageTypes
<1>11. TableOK'
  BY <1>1 DEF StorageInv, TableOK
<1>12. L1OK' /\ L2OK'
  <2>2. \A v \in Workers : workers'[v].phase = "clearing" => workers'[v] = workers[v]
    BY <1>9
  <2>1. ASSUME NEW k \in Keys
        PROVE  /\ Owed(k) => Owed(k)'
               /\ ClearAhead(k) => ClearAhead(k)'
               /\ Current(k)' = Current(k)
    <3>1. (Owed(k) => Owed(k)') /\ (ClearAhead(k) => ClearAhead(k)')
      BY <1>2, <2>2, OwedKept, AheadKept DEF StorageInv
    <3>2. Current(k)' = Current(k)
      BY <1>1 DEF Current
    <3> QED
      BY <3>1, <3>2
  <2> QED
    BY <2>1, CachesKept DEF StorageInv
<1> QED
  BY <1>3, <1>9, <1>10, <1>11, <1>12 DEF StorageInv

\* A taken operation is the worker's own and not done yet.
LEMMA TakeFacts ==
    ASSUME StorageInv, NEW w \in Workers, NEW o, NEW kinds, Take(w, o, kinds)
    PROVE  /\ o \in DOMAIN topic /\ o \in Nat /\ o \notin finished
           /\ topic[o] \in Requests /\ topic[o].kind \in kinds
           /\ ~Completed(o)
           /\ \A v \in Workers : workers[v].op # o
BY DEF Take, StorageInv, StorageTypes

-----------------------------------------------------------------------------
(* The operations.                                                         *)

LEMMA CrashKept ==
    ASSUME StorageInv, Crash
    PROVE  StorageInv' /\ Grows
<1>1. l1' \in [Keys -> Versions \cup {Absent}]
  BY DEF Crash
<1>2. l2' = l2 /\ leaked' = leaked /\ finished' = finished
  BY DEF Crash
<1>3. workers' = [w \in Workers |-> IF w \in Workers THEN Idle ELSE workers[w]]
  BY DEF Crash
<1>4. \A k \in Keys : Owed(k) => Owed(k)'
  BY DEF Crash, Owed, Unfinished, Changes
<1>5. UNCHANGED <<topic, db, joined, now, outbox, late>>
  BY DEF Crash
<1>6. \A k \in Keys : l1'[k] = Absent
  BY DEF Crash
<1> QED
  BY <1>1, <1>2, <1>3, <1>4, <1>5, <1>6, ReleaseKept DEF StorageInv, StorageTypes

LEMMA FailKept ==
    ASSUME StorageInv, NEW w \in Workers, Fail(w)
    PROVE  StorageInv' /\ Grows
<1>1. workers[w].op \in DOMAIN topic /\ ~Completed(workers[w].op)
  BY DEF Fail, StorageInv, WorkerOK
<1>2. ASSUME NEW k \in Keys
      PROVE  (Owed(k) => Owed(k)') /\ (ClearAhead(k) => ClearAhead(k)')
  <2>1. \A v \in Workers : workers'[v].phase = "clearing" => workers'[v] = workers[v]
    BY WorkerFields DEF Fail, StorageInv, StorageTypes
  <2>2. \A r \in outbox : r.op \notin finished => r.op \notin finished'
    BY <1>1 DEF Fail, Completed
  <2>3. topic' = topic /\ outbox' = outbox
    BY DEF Fail
  <2> QED
    BY <2>1, <2>2, <2>3, OwedKept, AheadKept DEF StorageInv
<1>0. PICK W \in SUBSET Workers : W = {w}
  OBVIOUS
<1>3. workers' = [x \in Workers |-> IF x \in W THEN Idle ELSE workers[x]]
  BY <1>0 DEF Fail, StorageInv, StorageTypes
<1>4. l1' = l1 /\ l2' = l2 /\ leaked' = leaked /\ finished' \subseteq DOMAIN topic
  BY <1>1 DEF Fail, caches, StorageInv, StorageTypes
<1>5. UNCHANGED <<topic, db, joined, now, outbox, late>>
  BY DEF Fail
<1> QED
  BY <1>2, <1>3, <1>4, <1>5, ReleaseKept DEF StorageInv, StorageTypes

\* A clear that is owed for a key a finishing worker does not clear is another's,
\* and so is one that is ahead.
LEMMA ByOther ==
    ASSUME StorageInv, NEW w \in Workers, Finished(w), NEW k \in Keys
    PROVE  /\ Owed(k) => Owed(k)' \/ k \in workers[w].keys
           /\ ClearAhead(k) => ClearAhead(k)'
<1>1. /\ workers[w].phase \in {"committed", "clearing"} /\ ClearsOK(w)
      /\ workers[w].op \in DOMAIN topic
  BY DEF Finished, StorageInv, WorkerOK
<1>2. /\ finished' = finished \cup {workers[w].op} /\ topic' = topic /\ outbox' = outbox
      /\ workers' = [workers EXCEPT ![w] = Idle]
  BY DEF Finished
<1>3. ASSUME NEW r \in Unfinished(k), r.op # workers[w].op
      PROVE  r \in Unfinished(k)'
  BY <1>2, <1>3 DEF Unfinished, Changes
<1>4. ASSUME NEW r \in Unfinished(k), r.op = workers[w].op
      PROVE  k \in workers[w].keys
  BY <1>1, <1>4 DEF Unfinished, ClearsOK
<1>5. ASSUME Owed(k), k \notin workers[w].keys
      PROVE  Owed(k)'
  BY <1>3, <1>4, <1>5 DEF Owed
<1>6. ASSUME ClearAhead(k)
      PROVE  ClearAhead(k)'
  <2>1. PICK r \in Unfinished(k) :
          \A v \in Workers : workers[v].op = r.op => workers[v].phase # "clearing"
    BY <1>6 DEF ClearAhead
  <2>2. r.op # workers[w].op
    BY <1>4, <2>1 DEF Finished
  <2>3. r \in Unfinished(k)'
    BY <1>3, <2>2
  <2>4. \A v \in Workers : workers'[v].phase = "clearing" => workers'[v] = workers[v]
    BY <1>2, WorkerFields DEF StorageInv, StorageTypes
  <2> QED
    BY <2>1, <2>3, <2>4 DEF ClearAhead
<1> QED
  BY <1>5, <1>6

\* What the two ends of a clear have in common.
LEMMA FinishedFacts ==
    ASSUME StorageInv, NEW w \in Workers, Finished(w)
    PROVE  /\ UNCHANGED <<topic, db, joined, now, outbox, late>> /\ l1' = l1
           /\ finished' \subseteq DOMAIN topic
           /\ workers[w].keys \subseteq Keys
           /\ workers' = [x \in Workers |-> IF x \in {w} THEN Idle ELSE workers[x]]
           /\ l1 \in [Keys -> Versions \cup {Absent}] /\ l2 \in [Keys -> Versions \cup {Absent}]
<1>1. /\ workers[w].op \in DOMAIN topic /\ workers[w].keys \subseteq Keys
  BY DEF Finished, StorageInv, StorageTypes, WorkerOK, WorkerStates
<1> QED
  BY <1>1 DEF Finished, StorageInv, StorageTypes

LEMMA FinishKept ==
    ASSUME StorageInv, NEW w \in Workers, Finish(w)
    PROVE  StorageInv' /\ Grows
<1>0. Finished(w) /\ leaked' = leaked
  BY DEF Finish
<1>1. PICK W \in SUBSET Workers : W = {w}
  OBVIOUS
<1>2. PICK K : K = workers[w].keys
  OBVIOUS
<1>3. /\ UNCHANGED <<topic, db, joined, now, outbox, late>> /\ l1' = l1
      /\ finished' \subseteq DOMAIN topic
      /\ workers' = [x \in Workers |-> IF x \in W THEN Idle ELSE workers[x]]
      /\ l1 \in [Keys -> Versions \cup {Absent}] /\ l2 \in [Keys -> Versions \cup {Absent}]
  BY <1>0, <1>1, FinishedFacts
<1>4. l2' = [k \in Keys |-> IF k \in K THEN Absent ELSE l2[k]]
  BY <1>2 DEF Finish
<1>5. /\ l2' \in [Keys -> Versions \cup {Absent}]
      /\ \A k \in Keys : l2'[k] \in {Absent, l2[k]} /\ (k \in K => l2'[k] = Absent)
  BY <1>3, <1>4
<1>6. \A k \in Keys : /\ Owed(k) => Owed(k)' \/ k \in K
                      /\ ClearAhead(k) => ClearAhead(k)'
  BY <1>0, <1>2, ByOther
<1>7. leaked' \subseteq Keys
  BY <1>0 DEF StorageInv, StorageTypes
<1> QED
  BY <1>0, <1>3, <1>5, <1>6, <1>7, ReleaseKept

LEMMA FinishClearingL1Kept ==
    ASSUME StorageInv, NEW w \in Workers, FinishClearingL1(w)
    PROVE  StorageInv' /\ Grows
<1>0. Finished(w) /\ l2' = l2 /\ leaked' = leaked \cup workers[w].keys
  BY DEF FinishClearingL1
<1>1. PICK W \in SUBSET Workers : W = {w}
  OBVIOUS
<1>3. /\ UNCHANGED <<topic, db, joined, now, outbox, late>> /\ l1' = l1
      /\ finished' \subseteq DOMAIN topic /\ workers[w].keys \subseteq Keys
      /\ workers' = [x \in Workers |-> IF x \in W THEN Idle ELSE workers[x]]
      /\ l1 \in [Keys -> Versions \cup {Absent}] /\ l2 \in [Keys -> Versions \cup {Absent}]
  BY <1>0, <1>1, FinishedFacts
<1>4. \A k \in Keys \ leaked' : /\ Owed(k) => Owed(k)'
                                /\ ClearAhead(k) => ClearAhead(k)'
  BY <1>0, ByOther
<1>5. leaked \subseteq leaked' /\ leaked' \subseteq Keys
  BY <1>0, <1>3 DEF StorageInv, StorageTypes
<1> QED
  BY <1>0, <1>3, <1>4, <1>5, ReleaseKept

\* The keys a worker deletes from L1 are those of what it changed.
LEMMA ClearL1Kept ==
    ASSUME StorageInv, NEW w \in Workers, ClearL1(w)
    PROVE  StorageInv' /\ Grows
<1>1. PICK K : K = workers[w].keys
  OBVIOUS
<1>2. PICK t : t = [workers[w] EXCEPT !.phase = "clearing"]
  OBVIOUS
<1>3. /\ workers[w].phase = "committed" /\ workers[w] \in WorkerStates
      /\ workers[w].op \in DOMAIN topic /\ ClearsOK(w)
      /\ workers \in [Workers -> WorkerStates]
  BY DEF ClearL1, StorageInv, StorageTypes, WorkerOK
<1>4. /\ t \in WorkerStates /\ t.phase = "clearing" /\ t.op = workers[w].op /\ t.keys = K
  BY <1>1, <1>2, <1>3 DEF WorkerStates, Phases
<1>5. /\ UNCHANGED <<topic, finished, messages, profile, joined, now, leaked, outbox>>
      /\ nextId' = nextId /\ l2' = l2 /\ late' = late
      /\ workers' = [workers EXCEPT ![w] = t]
      /\ l1' = [k \in Keys |-> IF k \in K THEN Absent ELSE l1[k]]
  BY <1>1, <1>2, <1>3 DEF ClearL1, db
<1>6. /\ late' \subseteq DOMAIN topic /\ LateIds \subseteq LateIds'
      /\ nextId' \in 1 .. MaxId + 1 /\ nextId <= nextId'
      /\ l2' \in [Keys -> Versions \cup {Absent}]
      /\ l1 \in [Keys -> Versions \cup {Absent}]
  BY <1>5 DEF StorageInv, StorageTypes, LateIds
<1>7. /\ l1' \in [Keys -> Versions \cup {Absent}]
      /\ \A k \in Keys : l1'[k] \in {Absent, l1[k]} /\ (k \in K => l1'[k] = Absent)
  BY <1>5, <1>6
<1>8. \A v \in Workers : v = w \/ workers[v].op # t.op
  BY <1>3, <1>4 DEF StorageInv, WorkersApart
<1>9. WorkerOK(w)'
  <2>1. workers'[w] = t
    BY <1>3, <1>5
  <2>2. ClearsOK(w)'
    BY <1>1, <1>3, <1>4, <1>5, <2>1 DEF ClearsOK, Completed, Changes
  <2> QED
    BY <1>3, <1>4, <1>5, <2>1, <2>2 DEF WorkerOK
<1>10. /\ StorageTypes' /\ TableOK' /\ OutboxOK'
       /\ \A v \in Workers : WorkerOK(v)'
       /\ WorkersApart' /\ Grows
       /\ workers'[w] = t
       /\ \A v \in Workers : v # w => workers'[v] = workers[v]
       /\ \A k : Current(k)' = Current(k)
  BY <1>4, <1>5, <1>6, <1>7, <1>8, <1>9, MoveKept
<1>11. ASSUME NEW k \in Keys
       PROVE  /\ Owed(k) => Owed(k)'
              /\ ClearAhead(k) => ClearAhead(k)' \/ k \in K
  <2>1. Unfinished(k)' = Unfinished(k)
    BY <1>5 DEF Unfinished, Changes
  <2>2. ASSUME ClearAhead(k), k \notin K
        PROVE  ClearAhead(k)'
    <3>1. PICK r \in Unfinished(k) :
            \A v \in Workers : workers[v].op = r.op => workers[v].phase # "clearing"
      BY <2>2 DEF ClearAhead
    <3>2. r.op # workers[w].op
      BY <1>1, <1>3, <2>2 DEF ClearsOK, Unfinished
    <3> QED
      BY <1>4, <1>10, <2>1, <3>1, <3>2 DEF ClearAhead
  <2> QED
    BY <2>1, <2>2 DEF Owed
<1>12. L1OK' /\ L2OK'
  BY <1>5, <1>7, <1>10, <1>11, CachesKept DEF StorageInv
<1> QED
  BY <1>10, <1>12 DEF StorageInv

LEMMA ReplayKept ==
    ASSUME StorageInv, NEW w \in Workers, NEW o, Replay(w, o)
    PROVE  StorageInv' /\ Grows
<1> DEFINE K == MutationCacheKeys(topic[o])
           t == Committed(o, K)
<1>1. /\ o \in DOMAIN topic /\ o \in Nat /\ topic[o] \in Requests
      /\ Completed(o) /\ \A v \in Workers : workers[v].op # o
      /\ workers' = [workers EXCEPT ![w] = t]
  BY DEF Replay, StorageInv, StorageTypes, Committed
<1>2. K \subseteq Keys /\ \A k \in Keys : Changes(topic[o], k) => k \in K
  <2>1. ASSUME NEW q \in Requests
        PROVE  /\ MutationCacheKeys(q) \subseteq Keys
               /\ \A k \in Keys : Changes(q, k) => k \in MutationCacheKeys(q)
    <3>1. CASE q.kind = "recall"
      BY <3>1, RequestFields DEF MutationCacheKeys, Changes, Keys
    <3>2. CASE q.kind = "update"
      BY <3>2, RequestFields DEF MutationCacheKeys, Changes, Keys
    <3>3. CASE q.kind \notin {"recall", "update"}
      BY <3>3, RequestFields DEF MutationCacheKeys, Changes, Keys
    <3> QED
      BY <3>1, <3>2, <3>3
  <2> QED
    BY <1>1, <2>1
<1> HIDE DEF K
<1>3. /\ t \in WorkerStates /\ t.phase = "committed" /\ t.op = o /\ t.keys = K
  BY <1>1, <1>2, WorkerFields
<1> HIDE DEF t
<1>4. UNCHANGED <<topic, finished, messages, profile, joined, now, caches, outbox, late>>
      /\ nextId' = nextId
  BY DEF Replay, db
<1>5. WorkerOK(w)'
  <2>1. workers'[w] = t
    BY <1>1 DEF StorageInv, StorageTypes
  <2>2. Completed(o)'
    BY <1>1, <1>4 DEF Completed
  <2>3. ClearsOK(w)'
    BY <1>2, <1>3, <1>4, <2>1, <2>2 DEF ClearsOK, Changes
  <2> QED
    BY <1>1, <1>3, <1>4, <2>1, <2>3 DEF WorkerOK
<1>6. /\ nextId' \in 1 .. MaxId + 1 /\ nextId <= nextId'
      /\ late' \subseteq DOMAIN topic /\ LateIds \subseteq LateIds'
  BY <1>4 DEF StorageInv, StorageTypes, LateIds
<1> QED
  BY <1>1, <1>3, <1>4, <1>5, <1>6, StartKept

LEMMA StampMessageKept ==
    ASSUME StorageInv, NEW w \in Workers, NEW o, StampMessage(w, o)
    PROVE  StorageInv' /\ Grows
<1>1. /\ o \in DOMAIN topic /\ o \in Nat /\ topic[o].kind = "store" /\ ~Completed(o)
      /\ \A v \in Workers : workers[v].op # o
  <2>1. Take(w, o, {"store"})
    BY DEF StampMessage
  <2> QED
    BY <2>1, TakeFacts
<1>2. PICK t : t = [Idle EXCEPT !.phase = "stamped", !.op = o, !.at = now]
  OBVIOUS
<1>3. now \in Times /\ nextId \in 1 .. MaxId + 1 /\ workers \in [Workers -> WorkerStates]
  BY DEF StorageInv, StorageTypes
<1>4. t \in WorkerStates /\ t.phase = "stamped" /\ t.op = o /\ t.at = now /\ ~t.created
  <2>1. 0 \in 0 .. MaxId
    OBVIOUS
  <2> QED
    BY <1>1, <1>2, <1>3, <2>1 DEF Idle, WorkerStates, Phases
<1>5. /\ UNCHANGED <<topic, finished, messages, profile, joined, now, caches, outbox>>
      /\ nextId' = nextId /\ late' = late \ {o}
      /\ workers' = [workers EXCEPT ![w] = t]
  BY <1>2 DEF StampMessage, db
<1>6. /\ late' \subseteq DOMAIN topic /\ LateIds \subseteq LateIds'
      /\ nextId' \in 1 .. MaxId + 1 /\ nextId <= nextId'
  <2>1. \A r \in outbox : r.op # o
    BY <1>1 DEF Completed
  <2> QED
    BY <1>3, <1>5, <2>1 DEF StorageInv, StorageTypes, LateIds
<1>7. WorkerOK(w)'
  <2>1. workers'[w] = t
    BY <1>3, <1>5
  <2>2. ~Completed(o)' /\ now <= now'
    BY <1>1, <1>3, <1>5 DEF Completed, Times
  <2> QED
    BY <1>1, <1>4, <1>5, <2>1, <2>2 DEF WorkerOK
<1> QED
  BY <1>1, <1>4, <1>5, <1>6, <1>7, StartKept

LEMMA StoreNewMessageKept ==
    ASSUME StorageInv, NEW w \in Workers, StoreNewMessage(w)
    PROVE  StorageInv' /\ Grows
<1> DEFINE x == workers[w]
           q == topic[x.op]
           Found(i) == [x EXCEPT !.phase = "inserted", !.id = i]
           New == [x EXCEPT !.phase = "inserted", !.id = nextId, !.created = TRUE]
<1>1. /\ x.phase = "stamped" /\ x.op \in DOMAIN topic /\ q.kind = "store"
      /\ ~Completed(x.op) /\ x.at <= now
      /\ x \in WorkerStates
      /\ \A v \in Workers : v = w \/ workers[v].op # x.op
  BY DEF StoreNewMessage, StorageInv, StorageTypes, WorkerOK, WorkersApart
<1>2. UNCHANGED <<topic, finished, messages, profile, joined, now, caches, outbox, late>>
  BY DEF StoreNewMessage
<1>3. /\ Stored' = Stored /\ ~Completed(x.op)
      /\ outbox' = outbox /\ late' \subseteq DOMAIN topic /\ LateIds \subseteq LateIds'
  BY <1>1, <1>2 DEF Stored, StorageInv, StorageTypes, LateIds
<1>4. /\ nextId \in Nat /\ nextId \in 1 .. MaxId + 1 /\ now \in Times
      /\ workers \in [Workers -> WorkerStates]
  BY DEF StorageInv, StorageTypes
<1>5. ASSUME NEW t, t.op = x.op, workers'[w] = t
      PROVE  ~Completed(workers[w].op)' /\ topic'[t.op] = q
  BY <1>2, <1>3, <1>5 DEF Completed
<1>6. ASSUME NEW i \in Existing(q), workers' = [workers EXCEPT ![w] = Found(i)],
             UNCHANGED nextId
      PROVE  StorageInv' /\ Grows
  <2>1. PICK t : t = Found(i)
    OBVIOUS
  <2>2. i \in 0 .. MaxId
    BY DEF Existing, Stored, Ids
  <2>3. ~x.created
    BY <1>1 DEF StorageInv, WorkerOK
  <2>4. /\ t \in WorkerStates /\ t.phase = "inserted" /\ t.op = x.op /\ t.id = i
        /\ t.created = FALSE /\ t.at = x.at
    BY <1>1, <2>1, <2>2, <2>3 DEF WorkerStates, Phases
  <2>5. workers' = [workers EXCEPT ![w] = t] /\ workers'[w] = t
    BY <1>4, <1>6, <2>1
  <2>6. WorkerOK(w)'
    <3>1. i \in Existing(topic[x.op])'
      BY <1>2, <1>3, <1>6, <2>4, <2>5 DEF Existing
    <3>2. InsertOK(w)'
      BY <1>2, <2>4, <2>5, <3>1 DEF InsertOK
    <3> QED
      BY <1>1, <1>2, <1>5, <2>4, <2>5, <3>2 DEF WorkerOK
  <2>7. nextId' \in 1 .. MaxId + 1 /\ nextId <= nextId'
    BY <1>4, <1>6
  <2> QED
    BY <1>1, <1>2, <1>3, <2>4, <2>5, <2>6, <2>7, StartKept
<1>7. CASE /\ Existing(q) = {} /\ nextId \in Ids
           /\ workers' = [workers EXCEPT ![w] = New]
           /\ nextId' = nextId + 1
  <2>1. PICK t : t = New
    OBVIOUS
  <2>2. nextId \in 0 .. MaxId
    BY <1>7 DEF Ids
  <2>3. /\ t \in WorkerStates /\ t.phase = "inserted" /\ t.op = x.op /\ t.id = nextId
        /\ t.created = TRUE /\ t.at = x.at
    BY <1>1, <2>1, <2>2 DEF WorkerStates, Phases
  <2>4. workers' = [workers EXCEPT ![w] = t] /\ workers'[w] = t
    BY <1>4, <1>7, <2>1
  <2>5. WorkerOK(w)'
    <3>1. messages[nextId] = NoRow
      BY <1>4, <1>7 DEF StorageInv, TableOK, Stored, Ids
    <3>2. Existing(topic[x.op])' = {}
      BY <1>2, <1>3, <1>7, <2>3, <2>4 DEF Existing
    <3>3. nextId < nextId'
      BY <1>4, <1>7
    <3>4. InsertOK(w)'
      BY <1>2, <1>7, <2>3, <2>4, <3>1, <3>2, <3>3 DEF InsertOK
    <3> QED
      BY <1>1, <1>2, <1>5, <2>3, <2>4, <3>4 DEF WorkerOK
  <2>6. ASSUME NEW v \in Workers, Inserts(v)
        PROVE  /\ workers[v].id # t.id
               /\ \/ topic[workers[v].op].user # topic[t.op].user
                  \/ topic[workers[v].op].client # topic[t.op].client
    <3>1. workers[v].id \in Nat /\ workers[v].id < nextId
      BY <1>4, <2>6 DEF StorageInv, WorkerOK, InsertOK, Inserts, Ids
    <3>2. ~Inserting(q)
      BY DEF StoreNewMessage
    <3> QED
      BY <1>4, <2>3, <2>6, <3>1, <3>2 DEF Inserting, Inserts
  <2>7. nextId' \in 1 .. MaxId + 1 /\ nextId <= nextId'
    BY <1>4, <1>7 DEF Ids
  <2> QED
    BY <1>1, <1>2, <1>3, <2>3, <2>4, <2>5, <2>6, <2>7, StartKept
<1> QED
  BY <1>6, <1>7 DEF StoreNewMessage

LEMMA CommitStoreKept ==
    ASSUME StorageInv, NEW w \in Workers, CommitStore(w)
    PROVE  StorageInv' /\ Grows
<1> DEFINE t == workers[w]
           q == topic[t.op]
           row == [from |-> q.user, to |-> q.to, client |-> q.client, at |-> t.at,
                   recalled |-> FALSE]
<1>0. PICK rsp : rsp = Response(t.op, "ok", t.id, t.created)
  OBVIOUS
<1>1. /\ t.phase = "inserted" /\ t.op \in DOMAIN topic /\ q.kind = "store"
      /\ ~Completed(t.op) /\ InsertOK(w) /\ t.at <= now
  BY DEF CommitStore, StorageInv, WorkerOK
<1>2. /\ t \in WorkerStates /\ q \in Requests
      /\ messages \in [Ids -> Rows \cup {NoRow}] /\ workers \in [Workers -> WorkerStates]
  BY <1>1 DEF StorageInv, StorageTypes
<1>3. /\ UNCHANGED <<topic, finished, nextId, profile, joined, now, l1, l2, leaked, late>>
      /\ CommitWith(w, rsp, {})
  BY <1>0 DEF CommitStore, caches
<1>4. /\ rsp.op = t.op /\ rsp.kind = "store" /\ rsp.user = q.user /\ rsp.topic = q.topic
      /\ rsp.result = "ok" /\ rsp.id = t.id /\ rsp.client = q.client
  BY <1>0, <1>1, ResponseFields
<1>5. row \in Rows /\ row.recalled = FALSE /\ row.from = q.user /\ row.client = q.client
      /\ row.at = t.at
  <2>1. q.user \in Users /\ q.to \in Users \cup {Group} /\ q.client \in Clients
    BY <1>1, <1>2, RequestFields
  <2>2. t.at \in Times
    BY <1>2 DEF WorkerStates
  <2> QED
    BY <2>1, <2>2 DEF Rows
<1>6. /\ t.created => messages' = [messages EXCEPT ![t.id] = row]
      /\ ~t.created => messages' = messages
  BY DEF CommitStore
<1>7. /\ t.created => /\ t.id \in Ids /\ t.id < nextId
                      /\ messages[t.id] = NoRow /\ Existing(q) = {}
      /\ ~t.created => t.id \in Existing(q)
  BY <1>1 DEF InsertOK
<1> HIDE DEF row
<1>8. /\ \A i \in Stored : i \in Stored' /\ messages'[i] = messages[i]
      /\ t.id \in Stored' /\ t.id \in Existing(topic[rsp.op])'
      /\ \A i \in Stored' : i \in Stored \/ (t.created /\ i = t.id /\ messages'[i] = row)
      /\ messages' \in [Ids -> Rows \cup {NoRow}]
  <2>1. CASE t.created
    <3>1. /\ messages' \in [Ids -> Rows \cup {NoRow}]
          /\ messages'[t.id] = row
          /\ \A i \in Ids : i # t.id => messages'[i] = messages[i]
      BY <1>2, <1>5, <1>6, <1>7, <2>1
    <3>2. t.id \in Stored' /\ t.id \notin Stored
      BY <1>5, <1>7, <2>1, <3>1 DEF Stored
    <3>3. t.id \in Existing(topic[rsp.op])'
      BY <1>3, <1>4, <1>5, <3>1, <3>2 DEF Existing
    <3> QED
      BY <2>1, <3>1, <3>2, <3>3 DEF Stored
  <2>2. CASE ~t.created
    <3>1. Stored' = Stored /\ messages' = messages
      BY <1>6, <2>2 DEF Stored
    <3>2. t.id \in Existing(topic[rsp.op])'
      BY <1>3, <1>4, <1>7, <2>2, <3>1 DEF Existing
    <3> QED
      BY <1>2, <1>7, <2>2, <3>1, <3>2 DEF Existing
  <2> QED
    BY <2>1, <2>2
<1>9. Grows
  <2>1. outbox \subseteq outbox'
    BY <1>3 DEF CommitWith
  <2>2. nextId \in Nat /\ now \in Nat
    BY DEF StorageInv, StorageTypes, Times
  <2> QED
    BY <1>3, <1>8, <2>1, <2>2 DEF Grows, LateIds
<1>10. ResponseOK(rsp)'
  BY <1>1, <1>3, <1>4, <1>8 DEF ResponseOK
<1>11. ASSUME NEW v \in Workers, v # w, Inserts(v)
       PROVE  /\ messages'[workers[v].id] = NoRow
              /\ Existing(topic[workers[v].op])' = {}
  <2>1. /\ workers[v].id \in Ids /\ messages[workers[v].id] = NoRow
        /\ Existing(topic[workers[v].op]) = {}
    BY <1>11 DEF StorageInv, WorkerOK, InsertOK, Inserts
  <2>2. t.created => /\ workers[v].id # t.id
                     /\ \/ topic[workers[v].op].user # q.user
                        \/ topic[workers[v].op].client # q.client
    BY <1>1, <1>11 DEF StorageInv, WorkersApart, Inserts
  <2>3. workers'[v] = workers[v]
    BY <1>2, <1>3, <1>11 DEF CommitWith
  <2>4. messages'[workers[v].id] = NoRow
    BY <1>8, <2>1, <2>2 DEF Stored
  <2>5. Existing(topic[workers[v].op])' = {}
    BY <1>3, <1>5, <1>8, <2>1, <2>2, <2>3 DEF Existing
  <2> QED
    BY <2>4, <2>5
<1>12. t.op \in Nat /\ \A k : ~Changes(q, k)
  BY <1>1, <1>2 DEF WorkerStates, Changes
<1>13. \A v \in Workers : v = w \/ workers[v].phase = "idle" \/ workers[v].op # t.op
  BY <1>1 DEF StorageInv, WorkersApart
<1>14. /\ OutboxOK' /\ (\A v \in Workers : WorkerOK(v)') /\ WorkersApart'
       /\ workers' \in [Workers -> WorkerStates]
       /\ \A v \in Workers : v # w => workers'[v] = workers[v]
       /\ workers'[w].phase = "committed"
  <2>1. ~Completed(rsp.op) /\ rsp.op \in Nat
    BY <1>1, <1>4, <1>12
  <2>2. topic' = topic /\ \A k : ~Changes(topic[rsp.op], k)
    BY <1>3, <1>4, <1>12
  <2> QED
    BY <1>3, <1>4, <1>9, <1>10, <1>11, <1>13, <2>1, <2>2, CommitKept
<1>15. StorageTypes'
  BY <1>3, <1>8, <1>14 DEF StorageInv, StorageTypes
<1>16. TableOK'
  <2>1. \A i \in Stored' : i < nextId' /\ messages'[i].at <= now'
    BY <1>1, <1>3, <1>5, <1>7, <1>8 DEF StorageInv, TableOK
  <2>2. ASSUME NEW i \in Stored', NEW j \in Stored', messages'[i].from = messages'[j].from,
               messages'[i].client = messages'[j].client
        PROVE  i = j
    <3>1. t.created => \A x \in Stored : messages[x].from # q.user \/ messages[x].client # q.client
      BY <1>7 DEF Existing
    <3> QED
      BY <1>5, <1>8, <2>2, <3>1 DEF StorageInv, TableOK
  <2> QED
    BY <2>1, <2>2 DEF TableOK
<1>17. L1OK' /\ L2OK'
  <2>2. \A v \in Workers : workers'[v].phase = "clearing" => workers'[v] = workers[v]
    BY <1>14
  <2>1. ASSUME NEW k \in Keys
        PROVE  /\ Owed(k) => Owed(k)'
               /\ ClearAhead(k) => ClearAhead(k)'
               /\ Current(k)' = Current(k)
    <3>1. (Owed(k) => Owed(k)') /\ (ClearAhead(k) => ClearAhead(k)')
      BY <1>3, <1>9, <2>2, OwedKept, AheadKept DEF StorageInv, Grows
    <3>2. Current(k)' = Current(k)
      BY <1>3, <1>5, <1>8 DEF Current
    <3> QED
      BY <3>1, <3>2
  <2> QED
    BY <1>3, <2>1, CachesKept DEF StorageInv
<1> QED
  BY <1>9, <1>14, <1>15, <1>16, <1>17 DEF StorageInv

\* A change of a row leaves the clear of its key ahead.
LEMMA ChangeOwes ==
    ASSUME StorageInv, NEW w \in Workers, NEW rsp, NEW K, CommitWith(w, rsp, K),
           UNCHANGED <<topic, finished>>, \A v \in Workers : workers[v].op # rsp.op,
           rsp.op \notin finished, rsp.result = "ok", NEW k, Changes(topic[rsp.op], k)
    PROVE  ClearAhead(k)'
<1>1. rsp \in Unfinished(k)'
  BY DEF Unfinished, Changes, CommitWith
<1>2. PICK t : t = [Idle EXCEPT !.phase = "committed", !.op = rsp.op, !.keys = K]
  OBVIOUS
<1>3. t.phase = "committed" /\ workers' = [workers EXCEPT ![w] = t]
  BY <1>2 DEF Idle, CommitWith
<1>4. \A v \in Workers : workers'[v] = IF v = w THEN t ELSE workers[v]
  BY <1>3 DEF StorageInv, StorageTypes
<1> QED
  BY <1>1, <1>3, <1>4 DEF ClearAhead

LEMMA RecallMessageKept ==
    ASSUME StorageInv, NEW w \in Workers, NEW o, RecallMessage(w, o)
    PROVE  StorageInv' /\ Grows
<1> DEFINE q == topic[o]
           s == RecallStatus(q)
           K == IF s = "ok" THEN {<<"message", q.id>>} ELSE {}
<1>0. PICK rsp : rsp = Response(o, s, q.id, FALSE)
  OBVIOUS
<1>1. /\ o \in DOMAIN topic /\ o \in Nat /\ q.kind = "recall" /\ ~Completed(o)
      /\ o \notin finished /\ q \in Requests
      /\ \A v \in Workers : workers[v].op # o
  <2>1. Take(w, o, {"recall"})
    BY DEF RecallMessage
  <2> QED
    BY <2>1, TakeFacts
<1>2. /\ q.id \in Ids /\ K \subseteq Keys
      /\ \A k : Changes(q, k) <=> k = <<"message", q.id>>
  BY <1>1, RequestFields DEF Keys, Changes
<1>3. /\ UNCHANGED <<topic, finished, nextId, profile, joined, now, l1, l2, leaked, late>>
      /\ CommitWith(w, rsp, K)
      /\ messages' = IF s = "ok" THEN [messages EXCEPT ![q.id].recalled = TRUE] ELSE messages
  BY <1>0 DEF RecallMessage, caches
<1>4. /\ rsp.op = o /\ rsp.kind = "recall" /\ rsp.user = q.user /\ rsp.topic = q.topic
      /\ rsp.result = s /\ rsp.id = q.id
  BY <1>0, <1>1 DEF Response
<1>5. messages \in [Ids -> Rows \cup {NoRow}] /\ workers \in [Workers -> WorkerStates]
  BY DEF StorageInv, StorageTypes
<1>6. s = "ok" => q.id \in Stored
  BY DEF RecallStatus
<1>7. /\ messages' \in [Ids -> Rows \cup {NoRow}] /\ Stored' = Stored
      /\ \A i \in Stored : /\ messages'[i].from = messages[i].from
                           /\ messages'[i].to = messages[i].to
                           /\ messages'[i].client = messages[i].client
                           /\ messages'[i].at = messages[i].at
      /\ \A i \in Ids : i # q.id \/ s # "ok" => messages'[i] = messages[i]
  <2>1. CASE s = "ok"
    <3>1. PICK m \in Rows : m = messages[q.id]
      BY <1>5, <1>6, <2>1 DEF Stored
    <3> DEFINE n == [m EXCEPT !.recalled = TRUE]
    <3>2. /\ n \in Rows /\ n.from = m.from /\ n.to = m.to /\ n.client = m.client
          /\ n.at = m.at
      BY DEF Rows
    <3>3. messages' = [messages EXCEPT ![q.id] = n]
      BY <1>2, <1>3, <1>5, <2>1, <3>1
    <3> HIDE DEF n
    <3>4. /\ messages' \in [Ids -> Rows \cup {NoRow}] /\ messages'[q.id] = n
          /\ \A i \in Ids : i # q.id => messages'[i] = messages[i]
      BY <1>2, <1>5, <3>2, <3>3
    <3>5. Stored' = Stored
      BY <1>6, <2>1, <3>2, <3>4 DEF Stored
    <3> QED
      BY <2>1, <3>1, <3>2, <3>4, <3>5 DEF Stored
  <2>2. CASE s # "ok"
    BY <1>3, <1>5, <2>2 DEF Stored
  <2> QED
    BY <2>1, <2>2
<1> HIDE DEF s
<1>8. Grows
  <2>1. outbox \subseteq outbox'
    BY <1>3 DEF CommitWith
  <2>2. nextId \in Nat /\ now \in Nat
    BY DEF StorageInv, StorageTypes, Times
  <2> QED
    BY <1>3, <1>7, <2>1, <2>2 DEF Grows, LateIds
<1>9. ResponseOK(rsp)'
  BY <1>1, <1>3, <1>4, <1>6, <1>7 DEF ResponseOK
<1>10. ASSUME NEW v \in Workers, v # w, Inserts(v)
       PROVE  /\ messages'[workers[v].id] = NoRow
              /\ Existing(topic[workers[v].op])' = {}
  <2>1. /\ workers[v].id \in Ids /\ messages[workers[v].id] = NoRow
        /\ Existing(topic[workers[v].op]) = {}
    BY <1>10 DEF StorageInv, WorkerOK, InsertOK, Inserts
  <2>2. workers'[v] = workers[v]
    BY <1>3, <1>5, <1>10 DEF CommitWith
  <2>3. messages'[workers[v].id] = NoRow
    BY <1>6, <1>7, <2>1 DEF Stored
  <2>4. Existing(topic[workers[v].op])' = {}
    BY <1>3, <1>7, <2>1, <2>2 DEF Existing
  <2> QED
    BY <2>3, <2>4
<1>11. /\ OutboxOK' /\ (\A v \in Workers : WorkerOK(v)') /\ WorkersApart'
       /\ workers' \in [Workers -> WorkerStates]
       /\ \A v \in Workers : v # w => workers'[v] = workers[v]
       /\ workers'[w].phase = "committed"
  <2>1. rsp.result = "ok" => \A k \in Keys : Changes(topic[rsp.op], k) => k \in K
    BY <1>2, <1>4
  <2>2. /\ ~Completed(rsp.op) /\ rsp.op \in Nat /\ topic' = topic
        /\ \A v \in Workers : workers[v].op # rsp.op
    BY <1>1, <1>3, <1>4
  <2> HIDE DEF K
  <2> QED
    BY <1>2, <1>3, <1>8, <1>9, <1>10, <2>1, <2>2, CommitKept
<1>12. StorageTypes'
  BY <1>3, <1>7, <1>11 DEF StorageInv, StorageTypes
<1>13. TableOK'
  BY <1>3, <1>7 DEF StorageInv, TableOK
<1>14. L1OK' /\ L2OK'
  <2>2. \A v \in Workers : workers'[v].phase = "clearing" => workers'[v] = workers[v]
    BY <1>11
  <2>1. ASSUME NEW k \in Keys
        PROVE  /\ Owed(k) => Owed(k)'
               /\ ClearAhead(k) => ClearAhead(k)'
               /\ Current(k)' = Current(k) \/ ClearAhead(k)'
    <3>1. (Owed(k) => Owed(k)') /\ (ClearAhead(k) => ClearAhead(k)')
      BY <1>3, <1>8, <2>2, OwedKept, AheadKept DEF StorageInv, Grows
    <3>2. CASE s = "ok" /\ k = <<"message", q.id>>
      <4>1. Changes(topic[rsp.op], k)
        BY <1>2, <1>4, <3>2
      <4>2. ClearAhead(k)'
        BY <1>1, <1>3, <1>4, <3>2, <4>1, ChangeOwes
      <4> QED
        BY <3>1, <4>2
    <3>3. CASE s # "ok" \/ k # <<"message", q.id>>
      <4>1. k[1] # "user" => k[2] \in Ids /\ k = <<"message", k[2]>>
        BY DEF Keys
      <4>2. k[1] # "user" => messages'[k[2]] = messages[k[2]]
        BY <1>7, <3>3, <4>1
      <4>3. Current(k)' = Current(k)
        BY <1>3, <1>7, <4>2 DEF Current
      <4> QED
        BY <3>1, <4>3
    <3> QED
      BY <3>1, <3>2, <3>3
  <2> QED
    BY <1>3, <2>1, CachesKept DEF StorageInv
<1> QED
  BY <1>8, <1>11, <1>12, <1>13, <1>14 DEF StorageInv

LEMMA UpdateUserKept ==
    ASSUME StorageInv, NEW w \in Workers, NEW o, UpdateUser(w, o)
    PROVE  StorageInv' /\ Grows
<1> DEFINE q == topic[o]
           u == q.about
<1>0. PICK rsp : rsp = Response(o, "ok", 0, FALSE)
  OBVIOUS
<1>1. /\ o \in DOMAIN topic /\ o \in Nat /\ q.kind = "update" /\ ~Completed(o)
      /\ o \notin finished /\ q \in Requests
      /\ \A v \in Workers : workers[v].op # o
  <2>1. Take(w, o, {"update"})
    BY DEF UpdateUser
  <2> QED
    BY <2>1, TakeFacts
<1>2. /\ u \in Users /\ {<<"user", u>>} \in SUBSET Keys
      /\ \A k : Changes(q, k) <=> k = <<"user", u>>
  BY <1>1, RequestFields DEF Keys, Changes
<1>3. /\ UNCHANGED <<topic, finished, messages, nextId, joined, now, l1, l2, leaked, late>>
      /\ CommitWith(w, rsp, {<<"user", u>>})
      /\ profile[u] < MaxVersion /\ profile' = [profile EXCEPT ![u] = @ + 1]
  BY <1>0 DEF UpdateUser, caches
<1>4. /\ rsp.op = o /\ rsp.kind = "update" /\ rsp.user = q.user /\ rsp.topic = q.topic
      /\ rsp.result = "ok"
  BY <1>0, <1>1 DEF Response
<1>5. workers \in [Workers -> WorkerStates] /\ profile \in [Users -> Versions]
  BY DEF StorageInv, StorageTypes
<1>6. /\ profile' \in [Users -> Versions] /\ Stored' = Stored
      /\ \A x \in Users : x # u => profile'[x] = profile[x]
  <2>1. profile[u] + 1 \in Versions
    BY <1>2, <1>3, <1>5 DEF Versions
  <2> QED
    BY <1>2, <1>3, <1>5, <2>1 DEF Stored
<1>7. Grows
  <2>1. outbox \subseteq outbox'
    BY <1>3 DEF CommitWith
  <2>2. nextId \in Nat /\ now \in Nat
    BY DEF StorageInv, StorageTypes, Times
  <2> QED
    BY <1>3, <1>6, <2>1, <2>2 DEF Grows, LateIds
<1>8. ResponseOK(rsp)'
  BY <1>1, <1>3, <1>4 DEF ResponseOK
<1>9. ASSUME NEW v \in Workers, v # w, Inserts(v)
      PROVE  /\ messages'[workers[v].id] = NoRow
             /\ Existing(topic[workers[v].op])' = {}
  <2>1. /\ messages[workers[v].id] = NoRow
        /\ Existing(topic[workers[v].op]) = {}
    BY <1>9 DEF StorageInv, WorkerOK, InsertOK, Inserts
  <2>2. workers'[v] = workers[v]
    BY <1>3, <1>5, <1>9 DEF CommitWith
  <2> QED
    BY <1>3, <1>6, <2>1, <2>2 DEF Existing
<1>10. /\ OutboxOK' /\ (\A v \in Workers : WorkerOK(v)') /\ WorkersApart'
       /\ workers' \in [Workers -> WorkerStates]
       /\ \A v \in Workers : v # w => workers'[v] = workers[v]
       /\ workers'[w].phase = "committed"
  <2>1. \A k \in Keys : Changes(topic[rsp.op], k) => k \in {<<"user", u>>}
    BY <1>2, <1>4
  <2>2. /\ ~Completed(rsp.op) /\ rsp.op \in Nat /\ topic' = topic
        /\ \A v \in Workers : workers[v].op # rsp.op
    BY <1>1, <1>3, <1>4
  <2> QED
    BY <1>2, <1>3, <1>7, <1>8, <1>9, <2>1, <2>2, CommitKept
<1>11. StorageTypes'
  BY <1>3, <1>6, <1>10 DEF StorageInv, StorageTypes
<1>12. TableOK'
  BY <1>3, <1>6 DEF StorageInv, TableOK
<1>13. L1OK' /\ L2OK'
  <2>2. \A v \in Workers : workers'[v].phase = "clearing" => workers'[v] = workers[v]
    BY <1>10
  <2>1. ASSUME NEW k \in Keys
        PROVE  /\ Owed(k) => Owed(k)'
               /\ ClearAhead(k) => ClearAhead(k)'
               /\ Current(k)' = Current(k) \/ ClearAhead(k)'
    <3>1. (Owed(k) => Owed(k)') /\ (ClearAhead(k) => ClearAhead(k)')
      BY <1>3, <1>7, <2>2, OwedKept, AheadKept DEF StorageInv, Grows
    <3>2. CASE k = <<"user", u>>
      <4>1. Changes(topic[rsp.op], k)
        BY <1>2, <1>4, <3>2
      <4>2. ClearAhead(k)'
        BY <1>1, <1>3, <1>4, <3>2, <4>1, ChangeOwes
      <4> QED
        BY <3>1, <4>2
    <3>3. CASE k # <<"user", u>>
      <4>1. k[1] = "user" => k[2] \in Users /\ k = <<"user", k[2]>>
        BY DEF Keys
      <4>2. k[1] = "user" => profile'[k[2]] = profile[k[2]]
        BY <1>6, <3>3, <4>1
      <4>3. Current(k)' = Current(k)
        BY <1>3, <1>6, <4>2 DEF Current
      <4> QED
        BY <3>1, <4>3
    <3> QED
      BY <3>1, <3>2, <3>3
  <2> QED
    BY <1>3, <2>1, CachesKept DEF StorageInv
<1> QED
  BY <1>7, <1>10, <1>11, <1>12, <1>13 DEF StorageInv

\* The version of a row is a version, and an answer answers its operation.
LEMMA CurrentVersion ==
    ASSUME StorageTypes, NEW k \in Keys
    PROVE  Current(k) \in Versions
<1>1. 0 \in Versions /\ 1 \in Versions
  BY DEF Versions
<1>2. CASE k[1] = "user"
  <2>1. k[2] \in Users
    BY <1>2 DEF Keys
  <2> QED
    BY <1>2, <2>1 DEF Current, StorageTypes
<1>3. CASE k[1] # "user"
  BY <1>1, <1>3 DEF Current
<1> QED
  BY <1>2, <1>3

LEMMA AnswerFields ==
    ASSUME NEW o, NEW v
    PROVE  LET r == Answer(o, v) IN
           /\ r.op = o /\ r.kind = topic[o].kind /\ r.user = topic[o].user
           /\ r.topic = topic[o].topic
BY DEF Answer, Response

LEMMA QueryKept ==
    ASSUME StorageInv, NEW w \in Workers, NEW o, Query(w, o)
    PROVE  StorageInv' /\ Grows
<1> DEFINE q == topic[o]
<1>1. /\ o \in DOMAIN topic /\ o \in Nat /\ q.kind \in {"message", "user"} /\ ~Completed(o)
      /\ o \notin finished /\ q \in Requests
      /\ \A v \in Workers : workers[v].op # o
  <2>1. Take(w, o, {"message", "user"})
    BY DEF Query
  <2> QED
    BY <2>1, TakeFacts
<1>2. PICK k \in Keys : k = Key(q)
  BY <1>1, QueryKey
<1>3. /\ UNCHANGED <<topic, finished, db, joined, now, l1, l2, leaked, late>>
      /\ Current(k)' = Current(k)
  BY DEF Query, caches, db, Current, Stored
<1>4. ASSUME NEW rsp, CommitWith(w, rsp, {}), rsp.op = o, rsp.kind = q.kind,
             rsp.user = q.user, rsp.topic = q.topic
      PROVE  StorageInv' /\ Grows
  <2>1. /\ l1 \in [Keys -> Versions \cup {Absent}] /\ l2 \in [Keys -> Versions \cup {Absent}]
        /\ late \subseteq DOMAIN topic /\ leaked \subseteq Keys
    BY DEF StorageInv, StorageTypes
  <2> QED
    BY <1>1, <1>3, <1>4, <2>1, AnswerKept
<1>5. ASSUME NEW v \in Versions, NEW b \in BOOLEAN,
             workers' = [workers EXCEPT ![w] = Loaded(o, v, b)], outbox' = outbox
      PROVE  StorageInv' /\ Grows
  <2> DEFINE t == Loaded(o, v, b)
  <2>1. t \in WorkerStates /\ t.phase = "loaded" /\ t.op = o /\ t.value = v
    BY <1>1, WorkerFields
  <2>2. workers' = [workers EXCEPT ![w] = t]
    BY <1>5
  <2> HIDE DEF t
  <2>3. workers'[w] = t /\ nextId' = nextId /\ nextId \in 1 .. MaxId + 1 /\ nextId <= nextId'
    BY <1>3, <2>2 DEF StorageInv, StorageTypes, db
  <2>4. ~Completed(o)'
    BY <1>1, <1>5 DEF Completed
  <2>5. WorkerOK(w)'
    BY <1>1, <1>3, <2>1, <2>3, <2>4 DEF WorkerOK
  <2>6. UNCHANGED <<topic, finished, messages, profile, joined, now, caches, outbox>>
    BY <1>3, <1>5 DEF db, caches
  <2>7. late' \subseteq DOMAIN topic /\ LateIds \subseteq LateIds'
    BY <1>3, <1>5 DEF StorageInv, StorageTypes, LateIds
  <2> QED
    BY <1>1, <2>1, <2>2, <2>3, <2>5, <2>6, <2>7, StartKept
<1>6. CASE CommitWith(w, Answer(o, l1[k]), {})
  <2>1. PICK rsp : rsp = Answer(o, l1[k])
    OBVIOUS
  <2> QED
    BY <1>4, <1>6, <2>1, AnswerFields
<1>7. CASE /\ l2[k] # Absent
           /\ workers' = [workers EXCEPT ![w] = Loaded(o, l2[k], FALSE)]
           /\ outbox' = outbox
  <2>1. PICK v \in Versions : v = l2[k]
    BY <1>7 DEF StorageInv, StorageTypes
  <2> QED
    BY <1>5, <1>7, <2>1
<1>8. CASE /\ workers' = [workers EXCEPT ![w] = Loaded(o, Current(k), TRUE)]
           /\ outbox' = outbox
  <2>1. PICK v \in Versions : v = Current(k)
    BY CurrentVersion DEF StorageInv
  <2> QED
    BY <1>5, <1>8, <2>1
<1>9. CASE CommitWith(w, Response(o, "not_found", 0, FALSE), {})
  <2>1. PICK rsp : rsp = Response(o, "not_found", 0, FALSE)
    OBVIOUS
  <2>2. rsp.op = o /\ rsp.kind = q.kind /\ rsp.user = q.user /\ rsp.topic = q.topic
    BY <2>1 DEF Response
  <2> QED
    BY <1>4, <1>9, <2>1, <2>2
<1> QED
  BY <1>2, <1>6, <1>7, <1>8, <1>9 DEF Query

LEMMA FillKept ==
    ASSUME StorageInv, NEW w \in Workers, Fill(w)
    PROVE  StorageInv' /\ Grows
<1> DEFINE t == workers[w]
           q == topic[t.op]
<1>0. PICK rsp : rsp = Answer(t.op, t.value)
  OBVIOUS
<1>1. /\ t.phase = "loaded" /\ t.op \in DOMAIN topic /\ q.kind \in {"message", "user"}
      /\ ~Completed(t.op) /\ t.value \in Versions
  BY DEF Fill, StorageInv, WorkerOK
<1>2. q \in Requests
  BY <1>1 DEF StorageInv, StorageTypes
<1>3. PICK k \in Keys : k = Key(q)
  BY <1>1, <1>2, QueryKey
<1>4. /\ UNCHANGED <<topic, finished, db, joined, now, late>>
      /\ CommitWith(w, rsp, {})
      /\ l1' = [l1 EXCEPT ![k] = t.value]
      /\ l2' = IF t.fresh THEN [l2 EXCEPT ![k] = t.value] ELSE l2
      /\ leaked' = IF t.value # Current(k) /\ ~ClearAhead(k) THEN leaked \cup {k} ELSE leaked
  BY <1>0, <1>3 DEF Fill
<1>5. /\ rsp.op = t.op /\ rsp.kind = q.kind /\ rsp.user = q.user /\ rsp.topic = q.topic
  BY <1>0, AnswerFields
<1>6. k \in leaked' \/ t.value = Current(k) \/ ClearAhead(k)
  BY <1>4
<1>7. /\ l1 \in [Keys -> Versions \cup {Absent}] /\ l2 \in [Keys -> Versions \cup {Absent}]
      /\ late \subseteq DOMAIN topic /\ leaked \subseteq leaked' /\ leaked' \subseteq Keys
  BY <1>4 DEF StorageInv, StorageTypes
<1>8. l1' \in [Keys -> Versions \cup {Absent}] /\ l2' \in [Keys -> Versions \cup {Absent}]
  BY <1>1, <1>4, <1>7
<1>9. \A j \in Keys : /\ l1'[j] = l1[j] \/ (j = k /\ l1'[j] = t.value)
                      /\ l2'[j] = l2[j] \/ (j = k /\ l2'[j] = t.value)
  BY <1>4, <1>7
<1>10. \A j \in Keys \ leaked' : /\ l1'[j] \in {Absent, l1[j], Current(j)} \/ ClearAhead(j)
                                 /\ l2'[j] \in {Absent, l2[j], Current(j)} \/ Owed(j)
  BY <1>6, <1>9, AheadOwes
<1>11. \A v \in Workers : v = w \/ workers[v].phase = "idle" \/ workers[v].op # rsp.op
  BY <1>1, <1>5 DEF StorageInv, WorkersApart
<1> QED
  BY <1>1, <1>4, <1>5, <1>7, <1>8, <1>10, <1>11, AnswerKept

LEMMA QuerySyncMessagesKept ==
    ASSUME StorageInv, NEW w \in Workers, NEW o, QuerySyncMessages(w, o)
    PROVE  StorageInv' /\ Grows
<1> DEFINE q == topic[o]
           P == Page(q.user, q.cursor)
           n == NextCursor(P, q.cursor)
           Passed(v) == Open(v) /\ ~After(OpenPlace(v), n)
<1>0. PICK rsp : rsp = [Response(o, "ok", 0, FALSE) EXCEPT !.ids = P, !.next = n]
  OBVIOUS
<1>1. /\ o \in DOMAIN topic /\ o \in Nat /\ q.kind = "sync" /\ ~Completed(o)
      /\ o \notin finished /\ q \in Requests
      /\ \A v \in Workers : workers[v].op # o
  <2>1. Take(w, o, {"sync"})
    BY DEF QuerySyncMessages
  <2> QED
    BY <2>1, TakeFacts
<1>2. /\ UNCHANGED <<topic, finished, db, joined, now, l1, l2, leaked>>
      /\ CommitWith(w, rsp, {})
      /\ late' = late \cup {workers[v].op : v \in {x \in Workers : Passed(x)}}
  BY <1>0 DEF QuerySyncMessages, caches
<1>3. rsp.op = o /\ rsp.kind = q.kind /\ rsp.user = q.user /\ rsp.topic = q.topic
  <2> HIDE DEF P, n
  <2> QED
    BY <1>0 DEF Response
<1>4. late \subseteq late' /\ late' \subseteq DOMAIN topic
  <2>1. late \subseteq DOMAIN topic
    BY DEF StorageInv, StorageTypes
  <2>2. \A v \in Workers : Passed(v) => workers[v].op \in DOMAIN topic
    BY DEF StorageInv, WorkerOK, Open
  <2> HIDE DEF Passed
  <2> QED
    BY <1>2, <2>1, <2>2
<1>5. /\ l1 \in [Keys -> Versions \cup {Absent}] /\ l2 \in [Keys -> Versions \cup {Absent}]
      /\ leaked \subseteq Keys
  BY DEF StorageInv, StorageTypes
<1> HIDE DEF P, n, Passed
<1> QED
  BY <1>1, <1>2, <1>3, <1>4, <1>5, AnswerKept

-----------------------------------------------------------------------------
(* Every step.                                                             *)

LEMMA EvictKept ==
    ASSUME StorageInv, NEW k \in Keys, Evict(k)
    PROVE  StorageInv' /\ Grows
<1>1. /\ UNCHANGED <<finished, db, leaked, workers, outbox, late>>
      /\ topic' = topic /\ joined' = joined /\ now' = now
  BY DEF Evict
<1>2. /\ l1 \in [Keys -> Versions \cup {Absent}] /\ l2 \in [Keys -> Versions \cup {Absent}]
      /\ joined \in [Users -> Times \cup {Absent}] /\ now \in Times /\ now <= now
  BY DEF StorageInv, StorageTypes, Times
<1>3. /\ l1' \in [Keys -> Versions \cup {Absent}] /\ l2' \in [Keys -> Versions \cup {Absent}]
      /\ \A j \in Keys : l1'[j] \in {Absent, l1[j]} /\ l2'[j] \in {Absent, l2[j]}
  BY <1>2 DEF Evict
<1> QED
  BY <1>1, <1>2, <1>3, QuietKept

\* What the rest of the system may do to the state of the service.
Arrive(q) ==
    /\ topic' = Append(topic, q)
    /\ UNCHANGED <<finished, db, joined, now, caches, workers, outbox, late>>

ChangeMembers ==
    /\ joined' \in [Users -> Times \cup {Absent}]
    /\ \A u \in Users : joined'[u] \in {joined[u], Absent, now}
    /\ UNCHANGED <<topic, finished, db, now, caches, workers, outbox, late>>

PassTime ==
    /\ now' \in Times /\ now <= now'
    /\ UNCHANGED <<topic, finished, db, joined, caches, workers, outbox, late>>

StorageMove ==
    \/ StorageStep \/ StorageFault \/ \E k \in Keys : Evict(k)
    \/ \E q \in Requests : Arrive(q)
    \/ ChangeMembers \/ PassTime
    \/ UNCHANGED storageVars

\* StorageInv holds at the start.
LEMMA StorageInitInv ==
    ASSUME StorageInit
    PROVE  StorageInv
<1>1. StorageTypes
  <2>1. 0 \in Times /\ 1 \in Times /\ 0 \in Versions /\ 1 \in 1 .. MaxId + 1 /\ <<>> \in Seq(Requests)
    BY DEF Times, Versions
  <2> QED
    BY <2>1, WorkerFields DEF StorageInit, StorageTypes
<1>2. Stored = {} /\ outbox = {}
  BY DEF StorageInit, Stored
<1>3. \A w \in Workers : workers[w] = Idle
  BY DEF StorageInit
<1>4. TableOK /\ OutboxOK
  BY <1>2 DEF TableOK, OutboxOK
<1>5. \A w \in Workers : WorkerOK(w)
  BY <1>3, WorkerFields DEF WorkerOK
<1>6. WorkersApart
  BY <1>3, WorkerFields DEF WorkersApart, Inserts
<1>7. L1OK /\ L2OK
  BY DEF StorageInit, L1OK, L2OK
<1> QED
  BY <1>1, <1>4, <1>5, <1>6, <1>7 DEF StorageInv

\* Every step keeps it, and takes nothing back.
LEMMA StorageKept ==
    ASSUME StorageInv, StorageMove
    PROVE  StorageInv' /\ Grows
<1>0. /\ l1 \in [Keys -> Versions \cup {Absent}] /\ l2 \in [Keys -> Versions \cup {Absent}]
      /\ joined \in [Users -> Times \cup {Absent}] /\ now \in Times /\ now <= now
  BY DEF StorageInv, StorageTypes, Times
<1>1. CASE StorageStep
  BY <1>1, CommitStoreKept, FillKept, ClearL1Kept, FinishKept, StampMessageKept,
     StoreNewMessageKept, RecallMessageKept,
     UpdateUserKept, QueryKept, QuerySyncMessagesKept, ReplayKept DEF StorageStep
<1>2. CASE StorageFault
  BY <1>2, CrashKept, FailKept, FinishClearingL1Kept DEF StorageFault
<1>3. CASE \E k \in Keys : Evict(k)
  BY <1>3, EvictKept
<1>4. CASE \E q \in Requests : Arrive(q)
  BY <1>0, <1>4, QuietKept DEF Arrive, caches
<1>5. CASE ChangeMembers
  BY <1>0, <1>5, QuietKept DEF ChangeMembers, caches
<1>6. CASE PassTime
  BY <1>0, <1>6, QuietKept DEF PassTime, caches
<1>7. CASE UNCHANGED storageVars
  BY <1>0, <1>7, QuietKept DEF storageVars, caches
<1> QED
  BY <1>1, <1>2, <1>3, <1>4, <1>5, <1>6, <1>7 DEF StorageMove

\* What follows from it.
LEMMA StorageTyped ==
    ASSUME StorageInv
    PROVE  StorageTypeOK
<1>1. \A w \in Workers : /\ workers[w].phase \in Phases
                         /\ workers[w].keys \subseteq Keys
                         /\ workers[w].phase # "idle" => workers[w].op \in DOMAIN topic
  BY DEF StorageInv, StorageTypes, WorkerOK, WorkerStates
<1>2. \A r \in outbox : r.op \in DOMAIN topic /\ r.user = topic[r.op].user
  BY DEF StorageInv, OutboxOK, ResponseOK
<1>3. \A i \in Stored : i < nextId
  BY DEF StorageInv, TableOK
<1>4. \A r, s \in outbox : r.op = s.op => r = s
  BY DEF StorageInv, OutboxOK
<1> QED
  BY <1>1, <1>2, <1>3, <1>4 DEF StorageInv, StorageTypes, StorageTypeOK, Phases

LEMMA StaleIsOwed ==
    ASSUME StorageInv
    PROVE  StaleOnlyByRace
BY AheadOwes DEF StorageInv, L1OK, L2OK, Owed, StaleOnlyByRace

-----------------------------------------------------------------------------
(* Paging.  The least and the greatest of a set of numbers.                *)

LEMMA LeastExists ==
    ASSUME NEW S \in SUBSET Nat, S # {}
    PROVE  \E i \in S : \A j \in S : i <= j
<1>1. PICK R : R = OpToRel(<, Nat)
  OBVIOUS
<1>2. IsWellFoundedOn(R, Nat)
  BY <1>1, NatLessThanWellFounded
<1>3. PICK x \in S : \A y \in S : ~(<<y, x>> \in R)
  BY <1>2, WFMin
<1>4. \A y \in S : ~(y < x)
  BY <1>1, <1>3 DEF OpToRel
<1> QED
  BY <1>4

LEMMA GreatestExists ==
    ASSUME NEW S \in SUBSET Nat, S # {}, NEW n \in Nat, \A i \in S : i <= n
    PROVE  \E i \in S : \A j \in S : j <= i
<1> DEFINE T == {x \in Nat : n - x \in S}
<1>1. \A i \in S : n - i \in T
  OBVIOUS
<1>2. T \in SUBSET Nat /\ T # {}
  BY <1>1
<1>3. PICK x \in T : \A y \in T : x <= y
  BY <1>2, LeastExists
<1>4. ASSUME NEW j \in S PROVE j <= n - x
  <2>1. x <= n - j
    BY <1>1, <1>3
  <2> QED
    BY <2>1
<1> QED
  BY <1>3, <1>4

\* The cursor of a page that is not empty is the place of its last message.
LEMMA LastOfPage ==
    ASSUME StorageTypes, NEW P \in SUBSET Stored, P # {}, NEW c
    PROVE  \E m \in P : NextCursor(P, c) = Place(m) /\ \A j \in P : ~After(Place(j), Place(m))
<1>1. /\ \A i \in P : i \in Nat /\ i <= MaxId
      /\ \A i \in P : messages[i].at \in Nat /\ messages[i].at <= MaxClock
  BY DEF Stored, Ids, StorageTypes, Rows, Times
<1>2. PICK A \in SUBSET Nat : A = {messages[i].at : i \in P}
  BY <1>1
<1>3. A # {} /\ \A x \in A : x <= MaxClock
  BY <1>1, <1>2
<1>4. PICK a \in A : \A x \in A : x <= a
  BY <1>3, GreatestExists
<1>5. PICK B \in SUBSET Nat : B = {i \in P : messages[i].at = a}
  BY <1>1
<1>6. B # {} /\ \A i \in B : i <= MaxId
  BY <1>1, <1>2, <1>5
<1>7. PICK m \in B : \A i \in B : i <= m
  BY <1>6, GreatestExists
<1>8. m \in P /\ messages[m].at = a
  BY <1>5
<1>9. ASSUME NEW j \in P PROVE ~After(Place(j), Place(m))
  <2>1. messages[j].at <= a /\ (messages[j].at = a => j <= m)
    BY <1>2, <1>4, <1>5, <1>7
  <2> QED
    BY <1>1, <1>8, <2>1 DEF After, Place
<1>10. \E i \in P : \A j \in P : ~After(Place(j), Place(i))
  BY <1>8, <1>9
<1>11. PICK i : i = CHOOSE x \in P : \A j \in P : ~After(Place(j), Place(x))
  OBVIOUS
<1>12. i \in P /\ \A j \in P : ~After(Place(j), Place(i))
  BY <1>10, <1>11
<1>13. NextCursor(P, c) = Place(i)
  BY <1>11 DEF NextCursor
<1> QED
  BY <1>12, <1>13

\* A page leaves nothing out up to its cursor.
LEMMA PageComplete ==
    ASSUME StorageTypes, NEW u \in Users, NEW c \in Cursors, NEW i \in Unseen(u, c),
           ~After(Place(i), NextCursor(Page(u, c), c))
    PROVE  i \in Page(u, c)
<1>1. PICK U : U = Unseen(u, c)
  OBVIOUS
<1>2. U \subseteq Stored /\ U \subseteq Ids /\ i \in U
  BY <1>1 DEF Unseen, Stored
<1>3. \A j \in U : j \in Nat /\ messages[j].at \in Nat
  BY <1>2 DEF Stored, Ids, StorageTypes, Rows, Times
<1>4. Page(u, c) \in SUBSET Stored
  BY <1>1, <1>2 DEF Page
<1>5. Page(u, c) # {}
  <2>1. After(Place(i), c)
    BY DEF Unseen
  <2> QED
    BY <2>1 DEF NextCursor
<1>6. PICK m \in Page(u, c) : NextCursor(Page(u, c), c) = Place(m)
  BY <1>4, <1>5, LastOfPage
<1>7. PICK S : S = {j \in U : After(Place(m), Place(j))}
  OBVIOUS
<1>8. PICK T : T = {j \in U : After(Place(i), Place(j))}
  OBVIOUS
<1>9. m \in U /\ Cardinality(S) < PageSize
  BY <1>1, <1>6, <1>7 DEF Page
<1>10. T \subseteq S
  <2> SUFFICES ASSUME NEW j \in U, After(Place(i), Place(j))
               PROVE  After(Place(m), Place(j))
    BY <1>7, <1>8
  <2>1. ~After(Place(i), Place(m))
    BY <1>6
  <2>2. i \in Nat /\ j \in Nat /\ m \in Nat /\ messages[i].at \in Nat
        /\ messages[j].at \in Nat /\ messages[m].at \in Nat
    BY <1>2, <1>3, <1>9
  <2> QED
    BY <2>1, <2>2 DEF After, Place
<1>11. IsFiniteSet(S) /\ IsFiniteSet(T)
  <2>1. IsFiniteSet(Ids)
    BY FS_Interval DEF Ids
  <2>2. S \subseteq Ids /\ T \subseteq Ids
    BY <1>2, <1>7, <1>8
  <2> QED
    BY <2>1, <2>2, FS_Subset
<1>12. Cardinality(T) <= Cardinality(S) /\ Cardinality(T) \in Nat /\ Cardinality(S) \in Nat
  BY <1>10, <1>11, FS_Subset, FS_CardinalityType
<1>13. Cardinality(T) < PageSize
  BY <1>9, <1>12
<1> QED
  BY <1>1, <1>2, <1>8, <1>13 DEF Page

-----------------------------------------------------------------------------
(* Where open inserts, rows and pages come from.                           *)

\* An open transaction stays where it is or moves up, and stays known to be late;
\* a new one has the time that it is and no id that was given out.
Stays(v) ==
    /\ Open(v) /\ workers'[v].at = workers[v].at /\ workers'[v].op = workers[v].op
    /\ OpenPlace(v).id <= OpenPlace(v)'.id
    /\ workers[v].op \in late => workers[v].op \in late'

Opens(v) == workers'[v].at = now /\ nextId <= OpenPlace(v)'.id

OpensFrom == \A v \in Workers : Open(v)' => Stays(v) \/ Opens(v)

\* A new row is that of an open transaction, and late if that was.
RowsFrom ==
    \A i \in Stored' :
        \/ i \in Stored
        \/ \E v \in Workers : /\ Open(v) /\ OpenPlace(v) = [at |-> messages'[i].at, id |-> i]
                              /\ workers[v].op \in late => i \in LateIds'

\* The response r holds the page of its request; what was open and did not come
\* after the page is known to be late.
Paged(r) ==
    /\ r.op \in DOMAIN topic /\ topic[r.op].kind = "sync" /\ r.user = topic[r.op].user
    /\ r.ids = Page(r.user, topic[r.op].cursor)
    /\ r.next = NextCursor(r.ids, topic[r.op].cursor)
    /\ UNCHANGED <<topic, messages, joined, now, nextId>>
    /\ \A v \in Workers : Open(v)' => Open(v) /\ workers'[v] = workers[v]
    /\ \A v \in Workers : Open(v) => After(OpenPlace(v), r.next) \/ workers[v].op \in late'

PagesFrom == \A r \in outbox' : r \in outbox \/ r.kind # "sync" \/ Paged(r)

\* A worker that does nothing stays open.
LEMMA IdleStays ==
    ASSUME StorageInv, NEW v \in Workers, workers'[v] = workers[v], Open(v)',
           nextId' \in Nat, nextId <= nextId',
           workers[v].op \in late => workers[v].op \in late'
    PROVE  Stays(v)
<1>1. nextId \in Nat /\ workers[v].id \in Nat
  BY DEF StorageInv, StorageTypes, WorkerStates
<1>2. Open(v)
  BY DEF Open
<1>3. OpenPlace(v).id <= OpenPlace(v)'.id
  BY <1>1 DEF OpenPlace
<1> QED
  BY <1>2, <1>3 DEF Stays

\* A worker turns to something else than an insert.
LEMMA NoInsert ==
    ASSUME StorageInv, NEW w \in Workers, NEW t, workers' = [workers EXCEPT ![w] = t],
           t.phase \notin {"stamped", "inserted"}, nextId' = nextId, late \subseteq late'
    PROVE  /\ OpensFrom
           /\ \A v \in Workers : Open(v)' => Open(v) /\ workers'[v] = workers[v]
<1>1. workers \in [Workers -> WorkerStates] /\ nextId \in Nat
  BY DEF StorageInv, StorageTypes
<1>2. \A v \in Workers : workers'[v] = IF v = w THEN t ELSE workers[v]
  BY <1>1
<1>3. \A v \in Workers : Open(v)' => Open(v) /\ workers'[v] = workers[v]
  BY <1>2 DEF Open
<1> QED
  BY <1>1, <1>3, IdleStays DEF OpensFrom

LEMMA CommitNoInsert ==
    ASSUME StorageInv, NEW w \in Workers, NEW rsp, NEW K, CommitWith(w, rsp, K),
           nextId' = nextId, late \subseteq late'
    PROVE  /\ OpensFrom /\ outbox' = outbox \cup {rsp}
           /\ \A v \in Workers : Open(v)' => Open(v) /\ workers'[v] = workers[v]
<1>1. PICK t : t = [Idle EXCEPT !.phase = "committed", !.op = rsp.op, !.keys = K]
  OBVIOUS
<1>2. t.phase = "committed"
  BY <1>1 DEF Idle
<1>3. workers' = [workers EXCEPT ![w] = t] /\ outbox' = outbox \cup {rsp}
  BY <1>1 DEF CommitWith
<1> QED
  BY <1>2, <1>3, NoInsert

\* Steps that open, commit and page nothing.
LEMMA QuietFrom ==
    ASSUME StorageInv, messages' = messages, outbox' = outbox, nextId' = nextId, late' = late,
           workers' = workers \/ \A v \in Workers : workers'[v] \in {workers[v], Idle}
    PROVE  OpensFrom /\ RowsFrom /\ PagesFrom
<1>1. Stored' = Stored /\ nextId \in Nat
  BY DEF Stored, StorageInv, StorageTypes
<1>2. \A v \in Workers : Open(v)' => workers'[v] = workers[v]
  BY WorkerFields DEF Open
<1>3. OpensFrom
  BY <1>1, <1>2, IdleStays DEF OpensFrom
<1> QED
  BY <1>1, <1>3 DEF RowsFrom, PagesFrom

LEMMA StorageStepFrom ==
    ASSUME StorageInv, NEW w \in Workers,
           \/ StoreNewMessage(w) \/ CommitStore(w) \/ Fill(w) \/ ClearL1(w) \/ Finish(w)
           \/ \E o \in DOMAIN topic : \/ StampMessage(w, o) \/ RecallMessage(w, o)
                                      \/ UpdateUser(w, o) \/ Query(w, o)
                                      \/ QuerySyncMessages(w, o) \/ Replay(w, o)
    PROVE  OpensFrom /\ RowsFrom /\ PagesFrom
<1>0. /\ workers \in [Workers -> WorkerStates] /\ messages \in [Ids -> Rows \cup {NoRow}]
      /\ nextId \in Nat
  BY DEF StorageInv, StorageTypes
<1>1. CASE CommitStore(w)
  <2>1. PICK t : t = workers[w]
    OBVIOUS
  <2>2. PICK rsp : rsp = Response(t.op, "ok", t.id, t.created)
    OBVIOUS
  <2>3. CommitWith(w, rsp, {}) /\ t.phase = "inserted" /\ nextId' = nextId /\ late' = late
    BY <1>1, <2>1, <2>2 DEF CommitStore
  <2>4. topic[t.op].kind = "store" /\ (t.created => t.id \in Ids)
    BY <2>1, <2>3 DEF StorageInv, WorkerOK, InsertOK
  <2>5. rsp.kind = "store" /\ rsp.op = t.op /\ rsp.id = t.id /\ rsp.created = t.created
    BY <2>2, <2>4, ResponseFields
  <2>6. RowsFrom
    <3> SUFFICES ASSUME NEW i \in Stored', i \notin Stored
                 PROVE  /\ Open(w) /\ OpenPlace(w) = [at |-> messages'[i].at, id |-> i]
                        /\ workers[w].op \in late => i \in LateIds'
      BY DEF RowsFrom
    <3>1. PICK row : row = [from |-> topic[t.op].user, to |-> topic[t.op].to,
                            client |-> topic[t.op].client, at |-> t.at, recalled |-> FALSE]
      OBVIOUS
    <3>2. /\ t.created => messages' = [messages EXCEPT ![t.id] = row]
          /\ ~t.created => messages' = messages
      BY <1>1, <2>1, <3>1 DEF CommitStore
    <3>3. i \in Ids /\ messages'[i] # messages[i]
      BY DEF Stored
    <3>4. t.created /\ i = t.id /\ messages'[i] = row
      BY <1>0, <2>4, <3>2, <3>3
    <3>5. messages'[i].at = t.at
      BY <3>1, <3>4
    <3>6. rsp \in outbox' /\ (t.op \in late => i \in LateIds')
      BY <2>3, <2>5, <3>4 DEF CommitWith, LateIds
    <3>7. Open(w) /\ OpenPlace(w) = [at |-> messages'[i].at, id |-> i]
      BY <2>1, <2>3, <3>4, <3>5 DEF Open, OpenPlace
    <3> QED
      BY <2>1, <3>6, <3>7
  <2> QED
    BY <2>3, <2>5, <2>6, CommitNoInsert DEF PagesFrom
<1>2. CASE Fill(w)
  <2>1. PICK o : o = workers[w].op
    OBVIOUS
  <2>2. PICK rsp : rsp = Answer(o, workers[w].value)
    OBVIOUS
  <2>3. /\ CommitWith(w, rsp, {}) /\ workers[w].phase = "loaded" /\ messages' = messages
        /\ nextId' = nextId /\ late' = late
    BY <1>2, <2>1, <2>2 DEF Fill, db
  <2>4. topic[o].kind \in {"message", "user"}
    BY <2>1, <2>3 DEF StorageInv, WorkerOK
  <2>5. rsp.kind # "sync"
    BY <2>2, <2>4, AnswerFields
  <2>6. RowsFrom
    BY <2>3 DEF RowsFrom, Stored
  <2> QED
    BY <2>3, <2>5, <2>6, CommitNoInsert DEF PagesFrom
<1>3. CASE Finish(w)
  <2>1. /\ messages' = messages /\ outbox' = outbox /\ workers' = [workers EXCEPT ![w] = Idle]
        /\ nextId' = nextId /\ late' = late
    BY <1>3 DEF Finish, Finished, db
  <2>2. \A v \in Workers : workers'[v] \in {workers[v], Idle}
    BY <1>0, <2>1
  <2> QED
    BY <2>1, <2>2, QuietFrom
<1>10. CASE ClearL1(w)
  <2>1. PICK t : t = [workers[w] EXCEPT !.phase = "clearing"]
    OBVIOUS
  <2>2. t.phase = "clearing"
    BY <1>0, <2>1 DEF WorkerStates
  <2>3. /\ messages' = messages /\ outbox' = outbox /\ workers' = [workers EXCEPT ![w] = t]
        /\ nextId' = nextId /\ late' = late
    BY <1>0, <1>10, <2>1 DEF ClearL1, db
  <2> QED
    BY <2>2, <2>3, NoInsert DEF RowsFrom, PagesFrom, Stored
<1>11. CASE StoreNewMessage(w)
  <2>1. messages' = messages /\ outbox' = outbox /\ late' = late
    BY <1>11 DEF StoreNewMessage
  <2>2. workers[w].phase = "stamped" /\ ~workers[w].created /\ workers[w] \in WorkerStates
    BY <1>0, <1>11 DEF StoreNewMessage, StorageInv, WorkerOK
  <2>7. nextId' = nextId \/ nextId' = nextId + 1
    BY <1>11 DEF StoreNewMessage
  <2>3. nextId' \in Nat /\ nextId <= nextId'
    BY <1>0, <2>7
  <2>4. ASSUME NEW i, workers' = [workers EXCEPT ![w] = [workers[w] EXCEPT !.phase = "inserted",
                                                                         !.id = i]]
        PROVE  OpensFrom
    <3>1. ~Open(w)'
      BY <1>0, <2>2, <2>4 DEF Open, WorkerStates
    <3>2. \A v \in Workers : v # w => workers'[v] = workers[v]
      BY <1>0, <2>4
    <3> QED
      BY <2>1, <2>3, <3>1, <3>2, IdleStays DEF OpensFrom
  <2>5. ASSUME workers' = [workers EXCEPT ![w] = [workers[w] EXCEPT !.phase = "inserted",
                                                         !.id = nextId, !.created = TRUE]]
        PROVE  OpensFrom
    <3>1. /\ workers'[w].phase = "inserted" /\ workers'[w].id = nextId
          /\ workers'[w].at = workers[w].at /\ workers'[w].op = workers[w].op
          /\ \A v \in Workers : v # w => workers'[v] = workers[v]
      BY <1>0, <2>2, <2>5 DEF WorkerStates
    <3>2. Stays(w)
      BY <1>0, <2>1, <2>2, <3>1 DEF Stays, Open, OpenPlace
    <3> QED
      BY <2>1, <2>3, <3>1, <3>2, IdleStays DEF OpensFrom
  <2>6. OpensFrom
    BY <1>11, <2>4, <2>5 DEF StoreNewMessage
  <2> QED
    BY <2>1, <2>6 DEF RowsFrom, PagesFrom, Stored
<1>4. ASSUME NEW o \in DOMAIN topic, StampMessage(w, o)
      PROVE  OpensFrom /\ RowsFrom /\ PagesFrom
  <2>1. messages' = messages /\ outbox' = outbox /\ nextId' = nextId /\ late' = late \ {o}
    BY <1>4 DEF StampMessage, db
  <2>2. PICK t : t = [Idle EXCEPT !.phase = "stamped", !.op = o, !.at = now]
    OBVIOUS
  <2>3. t.phase = "stamped" /\ t.at = now
    BY <2>2 DEF Idle
  <2>4. workers' = [workers EXCEPT ![w] = t] /\ \A v \in Workers : workers[v].op # o
    BY <1>4, <2>2 DEF StampMessage, Take
  <2>5. workers'[w] = t /\ \A v \in Workers : v # w => workers'[v] = workers[v]
    BY <1>0, <2>4
  <2>6. Opens(w)
    BY <1>0, <2>1, <2>3, <2>5 DEF Opens, OpenPlace
  <2>7. OpensFrom
    BY <1>0, <2>1, <2>4, <2>5, <2>6, IdleStays DEF OpensFrom
  <2> QED
    BY <2>1, <2>7 DEF RowsFrom, PagesFrom, Stored
<1>5. ASSUME NEW o \in DOMAIN topic, RecallMessage(w, o)
      PROVE  OpensFrom /\ RowsFrom /\ PagesFrom
  <2>1. PICK rsp : rsp = Response(o, RecallStatus(topic[o]), topic[o].id, FALSE)
    OBVIOUS
  <2>2. PICK K : K = IF RecallStatus(topic[o]) = "ok" THEN {<<"message", topic[o].id>>} ELSE {}
    OBVIOUS
  <2>3. /\ CommitWith(w, rsp, K) /\ topic[o].kind = "recall"
        /\ nextId' = nextId /\ late' = late
    BY <1>5, <2>1, <2>2 DEF RecallMessage, Take
  <2>4. rsp.kind = "recall"
    BY <2>1, <2>3 DEF Response
  <2>5. RowsFrom
    <3>1. RecallStatus(topic[o]) = "ok" => topic[o].id \in Stored
      BY DEF RecallStatus
    <3>2. messages' = messages \/ /\ topic[o].id \in Stored
                                  /\ messages' = [messages EXCEPT ![topic[o].id].recalled = TRUE]
      BY <1>5, <3>1 DEF RecallMessage
    <3>3. \A i \in Ids : messages'[i] = messages[i] \/ i \in Stored
      BY <1>0, <3>2
    <3> QED
      BY <3>3 DEF RowsFrom, Stored
  <2> QED
    BY <2>3, <2>4, <2>5, CommitNoInsert DEF PagesFrom
<1>6. ASSUME NEW o \in DOMAIN topic, UpdateUser(w, o)
      PROVE  OpensFrom /\ RowsFrom /\ PagesFrom
  <2>1. PICK rsp : rsp = Response(o, "ok", 0, FALSE)
    OBVIOUS
  <2>2. PICK K : K = {<<"user", topic[o].about>>}
    OBVIOUS
  <2>3. /\ CommitWith(w, rsp, K) /\ topic[o].kind = "update" /\ messages' = messages
        /\ nextId' = nextId /\ late' = late
    BY <1>6, <2>1, <2>2 DEF UpdateUser, Take
  <2>4. rsp.kind = "update"
    BY <2>1, <2>3 DEF Response
  <2>5. RowsFrom
    BY <2>3 DEF RowsFrom, Stored
  <2> QED
    BY <2>3, <2>4, <2>5, CommitNoInsert DEF PagesFrom
<1>7. ASSUME NEW o \in DOMAIN topic, Query(w, o)
      PROVE  OpensFrom /\ RowsFrom /\ PagesFrom
  <2>1. /\ topic[o].kind \in {"message", "user"} /\ messages' = messages
        /\ nextId' = nextId /\ late' = late
    BY <1>7 DEF Query, Take, db
  <2>2. RowsFrom
    BY <2>1 DEF RowsFrom, Stored
  <2>3. ASSUME NEW rsp, CommitWith(w, rsp, {}), rsp.kind = topic[o].kind
        PROVE  OpensFrom /\ RowsFrom /\ PagesFrom
    BY <2>1, <2>2, <2>3, CommitNoInsert DEF PagesFrom
  <2>4. ASSUME NEW x, NEW b, workers' = [workers EXCEPT ![w] = Loaded(o, x, b)],
               UNCHANGED outbox
        PROVE  OpensFrom /\ RowsFrom /\ PagesFrom
    <3>1. PICK t : t = Loaded(o, x, b)
      OBVIOUS
    <3>2. t.phase = "loaded"
      BY <3>1 DEF Loaded, Idle
    <3> QED
      BY <2>1, <2>2, <2>4, <3>1, <3>2, NoInsert DEF PagesFrom
  <2>5. PICK k : k = Key(topic[o])
    OBVIOUS
  <2>6. \/ CommitWith(w, Answer(o, l1[k]), {})
        \/ /\ \/ workers' = [workers EXCEPT ![w] = Loaded(o, l2[k], FALSE)]
              \/ workers' = [workers EXCEPT ![w] = Loaded(o, Current(k), TRUE)]
           /\ UNCHANGED outbox
        \/ CommitWith(w, Response(o, "not_found", 0, FALSE), {})
    BY <1>7, <2>5 DEF Query
  <2>7. CASE CommitWith(w, Answer(o, l1[k]), {})
    <3>1. PICK rsp : rsp = Answer(o, l1[k])
      OBVIOUS
    <3>2. rsp.kind = topic[o].kind
      BY <3>1, AnswerFields
    <3> QED
      BY <2>3, <2>7, <3>1, <3>2
  <2>8. CASE CommitWith(w, Response(o, "not_found", 0, FALSE), {})
    <3>1. PICK rsp : rsp = Response(o, "not_found", 0, FALSE)
      OBVIOUS
    <3>2. rsp.kind = topic[o].kind
      BY <3>1 DEF Response
    <3> QED
      BY <2>3, <2>8, <3>1, <3>2
  <2>9. CASE workers' = [workers EXCEPT ![w] = Loaded(o, l2[k], FALSE)] /\ UNCHANGED outbox
    <3>1. PICK x, b : x = l2[k] /\ b = FALSE
      OBVIOUS
    <3>2. workers' = [workers EXCEPT ![w] = Loaded(o, x, b)]
      BY <2>9, <3>1
    <3> QED
      BY <2>4, <2>9, <3>2
  <2>10. CASE workers' = [workers EXCEPT ![w] = Loaded(o, Current(k), TRUE)] /\ UNCHANGED outbox
    <3>1. PICK x, b : x = Current(k) /\ b = TRUE
      OBVIOUS
    <3>2. workers' = [workers EXCEPT ![w] = Loaded(o, x, b)]
      BY <2>10, <3>1
    <3> QED
      BY <2>4, <2>10, <3>2
  <2> QED
    BY <2>6, <2>7, <2>8, <2>9, <2>10
<1>8. ASSUME NEW o \in DOMAIN topic, QuerySyncMessages(w, o)
      PROVE  OpensFrom /\ RowsFrom /\ PagesFrom
  <2>1. PICK P : P = Page(topic[o].user, topic[o].cursor)
    OBVIOUS
  <2>2. PICK n : n = NextCursor(P, topic[o].cursor)
    OBVIOUS
  <2>3. PICK rsp : rsp = [Response(o, "ok", 0, FALSE) EXCEPT !.ids = P, !.next = n]
    OBVIOUS
  <2>4. /\ CommitWith(w, rsp, {}) /\ topic[o].kind = "sync"
        /\ UNCHANGED <<topic, messages, joined, now, nextId>> /\ late \subseteq late'
    BY <1>8, <2>1, <2>2, <2>3 DEF QuerySyncMessages, Take, db
  <2>5. \A v \in Workers : Open(v) => After(OpenPlace(v), n) \/ workers[v].op \in late'
    <3> SUFFICES ASSUME NEW v \in Workers, Open(v), ~After(OpenPlace(v), n)
                 PROVE  workers[v].op \in late'
      OBVIOUS
    <3> QED
      BY <1>8, <2>1, <2>2 DEF QuerySyncMessages
  <2>6. /\ rsp.op = o /\ rsp.kind = "sync" /\ rsp.user = topic[o].user
        /\ rsp.ids = P /\ rsp.next = n
    BY <2>3, <2>4 DEF Response
  <2>7. /\ OpensFrom /\ outbox' = outbox \cup {rsp}
        /\ \A v \in Workers : Open(v)' => Open(v) /\ workers'[v] = workers[v]
    BY <2>4, CommitNoInsert
  <2>8. Paged(rsp)
    BY <2>1, <2>2, <2>4, <2>5, <2>6, <2>7 DEF Paged
  <2> QED
    BY <2>4, <2>7, <2>8 DEF RowsFrom, PagesFrom, Stored
<1>9. ASSUME NEW o \in DOMAIN topic, Replay(w, o)
      PROVE  OpensFrom /\ RowsFrom /\ PagesFrom
  <2>1. PICK t : t = Committed(o, MutationCacheKeys(topic[o]))
    OBVIOUS
  <2>2. t.phase = "committed"
    BY <2>1 DEF Committed, Idle
  <2>3. /\ messages' = messages /\ outbox' = outbox /\ workers' = [workers EXCEPT ![w] = t]
        /\ nextId' = nextId /\ late' = late
    BY <1>9, <2>1 DEF Replay, Committed, db
  <2> QED
    BY <2>2, <2>3, NoInsert DEF RowsFrom, PagesFrom, Stored
<1> QED
  BY <1>1, <1>2, <1>3, <1>4, <1>5, <1>6, <1>7, <1>8, <1>9, <1>10, <1>11

LEMMA StorageFrom ==
    ASSUME StorageInv, StorageMove
    PROVE  OpensFrom /\ RowsFrom /\ PagesFrom
<1>0. workers \in [Workers -> WorkerStates]
  BY DEF StorageInv, StorageTypes
<1>1. CASE StorageStep
  BY <1>1, StorageStepFrom DEF StorageStep
<1>2. CASE StorageFault
  <2>1. messages' = messages /\ outbox' = outbox /\ nextId' = nextId /\ late' = late
    BY <1>2 DEF StorageFault, Crash, Fail, FinishClearingL1, Finished, db
  <2>2. \A v \in Workers : workers'[v] \in {workers[v], Idle}
    BY <1>0, <1>2 DEF StorageFault, Crash, Fail, FinishClearingL1, Finished
  <2> QED
    BY <2>1, <2>2, QuietFrom
<1>3. CASE \/ \E k \in Keys : Evict(k)
           \/ \E q \in Requests : Arrive(q)
           \/ ChangeMembers \/ PassTime \/ UNCHANGED storageVars
  <2>1. /\ messages' = messages /\ outbox' = outbox /\ workers' = workers
        /\ nextId' = nextId /\ late' = late
    BY <1>3 DEF Evict, Arrive, ChangeMembers, PassTime, storageVars, db
  <2> QED
    BY <2>1, QuietFrom
<1> QED
  BY <1>1, <1>2, <1>3 DEF StorageMove
=============================================================================
