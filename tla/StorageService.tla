--------------------------- MODULE StorageService ---------------------------
(***************************************************************************)
(* storageService: the consumers of the storage topic store, recall, query *)
(* and page messages and update and query users, each request in one       *)
(* transaction with its inbox row and its response, behind an L1 cache in  *)
(* the process and an L2 cache in Redis.                                   *)
(*                                                                         *)
(* There is one process (deploy/k8s/base/storage-service.yaml) and one     *)
(* consumer per partition; requests carry no key, so any consumer may get  *)
(* any request.  A transaction is one step unless what it has read or      *)
(* written can be overtaken before it ends: a message has its timestamp    *)
(* before its id and is invisible until its commit, a copy read for the    *)
(* cache is written to it later, and the key of a change is deleted after  *)
(* its commit, from L1 and then from L2.                                   *)
(*                                                                         *)
(* A lookup is one step, taken when it finds its value: the misses before  *)
(* it carry nothing on.  The two writes of a fill are one step, taken at   *)
(* the later one: an L1 entry that was deleted between them is one that    *)
(* expires after it.  A row in the cache is abstracted to its version.     *)
(***************************************************************************)
EXTENDS Integers, Sequences, FiniteSets

CONSTANTS
    Users, Group, Clients,
    Containers,  \* the topics the responses go to
    Workers,     \* one per partition of the storage topic
    PageSize,    \* the page size of a sync
    Window,      \* MessageRecallWindow, in ticks of the clock
    MaxId,       \* bound on the messages ever inserted
    MaxVersion,  \* bound on the updates of a user
    MaxClock,    \* bound on the clock
    Absent, NoRow

Ids == 1 .. MaxId
Times == 0 .. MaxClock
Rows == [from : Users, to : Users \cup {Group}, client : Clients, at : Times,
         recalled : BOOLEAN]

ASSUME StorageAssumption ==
    /\ PageSize \in Nat \ {0} /\ Window \in Nat
    /\ MaxId \in Nat /\ MaxVersion \in Nat \ {0} /\ MaxClock \in Nat \ {0}
    /\ Group \notin Users
    /\ Absent \notin Nat
    /\ NoRow \notin Rows

\* The place of a message in the order of a sync.
Cursors == [at : Times, id : 0 .. MaxId]
Start == [at |-> 0, id |-> 0]

Keys == ({"message"} \X Ids) \cup ({"user"} \X Users)
Versions == 0 .. MaxVersion

Requests ==
    [kind : {"store"}, user : Users, topic : Containers, to : Users \cup {Group},
     client : Clients]
        \cup [kind : {"recall", "message"}, user : Users, topic : Containers, id : Ids]
        \cup [kind : {"user", "update"}, user : Users, topic : Containers, about : Users]
        \cup [kind : {"sync"}, user : Users, topic : Containers, cursor : Cursors]

VARIABLES
    topic,     \* the storage topic; an operation key is an index
    finished,  \* the operations whose offset is marked
    messages,  \* the committed rows
    nextId,    \* the sequence of message_id
    profile,   \* the version of a user's row
    joined,    \* joined_at of the group's members
    now,
    l1, l2,    \* the caches
    workers,
    outbox,    \* the committed responses, one per completed operation
    leaked,    \* history: keys left with an old copy after their L1 delete
    late       \* history: operations that had not committed when a page passed them

db == <<messages, nextId, profile>>
caches == <<l1, l2, leaked>>
storageVars == <<topic, finished, db, joined, now, caches, workers, outbox, late>>

Idle == [phase |-> "idle", op |-> 0, id |-> 0, created |-> FALSE, at |-> 0,
         value |-> Absent, fresh |-> FALSE, keys |-> {}]

Stored == {i \in Ids : messages[i] # NoRow}

Members == {u \in Users : joined[u] # Absent}

\* The rows that had not been committed when a page passed them.
LateIds == {r.id : r \in {x \in outbox : x.created /\ x.op \in late}}

\* An operation is in the inbox exactly when its response is in the outbox.
Completed(o) == \E r \in outbox : r.op = o

StorageInit ==
    /\ topic = <<>> /\ finished = {} /\ outbox = {}
    /\ messages = [i \in Ids |-> NoRow] /\ nextId = 1
    /\ profile = [u \in Users |-> 0]
    /\ joined = [u \in Users |-> 0]
    /\ now = 1  \* the members joined before the first message
    /\ l1 = [k \in Keys |-> Absent] /\ l2 = [k \in Keys |-> Absent]
    /\ workers = [w \in Workers |-> Idle]
    /\ leaked = {} /\ late = {}

-----------------------------------------------------------------------------
(* The consumer and the transaction of HandleMessage.                      *)

Take(w, o, kinds) ==
    /\ workers[w] = Idle
    /\ o \in DOMAIN topic \ finished
    /\ \A v \in Workers : workers[v].op # o
    /\ topic[o].kind \in kinds
    /\ ~Completed(o)

\* The response of an operation, addressed to the user and the container that
\* asked.
Response(o, result, id, created) ==
    [op |-> o, kind |-> topic[o].kind, user |-> topic[o].user, topic |-> topic[o].topic,
     client |-> IF topic[o].kind = "store" THEN topic[o].client ELSE Absent,
     result |-> result, id |-> id, created |-> created, ids |-> {}, next |-> Start]

\* The commit leaves the keys to be cleared.
CommitWith(w, rsp, keys) ==
    /\ outbox' = outbox \cup {rsp}
    /\ workers' = [workers EXCEPT ![w] = [Idle EXCEPT !.phase = "committed", !.op = rsp.op,
                                                      !.keys = keys]]

MutationCacheKeysOfMessages(q) == IF q.kind = "recall" THEN {<<"message", q.id>>} ELSE {}

MutationCacheKeys(q) ==
    CASE q.kind = "recall" -> {<<"message", q.id>>}
      [] q.kind = "update" -> {<<"user", q.about>>}
      [] OTHER -> {}

\* A redelivered operation: nothing is done but the clearing of its keys.
Replay(w, o) ==
    /\ workers[w] = Idle
    /\ o \in DOMAIN topic \ finished
    /\ \A v \in Workers : workers[v].op # o
    /\ Completed(o)
    /\ workers' = [workers EXCEPT ![w] = [Idle EXCEPT !.phase = "committed", !.op = o,
                                                      !.keys = MutationCacheKeys(topic[o])]]
    /\ UNCHANGED <<topic, finished, db, joined, now, caches, outbox, late>>

-----------------------------------------------------------------------------
(* Storing and recalling a message.                                        *)

ExistingNone(q) == {}

\* The row ON CONFLICT (from_user_id, client_message_id) finds.
Existing(q) == {i \in Stored : messages[i].from = q.user /\ messages[i].client = q.client}

\* The unique index makes an insert wait for an uncommitted one of its key.
Inserting(q) ==
    \E v \in Workers : /\ workers[v].phase = "inserted" /\ workers[v].created
                       /\ topic[workers[v].op].user = q.user
                       /\ topic[workers[v].op].client = q.client

\* The row is built, with its time.  A page has not passed this attempt.
StampMessage(w, o) ==
    /\ Take(w, o, {"store"})
    /\ workers' = [workers EXCEPT ![w] = [Idle EXCEPT !.phase = "stamped", !.op = o, !.at = now]]
    /\ late' = late \ {o}
    /\ UNCHANGED <<topic, finished, db, joined, now, caches, outbox>>

\* The INSERT, which draws the id.
StoreNewMessage(w) ==
    LET t == workers[w]
        q == topic[t.op] IN
    /\ t.phase = "stamped"
    /\ ~Inserting(q)
    /\ \/ \E i \in Existing(q) :
            /\ workers' = [workers EXCEPT ![w] = [t EXCEPT !.phase = "inserted", !.id = i]]
            /\ UNCHANGED nextId
       \/ /\ Existing(q) = {}
          /\ nextId \in Ids
          /\ workers' = [workers EXCEPT ![w] = [t EXCEPT !.phase = "inserted", !.id = nextId,
                                                         !.created = TRUE]]
          /\ nextId' = nextId + 1
    /\ UNCHANGED <<topic, finished, messages, profile, joined, now, caches, outbox, late>>

CommitStore(w) ==
    LET t == workers[w]
        q == topic[t.op] IN
    /\ t.phase = "inserted"
    /\ messages' = IF t.created
                   THEN [messages EXCEPT ![t.id] = [from |-> q.user, to |-> q.to,
                                                    client |-> q.client, at |-> t.at,
                                                    recalled |-> FALSE]]
                   ELSE messages
    /\ CommitWith(w, Response(t.op, "ok", t.id, t.created), {})
    /\ UNCHANGED <<topic, finished, nextId, profile, joined, now, caches, late>>

CanUserReadMessage(u, i) ==
    LET m == messages[i] IN
    \/ u = m.from
    \/ IF m.to = Group THEN joined[u] # Absent /\ joined[u] <= m.at ELSE u = m.to

RecallStatus(q) ==
    IF q.id \notin Stored THEN "not_found"
    ELSE IF messages[q.id].from # q.user
         THEN IF CanUserReadMessage(q.user, q.id) THEN "forbidden" ELSE "not_found"
    ELSE IF messages[q.id].recalled THEN "already"
    ELSE IF now - messages[q.id].at > Window THEN "expired"
    ELSE "ok"

RecallMessage(w, o) ==
    LET q == topic[o]
        s == RecallStatus(q) IN
    /\ Take(w, o, {"recall"})
    /\ messages' = IF s = "ok" THEN [messages EXCEPT ![q.id].recalled = TRUE] ELSE messages
    /\ CommitWith(w, Response(o, s, q.id, FALSE),
                  IF s = "ok" THEN {<<"message", q.id>>} ELSE {})
    /\ UNCHANGED <<topic, finished, nextId, profile, joined, now, caches, late>>

\* The user whose row is changed is the one the request names.
UpdateUser(w, o) ==
    LET u == topic[o].about IN
    /\ Take(w, o, {"update"})
    /\ profile[u] < MaxVersion
    /\ profile' = [profile EXCEPT ![u] = @ + 1]
    /\ CommitWith(w, Response(o, "ok", 0, FALSE), {<<"user", u>>})
    /\ UNCHANGED <<topic, finished, messages, nextId, joined, now, caches, late>>

-----------------------------------------------------------------------------
(* Queries through the cache.                                              *)

Key(q) == IF q.kind = "message" THEN <<"message", q.id>> ELSE <<"user", q.about>>

InTable(k) == k[1] = "user" \/ k[2] \in Stored

\* The version of a row: a message changes once, when it is recalled.
Current(k) ==
    IF k[1] = "user" THEN profile[k[2]]
    ELSE IF k[2] \in Stored /\ messages[k[2]].recalled THEN 1 ELSE 0

\* What the requester is shown of version v: a message is authorized against
\* the database also when it comes from a cache, and masked when recalled.
Answer(o, v) ==
    LET q == topic[o] IN
    IF q.kind = "message" /\ ~CanUserReadMessage(q.user, q.id)
    THEN Response(o, "not_found", 0, FALSE)
    ELSE Response(o, IF q.kind = "message" /\ v = 1 THEN "masked" ELSE "ok",
                  IF q.kind = "message" THEN q.id ELSE 0, FALSE)

Loaded(o, v, fresh) ==
    [Idle EXCEPT !.phase = "loaded", !.op = o, !.value = v, !.fresh = fresh]

\* getFromCache, then the table.
Query(w, o) ==
    LET k == Key(topic[o]) IN
    /\ Take(w, o, {"message", "user"})
    /\ \/ /\ l1[k] # Absent
          /\ CommitWith(w, Answer(o, l1[k]), {})
       \/ /\ l1[k] = Absent /\ l2[k] # Absent
          /\ workers' = [workers EXCEPT ![w] = Loaded(o, l2[k], FALSE)]
          /\ UNCHANGED outbox
       \/ /\ l1[k] = Absent /\ l2[k] = Absent /\ InTable(k)
          /\ workers' = [workers EXCEPT ![w] = Loaded(o, Current(k), TRUE)]
          /\ UNCHANGED outbox
       \/ /\ l1[k] = Absent /\ l2[k] = Absent /\ ~InTable(k)
          /\ CommitWith(w, Response(o, "not_found", 0, FALSE), {})
    /\ UNCHANGED <<topic, finished, db, joined, now, caches, late>>

Changes(q, k) ==
    \/ q.kind = "recall" /\ k = <<"message", q.id>>
    \/ q.kind = "update" /\ k = <<"user", q.about>>

\* The committed changes of a row whose key is not deleted yet from both caches,
\* and whether one of them has its L1 delete still to come.
Unfinished(k) ==
    {r \in outbox : r.op \notin finished /\ r.result = "ok" /\ Changes(topic[r.op], k)}

ClearAhead(k) ==
    \E r \in Unfinished(k) :
        \A w \in Workers : workers[w].op = r.op => workers[w].phase # "clearing"

\* setToCache, or the refill of L1 from L2, and the answer.
Fill(w) ==
    LET t == workers[w]
        k == Key(topic[t.op]) IN
    /\ t.phase = "loaded"
    /\ l1' = [l1 EXCEPT ![k] = t.value]
    /\ l2' = IF t.fresh THEN [l2 EXCEPT ![k] = t.value] ELSE l2
    /\ leaked' = IF t.value # Current(k) /\ ~ClearAhead(k) THEN leaked \cup {k} ELSE leaked
    /\ CommitWith(w, Answer(t.op, t.value), {})
    /\ UNCHANGED <<topic, finished, db, joined, now, late>>

\* clearCacheKeys deletes a key from L1.
ClearL1(w) ==
    LET K == workers[w].keys IN
    /\ workers[w].phase = "committed" /\ K # {}
    /\ l1' = [k \in Keys |-> IF k \in K THEN Absent ELSE l1[k]]
    /\ workers' = [workers EXCEPT ![w].phase = "clearing"]
    /\ UNCHANGED <<topic, finished, db, joined, now, l2, leaked, outbox, late>>

\* The message is handled, and its offset is marked.
Finished(w) ==
    /\ \/ workers[w].phase = "committed" /\ workers[w].keys = {}
       \/ workers[w].phase = "clearing"
    /\ finished' = finished \cup {workers[w].op}
    /\ workers' = [workers EXCEPT ![w] = Idle]
    /\ UNCHANGED <<topic, db, joined, now, l1, outbox, late>>

\* ... and from L2.
Finish(w) ==
    /\ Finished(w)
    /\ l2' = [k \in Keys |-> IF k \in workers[w].keys THEN Absent ELSE l2[k]]
    /\ UNCHANGED leaked

-----------------------------------------------------------------------------
(* Paging.                                                                 *)

After(p, c) == p.at > c.at \/ (p.at = c.at /\ p.id > c.id)

Place(i) == [at |-> messages[i].at, id |-> i]

\* The two halves of the UNION ALL.
Visible(u, i) ==
    \/ messages[i].to = u
    \/ messages[i].to = Group /\ joined[u] # Absent /\ messages[i].at >= joined[u]

Unseen(u, c) == {i \in Stored : Visible(u, i) /\ After(Place(i), c)}

PageOfNewest(u, c) ==
    {i \in Unseen(u, c) :
        Cardinality({j \in Unseen(u, c) : After(Place(j), Place(i))}) < PageSize}

Page(u, c) ==
    {i \in Unseen(u, c) :
        Cardinality({j \in Unseen(u, c) : After(Place(i), Place(j))}) < PageSize}

\* An empty page carries no cursor.
NextCursor(P, c) ==
    IF P = {} THEN c ELSE Place(CHOOSE i \in P : \A j \in P : ~After(Place(j), Place(i)))

\* A transaction that may store a row, and the least place the row can get.
Open(v) ==
    \/ workers[v].phase = "stamped"
    \/ workers[v].phase = "inserted" /\ workers[v].created

OpenPlace(v) ==
    [at |-> workers[v].at,
     id |-> IF workers[v].phase = "stamped" THEN nextId ELSE workers[v].id]

QuerySyncMessages(w, o) ==
    LET q == topic[o]
        P == Page(q.user, q.cursor)
        n == NextCursor(P, q.cursor)
        Passed(v) == Open(v) /\ ~After(OpenPlace(v), n) IN
    /\ Take(w, o, {"sync"})
    /\ CommitWith(w, [Response(o, "ok", 0, FALSE) EXCEPT !.ids = P, !.next = n], {})
    /\ late' = late \cup {workers[v].op : v \in {x \in Workers : Passed(x)}}
    /\ UNCHANGED <<topic, finished, db, joined, now, caches>>

-----------------------------------------------------------------------------
(* Faults.                                                                 *)

\* The transaction fails and the request is retried, or after the last retry
\* it goes to the dead-letter topic.
Fail(w) ==
    /\ workers[w].phase \in {"stamped", "inserted", "loaded"}
    /\ workers' = [workers EXCEPT ![w] = Idle]
    /\ finished' \in {finished, finished \cup {workers[w].op}}
    /\ UNCHANGED <<topic, db, joined, now, caches, outbox, late>>

\* The process dies with its cache; what is not marked is delivered again.
Crash ==
    /\ workers' = [w \in Workers |-> Idle]
    /\ l1' = [k \in Keys |-> Absent]
    /\ UNCHANGED <<topic, finished, db, joined, now, l2, leaked, outbox, late>>

\* An entry of a cache reaches its time to live.
Evict(k) ==
    /\ \/ l1[k] # Absent /\ l1' = [l1 EXCEPT ![k] = Absent] /\ UNCHANGED l2
       \/ l2[k] # Absent /\ l2' = [l2 EXCEPT ![k] = Absent] /\ UNCHANGED l1
    /\ UNCHANGED <<topic, finished, db, joined, now, leaked, workers, outbox, late>>

\* The redis DEL of a clear fails, which is only logged.
FinishClearingL1(w) ==
    /\ workers[w].phase = "clearing"
    /\ Finished(w)
    /\ leaked' = leaked \cup workers[w].keys
    /\ UNCHANGED l2

StorageFault == Crash \/ \E w \in Workers : Fail(w) \/ FinishClearingL1(w)

StorageStep ==
    \E w \in Workers :
        \/ StoreNewMessage(w) \/ CommitStore(w) \/ Fill(w) \/ ClearL1(w) \/ Finish(w)
        \/ \E o \in DOMAIN topic : \/ StampMessage(w, o) \/ RecallMessage(w, o)
                                   \/ UpdateUser(w, o) \/ Query(w, o)
                                   \/ QuerySyncMessages(w, o) \/ Replay(w, o)

-----------------------------------------------------------------------------
StorageTypeOK ==
    /\ topic \in Seq(Requests)
    /\ finished \subseteq DOMAIN topic
    /\ messages \in [Ids -> Rows \cup {NoRow}]
    /\ nextId \in 1 .. MaxId + 1
    /\ \A i \in Stored : i < nextId
    /\ profile \in [Users -> Versions]
    /\ joined \in [Users -> Times \cup {Absent}]
    /\ now \in Times
    /\ l1 \in [Keys -> Versions \cup {Absent}]
    /\ l2 \in [Keys -> Versions \cup {Absent}]
    /\ \A w \in Workers : /\ workers[w].phase \in {"idle", "stamped", "inserted", "loaded",
                                                    "committed", "clearing"}
                          /\ workers[w].phase # "idle" => workers[w].op \in DOMAIN topic
                          /\ workers[w].keys \subseteq Keys
    /\ \A r \in outbox : r.op \in DOMAIN topic /\ r.user = topic[r.op].user
    /\ \A r, s \in outbox : r.op = s.op => r = s
    /\ leaked \subseteq Keys /\ late \subseteq DOMAIN topic

\* A cache holds an old version of a row (a recalled message's content, a
\* user's former name) only until the operation that changed the row is
\* finished - also when the process dies between the commit and the deletes -
\* unless a query wrote an old copy after the key was deleted from L1, be it
\* one it had read before the commit or one it found in L2 between the two
\* deletes, or Redis failed the delete.
StaleOnlyByRace ==
    \A k \in Keys \ leaked : \A c \in {l1, l2} :
        c[k] \notin {Absent, Current(k)} => Unfinished(k) # {}
=============================================================================
