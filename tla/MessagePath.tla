---------------------------- MODULE MessagePath -----------------------------
(***************************************************************************)
(* A message from its sender to its readers: the containers of             *)
(* dataForwardingService take posts, recalls and queries from WebSocket    *)
(* connections, publish them to storageService, and handle the responses,  *)
(* the records other containers forward and the deliveries they fan out.   *)
(*                                                                         *)
(* A container's topic is a set of records: it has several partitions and  *)
(* the records carry no key.  A record leaves the set when its offset is   *)
(* marked, so a consumer that dies handles it again; the outbox relay may  *)
(* publish a response twice.  A frame is what a connection is handed; its  *)
(* wire format matters, because a container forwards bytes that the other  *)
(* parses as a RequestMessage while clients parse a ResponseMessage (Post  *)
(* has field 5 in the one and 6 in the other).                             *)
(***************************************************************************)
EXTENDS StorageService

CONSTANTS
    Posts,       \* the messages users write, with user, client and to
    Asks,        \* the recalls, queries and updates users may send
    Movers,      \* bound: the users whose session changes
    Home,        \* where a user is connected at the start
    Claims,      \* the partition consumers of the containers
    MaxRetries,  \* DF_KAFKA_MAX_RETRIES
    Workloads,   \* bound: how often each kind of event happens
    Offline, Pending

Events == {"post", "group", "recall", "message", "user", "sync", "update", "move",
           "member", "tick", "expire", "dup", "fault", "friend", "push", "call"}

ASSUME PathAssumption ==
    /\ Posts \subseteq [user : Users, client : Clients, to : Users \cup {Group}]
    /\ \A q \in Asks : /\ q.kind \in Events \ {"post"} /\ q.user \in Users
                       /\ q.kind \in {"recall", "message"} => q.about \in Ids
                       /\ q.kind \in {"user", "update"} => q.about \in Users
    /\ Movers \subseteq Users
    /\ Home \in [Users -> Containers]
    /\ MaxRetries \in Nat
    /\ Offline \notin Containers
    /\ Pending \notin Nat \cup {Absent}

ASSUME WorkloadAssumption == Workloads \subseteq [Events -> Nat]

VARIABLES
    conn,      \* the users with a connection at a container
    route,     \* ws_connection_mapping
    idem,      \* post:idempotency:<user>:<client id>
    effects,   \* post:effects:<message id>
    df,        \* the records in the containers' topics
    claims,    \* what the consumers are handling
    published, \* the operations whose response the relay has published
    frames,    \* history: what the clients could read
    lost,      \* history: frames in a format their receiver cannot read
    pushes,    \* history: push requests per message
    released,  \* history: how often a message's effects key was released
    moved,     \* history: users that reconnected at another container
    cursor,    \* the clients' sync cursor
    synced,    \* history: the messages of the pages a client has read
    budget

routing == <<conn, route, moved>>
redis == <<idem, effects>>
seen == <<frames, lost, pushes, released, cursor, synced>>
vars == <<storageVars, routing, redis, df, claims, published, seen, budget>>

Free == [phase |-> "idle", record |-> 0, attempt |-> 0, targets |-> {}, routes |-> Home]

IdemKeys == Users \X Clients

Init ==
    /\ StorageInit
    /\ route = Home
    /\ conn = [c \in Containers |-> {u \in Users : Home[u] = c}]
    /\ idem = [k \in IdemKeys |-> Absent] /\ effects = {}
    /\ df = {} /\ published = {}
    /\ claims = [k \in Claims |-> Free]
    /\ frames = {} /\ lost = {} /\ moved = {}
    /\ pushes = [i \in Ids |-> 0] /\ released = [i \in Ids |-> 0]
    /\ cursor = [u \in Users |-> Start] /\ synced = [u \in Users |-> {}]
    /\ budget \in Workloads

Spend(e) == budget[e] > 0 /\ budget' = [budget EXCEPT ![e] = @ - 1]

-----------------------------------------------------------------------------
(* Routing.                                                                *)

\* A frame for a user: a post, a recall event or an answer; an ack names the
\* client id as well.
Frame(u, kind, i) == [user |-> u, kind |-> kind, id |-> i]

PostAck(u, c, i) == [user |-> u, kind |-> "ack", client |-> c, id |-> i]

\* What RouteMessage does with a frame for u at c: a local connection comes
\* before the route in Redis; without either it fails.
RoutePath(c, u) ==
    IF u \in conn[c] THEN "local"
    ELSE IF route[u] \in {Offline, c} THEN "error" ELSE "cross"

\* The record routeCrossContainer publishes.
Forward(f, format) == [to |-> route[f.user], kind |-> "forward", frame |-> f, format |-> format]

\* The frames F, all in one format, are routed from c; D are records fanned
\* out as well and done the record that is finished.
RouteAll(c, F, format, D, done) ==
    LET Going(p) == {f \in F : RoutePath(c, f.user) = p} IN
    /\ IF format = "response"
       THEN frames' = frames \cup Going("local") /\ UNCHANGED lost
       ELSE lost' = lost \cup Going("local") /\ UNCHANGED frames
    /\ df' = (df \ done) \cup D \cup {Forward(f, format) : f \in Going("cross")}

Fails(c, F) == \E f \in F : RoutePath(c, f.user) = "error"

\* RouteMessage returns an error for one of F: it reaches no connection, or
\* Redis fails its lookup or Kafka the forwarding.
RouteError(c, F) ==
    \/ Fails(c, F) /\ UNCHANGED budget
    \/ (\E f \in F : RoutePath(c, f.user) # "local") /\ Spend("fault")

\* Some of F were handed over before that.
ToldSome(c, F) ==
    /\ \E told \in SUBSET {f \in F : RoutePath(c, f.user) = "local"} :
          frames' = frames \cup told
    /\ UNCHANGED lost

-----------------------------------------------------------------------------
(* Requests of the clients, at the container of a connection.              *)

Publish(q) == topic' = Append(topic, q)

storageRest == <<finished, db, joined, now, caches, workers, outbox, late>>

\* A member of the group posts to it; everyone may post to a user.  A post
\* whose key is pending is ignored.  A publication that fails releases the key
\* again and leaves nothing.
HandlePost(c, p) ==
    LET k == <<p.user, p.client>>
        q == [kind |-> "store", user |-> p.user, topic |-> c, to |-> p.to, client |-> p.client] IN
    /\ Spend(IF p.to = Group THEN "group" ELSE "post")
    /\ p.user \in conn[c]
    /\ p.to = Group => p.user \in Members
    /\ \/ /\ idem[k] = Absent
          /\ idem' = [idem EXCEPT ![k] = Pending]
          /\ Publish(q)
          /\ UNCHANGED frames
       \/ /\ idem[k] \notin {Absent, Pending}
          /\ frames' = frames \cup {PostAck(p.user, p.client, idem[k])}
          /\ UNCHANGED <<idem, topic>>
    /\ UNCHANGED <<storageRest, routing, effects, df, claims, published, lost, pushes,
                   released, cursor, synced>>

\* The container dies between the claim of the key and the publication.
DieBeforePublish(p) ==
    /\ Spend("fault")
    /\ idem[<<p.user, p.client>>] = Absent
    /\ idem' = [idem EXCEPT ![<<p.user, p.client>>] = Pending]
    /\ UNCHANGED <<storageVars, routing, effects, df, claims, published, seen>>

\* postPendingTTL or postCompletedTTL passes.
ExpireKey(k) ==
    /\ Spend("expire")
    /\ idem[k] # Absent
    /\ idem' = [idem EXCEPT ![k] = Absent]
    /\ UNCHANGED <<storageVars, routing, effects, df, claims, published, seen>>

\* A request that is published as it is, with the topic of the container.
Ask(c, q) ==
    /\ Spend(q.kind)
    /\ q.user \in conn[c]
    /\ Publish(q)
    /\ UNCHANGED <<storageRest, routing, redis, df, claims, published, seen>>

HandleRecallMessage(c, q) ==
    /\ q.kind = "recall"
    /\ Ask(c, [kind |-> "recall", user |-> q.user, topic |-> c, id |-> q.about])

HandleQueryMessage(c, q) ==
    /\ q.kind = "message"
    /\ Ask(c, [kind |-> "message", user |-> q.user, topic |-> c, id |-> q.about])

HandleQueryUser(c, q) ==
    /\ q.kind = "user"
    /\ Ask(c, [kind |-> "user", user |-> q.user, topic |-> c, about |-> q.about])

\* A user syncs its own messages.
HandleQuerySyncMessages(c, q) ==
    /\ q.kind = "sync"
    /\ Ask(c, [kind |-> "sync", user |-> q.user, topic |-> c, cursor |-> cursor[q.user]])

\* The user to be changed is taken from the payload, whoever asks.
HandleUpdateUser(c, q) ==
    /\ q.kind = "update"
    /\ Ask(c, [kind |-> "update", user |-> q.user, topic |-> c, about |-> q.about])

\* A user's request is answered by another service, at the container that asked.
Answered(c, u, kind) ==
    /\ Spend(kind)
    /\ u \in conn[c]
    /\ df' = df \cup {[to |-> c, kind |-> kind, user |-> u, id |-> 0]}
    /\ UNCHANGED <<storageVars, routing, redis, claims, published, seen>>

FriendRequest(c, u) == Answered(c, u, "friend")

PushRequest(c, u) == Answered(c, u, "push")

-----------------------------------------------------------------------------
(* The consumer of a container's topic.                                    *)

\* The outbox relay publishes a response at least once.
Relay(r) ==
    /\ r \in outbox
    /\ \/ r.op \notin published /\ UNCHANGED budget
       \/ r.op \in published /\ Spend("dup")
    /\ published' = published \cup {r.op}
    /\ \E n \in 1 .. 2 :
          LET d == [to |-> r.topic, kind |-> "storage", rsp |-> r, copy |-> n] IN
          /\ d \notin df /\ (n = 2 => [d EXCEPT !.copy = 1] \in df)
          /\ df' = df \cup {d}
    /\ UNCHANGED <<storageVars, routing, redis, claims, seen>>

Set(k, c) == claims' = [claims EXCEPT ![k] = c]

At(k, phase) == claims[k].phase = phase

\* The record still needs its answer to the user who asked.
ToAnswer(k) ==
    Set(k, [claims[k] EXCEPT !.phase = "answer", !.targets = {}, !.routes = Home])

Receive(k, d) ==
    /\ At(k, "idle")
    /\ d \in df
    /\ \A j \in {i \in Claims : ~At(i, "idle")} : claims[j].record # d
    /\ Set(k, [Free EXCEPT !.phase = "start", !.record = d])
    /\ UNCHANGED <<storageVars, routing, redis, df, published, seen, budget>>

OneRetryMore(t) == t.attempt <= MaxRetries

RetriesLeft(t) == t.attempt < MaxRetries

\* processWithRetry: the record is handled again from the start, or after the
\* last retry it is written to the dead-letter topic and marked.
Retry(k) ==
    LET t == claims[k] IN
    IF RetriesLeft(t)
    THEN Set(k, [t EXCEPT !.phase = "start", !.attempt = @ + 1]) /\ UNCHANGED df
    ELSE Set(k, Free) /\ df' = df \ {t.record}

Rsp(k) == claims[k].record.rsp

\* claims of the consumer's phase that handle a storage response of a kind
Handling(k, phase, kinds) ==
    /\ At(k, phase)
    /\ claims[k].record.kind = "storage"
    /\ Rsp(k).kind \in kinds

ClaimAlways(i) == TRUE

ClaimPostEffects(i) == i \notin effects

\* CompletePostIdempotency, then the SETNX of claimPostEffects for a message
\* the store created.
HandleStoreResponse(k) ==
    LET r == Rsp(k) IN
    /\ Handling(k, "start", {"store"})
    /\ idem' = [idem EXCEPT ![<<r.user, r.client>>] = r.id]
    /\ IF r.created /\ ClaimPostEffects(r.id)
       THEN effects' = effects \cup {r.id} /\ Set(k, [claims[k] EXCEPT !.phase = "deliver"])
       ELSE UNCHANGED effects /\ ToAnswer(k)
    /\ UNCHANGED <<storageVars, routing, df, published, seen, budget>>

\* Redis fails: both errors are only logged, and the message is not delivered.
HandleStoreResponseWithoutRedis(k) ==
    /\ Handling(k, "start", {"store"})
    /\ Spend("fault")
    /\ ToAnswer(k)
    /\ UNCHANGED <<storageVars, routing, redis, df, published, seen>>

PostOf(k) == messages[Rsp(k).id]

\* The readers of a message that are told of it.
Targets(m) == IF m.to = Group THEN Members \ {m.from} ELSE {m.to}

GiveUpEffects(k) ==
    /\ effects' = effects \ {Rsp(k).id}
    /\ released' = [released EXCEPT ![Rsp(k).id] = @ + 1]
    /\ ToAnswer(k)

\* DeliverStoredPost up to the routing: the push is requested before the
\* routes are used; a sender that left the group, a reader that is offline and
\* a Redis error release the effects key.
DeliverStoredPost(k) ==
    LET m == PostOf(k)
        Allowed == m.to = Group => m.from \in Members
        Found == m.to \notin {u \in Users : route[u] = Offline} IN
    /\ At(k, "deliver")
    /\ pushes' = IF Allowed /\ Targets(m) # {}
                 THEN [pushes EXCEPT ![Rsp(k).id] = @ + 1] ELSE pushes
    /\ \/ /\ Allowed /\ Found
          /\ Set(k, [claims[k] EXCEPT !.phase = "route", !.targets = Targets(m), !.routes = route])
          /\ UNCHANGED <<effects, released, budget>>
       \/ /\ ~(Allowed /\ Found)
          /\ GiveUpEffects(k)
          /\ UNCHANGED budget
       \/ /\ Allowed /\ Found /\ Spend("fault")
          /\ GiveUpEffects(k)
    /\ UNCHANGED <<storageVars, routing, idem, df, published, frames, lost, cursor, synced>>

PostFrame(k, u) == Frame(u, "post", Rsp(k).id)

FormatAlwaysRequest(k, c, u) == "request"

\* The bytes are built for the container the route named when it was read.
PostFormat(k, c, u) == IF claims[k].routes[u] = c THEN "response" ELSE "request"

\* routePostToTarget for the one reader of a direct message.
RoutePost(k) ==
    LET c == claims[k].record.to
        u == PostOf(k).to IN
    /\ At(k, "route")
    /\ u # Group
    /\ \/ /\ ~Fails(c, {PostFrame(k, u)})
          /\ RouteAll(c, {PostFrame(k, u)}, PostFormat(k, c, u), {}, {})
          /\ ToAnswer(k)
          /\ UNCHANGED <<effects, released, budget>>
       \/ /\ RouteError(c, {PostFrame(k, u)})
          /\ GiveUpEffects(k)
          /\ UNCHANGED <<frames, lost, df>>
    /\ UNCHANGED <<storageVars, routing, idem, published, pushes, cursor, synced>>

\* One record per other container, with the readers routed there.
FanOut(c, T, R, kind, i) ==
    {[to |-> x, kind |-> kind, id |-> i, targets |-> {u \in T : R[u] = x}] :
        x \in {R[u] : u \in T} \ {c, Offline}}

\* routeGroupMessage: a reader that cannot be reached is skipped.
RouteGroupPost(k) ==
    LET c == claims[k].record.to
        T == claims[k].targets
        R == claims[k].routes
        Local == {PostFrame(k, u) : u \in {v \in T : R[v] = c}}
        D == FanOut(c, T, R, "post", Rsp(k).id) IN
    /\ At(k, "route")
    /\ PostOf(k).to = Group
    /\ \/ RouteAll(c, Local, "response", D, {}) /\ UNCHANGED budget
       \/ /\ D # {} /\ Spend("fault")  \* of the publication for some containers
          /\ \E E \in SUBSET D : RouteAll(c, Local, "response", E, {})
    /\ ToAnswer(k)
    /\ UNCHANGED <<storageVars, routing, redis, published, pushes, released, cursor, synced>>

\* DeliverMessageRecall: an error is returned after some were told.
DeliverMessageRecall(k) ==
    LET c == claims[k].record.to
        T == Targets(PostOf(k)) \ {Rsp(k).user}
        Local == {Frame(u, "recall", Rsp(k).id) : u \in {v \in T : route[v] = c}} IN
    /\ Handling(k, "start", {"recall"})
    /\ Rsp(k).result = "ok"
    /\ \/ /\ ~Fails(c, Local)
          /\ RouteAll(c, Local, "response", FanOut(c, T, route, "recall", Rsp(k).id), {})
          /\ ToAnswer(k)
          /\ UNCHANGED budget
       \/ /\ Fails(c, Local) /\ UNCHANGED budget
          /\ ToldSome(c, Local)
          /\ Retry(k)
       \/ /\ T # {} /\ Spend("fault")  \* of the push request, a lookup or a publication
          /\ ToldSome(c, Local)
          /\ Retry(k)
    /\ UNCHANGED <<storageVars, routing, redis, published, pushes, released, cursor, synced>>

\* The other responses only have an answer.
HandleOther(k) ==
    /\ At(k, "start")
    /\ claims[k].record.kind = "storage"
    /\ \/ Rsp(k).kind \notin {"store", "recall"}
       \/ Rsp(k).kind = "recall" /\ Rsp(k).result # "ok"
    /\ ToAnswer(k)
    /\ UNCHANGED <<storageVars, routing, redis, df, published, seen, budget>>

AnswerFrame(r) ==
    IF r.kind = "store" THEN PostAck(r.user, r.client, r.id) ELSE Frame(r.user, r.kind, r.id)

\* SendMessage of the response; a client that reads a page moves its cursor.
SendAnswer(k) ==
    LET d == claims[k].record
        F == {AnswerFrame(d.rsp)} IN
    /\ At(k, "answer")
    /\ \/ /\ ~Fails(d.to, F)
          /\ RouteAll(d.to, F, "response", {}, {d})
          /\ Set(k, Free)
          /\ IF d.rsp.kind = "sync" /\ RoutePath(d.to, d.rsp.user) = "local"
             THEN /\ cursor' = [cursor EXCEPT ![d.rsp.user] = d.rsp.next]
                  /\ synced' = [synced EXCEPT ![d.rsp.user] = @ \cup d.rsp.ids]
             ELSE UNCHANGED <<cursor, synced>>
          /\ UNCHANGED budget
       \/ /\ RouteError(d.to, F)
          /\ Retry(k)
          /\ UNCHANGED <<frames, lost, cursor, synced>>
    /\ UNCHANGED <<storageVars, routing, redis, published, pushes, released>>

\* A DF_REQUEST record: a Post is routed on as a ResponseMessage, bytes that
\* are not a Post are a permanent error.
HandleForward(k) ==
    LET d == claims[k].record IN
    /\ At(k, "start") /\ d.kind = "forward"
    /\ \/ /\ d.format = "request" /\ ~Fails(d.to, {d.frame})
          /\ RouteAll(d.to, {d.frame}, "response", {}, {d})
          /\ Set(k, Free)
          /\ UNCHANGED budget
       \/ /\ d.format = "request" /\ RouteError(d.to, {d.frame})
          /\ Retry(k)
          /\ UNCHANGED <<frames, lost>>
       \/ /\ d.format = "response"
          /\ lost' = lost \cup {d.frame}
          /\ df' = df \ {d}
          /\ Set(k, Free)
          /\ UNCHANGED <<frames, budget>>
    /\ UNCHANGED <<storageVars, routing, redis, published, pushes, released, cursor, synced>>

\* A DF_RESPONSE record: the readers are told one by one until one fails.
HandleDFResponse(k) ==
    LET d == claims[k].record
        F == {Frame(u, d.kind, d.id) : u \in d.targets} IN
    /\ At(k, "start") /\ d.kind \in {"post", "recall"}
    /\ \/ /\ ~Fails(d.to, F)
          /\ RouteAll(d.to, F, "response", {}, {d})
          /\ Set(k, Free)
          /\ UNCHANGED budget
       \/ /\ RouteError(d.to, F)
          /\ ToldSome(d.to, F)
          /\ Retry(k)
    /\ UNCHANGED <<storageVars, routing, redis, published, pushes, released, cursor, synced>>

\* A record of another service for one user: its frame is sent like an answer.
Notify(k, kind) ==
    LET d == claims[k].record
        F == {Frame(d.user, d.kind, d.id)} IN
    /\ At(k, "start") /\ d.kind = kind
    /\ \/ /\ ~Fails(d.to, F)
          /\ RouteAll(d.to, F, "response", {}, {d})
          /\ Set(k, Free)
          /\ UNCHANGED budget
       \/ /\ RouteError(d.to, F)
          /\ Retry(k)
          /\ UNCHANGED <<frames, lost>>
    /\ UNCHANGED <<storageVars, routing, redis, published, pushes, released, cursor, synced>>

HandleFriendResponse(k) == Notify(k, "friend")

HandlePushResponse(k) == Notify(k, "push")

HandleCallDelivery(k) == Notify(k, "call")

\* The container loses the partition or dies; the record is not marked.
DropClaim(k) ==
    /\ Spend("fault")
    /\ ~At(k, "idle")
    /\ Set(k, Free)
    /\ UNCHANGED <<storageVars, routing, redis, df, published, seen>>

-----------------------------------------------------------------------------
(* Sessions, membership and time.                                          *)

\* A user logs in at c; the connection it leaves is closed later.
Login(u, c) ==
    /\ Spend("move")
    /\ route[u] # c
    /\ route' = [route EXCEPT ![u] = c]
    /\ conn' = [conn EXCEPT ![c] = @ \cup {u}]
    /\ moved' = moved \cup {u}
    /\ UNCHANGED <<storageVars, redis, df, claims, published, seen>>

\* A connection is removed; its route is deleted, or its lease ends, later.
Disconnect(u) ==
    /\ Spend("move")
    /\ \E c \in Containers : /\ route[u] = c /\ u \in conn[c]
                             /\ conn' = [conn EXCEPT ![c] = @ \ {u}]
    /\ UNCHANGED <<storageVars, route, moved, redis, df, claims, published, seen>>

LoseRoute(u) ==
    /\ \E c \in Containers : route[u] = c /\ u \notin conn[c]
    /\ route' = [route EXCEPT ![u] = Offline]
    /\ UNCHANGED <<storageVars, conn, moved, redis, df, claims, published, seen, budget>>

CloseStale(u, c) ==
    /\ u \in conn[c] /\ route[u] # c
    /\ conn' = [conn EXCEPT ![c] = @ \ {u}]
    /\ UNCHANGED <<storageVars, route, moved, redis, df, claims, published, seen, budget>>

\* A member leaves the group, or joins it again.
ChangeMember(u) ==
    /\ Spend("member")
    /\ joined' = [joined EXCEPT ![u] = IF @ = Absent THEN now ELSE Absent]
    /\ UNCHANGED <<topic, finished, db, now, caches, workers, outbox, late, routing, redis,
                   df, claims, published, seen>>

Tick ==
    /\ Spend("tick")
    /\ now < MaxClock
    /\ now' = now + 1
    /\ UNCHANGED <<topic, finished, db, joined, caches, workers, outbox, late, routing, redis,
                   df, claims, published, seen>>

dfVars == <<routing, redis, df, claims, published, seen>>

Client ==
    \E c \in Containers :
        \/ \E p \in Posts : HandlePost(c, p)
        \/ \E q \in Asks : \/ HandleRecallMessage(c, q) \/ HandleQueryMessage(c, q)
                           \/ HandleQueryUser(c, q) \/ HandleQuerySyncMessages(c, q)
                           \/ HandleUpdateUser(c, q)
        \/ \E u \in Movers : \/ Login(u, c) \/ CloseStale(u, c)
                             \/ FriendRequest(c, u) \/ PushRequest(c, u)

Consume ==
    \E k \in Claims :
        \/ \E d \in df : Receive(k, d)
        \/ HandleStoreResponse(k) \/ HandleStoreResponseWithoutRedis(k)
        \/ DeliverStoredPost(k) \/ RoutePost(k) \/ RouteGroupPost(k)
        \/ DeliverMessageRecall(k) \/ HandleOther(k) \/ SendAnswer(k)
        \/ HandleForward(k) \/ HandleDFResponse(k) \/ DropClaim(k)
        \/ HandleFriendResponse(k) \/ HandlePushResponse(k) \/ HandleCallDelivery(k)

Next ==
    \/ StorageStep /\ UNCHANGED <<dfVars, budget>>
    \/ StorageFault /\ Spend("fault") /\ UNCHANGED dfVars
    \/ (\E k \in Keys : Evict(k)) /\ Spend("expire") /\ UNCHANGED dfVars
    \/ Client \/ Consume
    \/ \E r \in outbox : Relay(r)
    \/ \E u \in Movers : Disconnect(u) \/ LoseRoute(u) \/ ChangeMember(u)
    \/ \E k \in IdemKeys : ExpireKey(k)
    \/ \E p \in Posts : DieBeforePublish(p)
    \/ Tick

Spec == Init /\ [][Next]_vars

-----------------------------------------------------------------------------
(* Properties.                                                             *)

\* The state of storageService and of the containers has its type.
TypeOK ==
    /\ StorageTypeOK
    /\ conn \in [Containers -> SUBSET Users]
    /\ route \in [Users -> Containers \cup {Offline}]
    /\ idem \in [IdemKeys -> {Absent, Pending} \cup Stored]
    /\ effects \subseteq Stored
    /\ published \subseteq {r.op : r \in outbox}
    /\ \A k \in Claims : claims[k].attempt \in 0 .. MaxRetries
    /\ \A f \in frames \cup lost : f.user \in Users
    /\ pushes \in [Ids -> Nat] /\ released \in [Ids -> Nat]
    /\ moved \subseteq Users
    /\ cursor \in [Users -> Cursors] /\ synced \in [Users -> SUBSET Ids]
    /\ budget \in [Events -> Nat]

\* Whatever is retried, duplicated, expired or repeated after a crash, a
\* client's message is stored once, and every acknowledgement - from the
\* storage response or from the idempotency key - names the row of the client
\* id it acknowledges.
AcksAgree ==
    /\ \A i, j \in Stored :
          messages[i].from = messages[j].from /\ messages[i].client = messages[j].client => i = j
    /\ \A f \in frames \cup lost :
          f.kind = "ack" => f.id \in Stored /\ messages[f.id].from = f.user
                                           /\ messages[f.id].client = f.client
    /\ \A k \in IdemKeys :
          idem[k] \in Ids => messages[idem[k]].from = k[1] /\ messages[idem[k]].client = k[2]

\* The push of a message is asked for only after the message is stored, and
\* once: again only where DeliverStoredPost released the effects key after an
\* error and the response was handled again.
EffectsOnce ==
    \A i \in Ids : /\ pushes[i] <= 1 + released[i]
                   /\ pushes[i] > 0 => i \in Stored

\* A client is handed bytes it cannot read, or a container discards bytes it
\* cannot parse, only when the user reconnected at another container.
LostOnlyByMove == \A f \in lost : f.user \in moved

\* A client that follows the cursor has been given every message to it and every
\* message of the group sent after the second in which it joined, up to there -
\* also of equal timestamps - except those whose transaction was still open when
\* a later one was paged.
SyncComplete ==
    \A u \in Users, i \in Stored :
        /\ \/ messages[i].to = u
           \/ messages[i].to = Group /\ joined[u] # Absent /\ joined[u] < messages[i].at
        /\ \/ messages[i].at < cursor[u].at
           \/ messages[i].at = cursor[u].at /\ i <= cursor[u].id
        => i \in synced[u] \cup LateIds
=============================================================================
