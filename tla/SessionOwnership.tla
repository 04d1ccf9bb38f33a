-------------------------- MODULE SessionOwnership --------------------------
(***************************************************************************)
(* Who owns a user's WebSocket session: the connection managers of the     *)
(* dataForwardingService containers, the session, route and lock keys in   *)
(* Redis, the lease refresher of each connection and the kick              *)
(* notifications.  All keys carry the user id, so one user is modelled.    *)
(*                                                                         *)
(* Each connection logs in at most once, with a fresh owner token; the     *)
(* connection stands for its token.  Time is not counted: a key with a     *)
(* time to live may expire at any moment, which also stands for a process  *)
(* that is paused past a deadline or a Redis that is away too long.  The   *)
(* ghost disturbed says that such a thing has happened.                    *)
(***************************************************************************)
EXTENDS Integers, FiniteSets

CONSTANTS
    Conns, Containers,
    Home,  \* the container each connection is made to
    None

ASSUME OwnershipAssumption ==
    /\ Home \in [Conns -> Containers]
    /\ IsFiniteSet(Conns)
    /\ None \notin Conns \cup Containers

VARIABLES
    life,       \* a connection: not yet made, open, authenticated, or no
                \* longer in the manager's map
    closed,     \* Connection.closed
    pc,         \* how far its Login is
    removing,   \* RemoveConnection has detached it and will clean up Redis
    userConn,   \* a container's userConnections entry
    loggedIn,   \* a container's loggedInCount
    connCount,  \* a container's connectionCount
    userLock,   \* a container's keyed lock
    lock,       \* user_lock:<user>
    sess,       \* user_session:<user>
    mapping,    \* ws_connection_mapping
    lease,      \* ws_route_lease:<user>
    members,    \* the containers whose container_connections lists the user
    kicks,      \* notifications on the user_kick channels, with their token
    kafkaKicks, \* records of user-kick-topic
    disturbed

local  == <<life, closed, userConn, loggedIn, connCount>>
routes == <<sess, mapping, lease, members>>
notes  == <<kicks, kafkaKicks>>
vars   == <<local, pc, removing, userLock, lock, routes, notes, disturbed>>

Kick(k, x) == [to |-> k, token |-> x]

InProgress == {"locking", "locked", "kicked", "claimed"}

TypeOK ==
    /\ life \in [Conns -> {"none", "open", "auth", "gone"}]
    /\ closed \in [Conns -> BOOLEAN]
    /\ pc \in [Conns -> {"idle", "in", "failed"} \cup InProgress]
    /\ removing \in [Conns -> BOOLEAN]
    /\ userConn \in [Containers -> Conns \cup {None}]
    /\ loggedIn \in [Containers -> Nat]
    /\ connCount \in [Containers -> Nat]
    /\ userLock \in [Containers -> Conns \cup {None}]
    /\ lock \in Conns \cup {None}
    /\ sess \in Conns \cup {None}
    /\ mapping \in Containers \cup {None}
    /\ lease \in Conns \cup {None}
    /\ members \subseteq Containers
    /\ kicks \subseteq [to : Containers, token : Conns \cup {None}]
    /\ kafkaKicks \subseteq Conns
    /\ disturbed \in BOOLEAN

Init ==
    /\ life = [x \in Conns |-> "none"]
    /\ closed = [x \in Conns |-> FALSE]
    /\ pc = [x \in Conns |-> "idle"]
    /\ removing = [x \in Conns |-> FALSE]
    /\ userConn = [k \in Containers |-> None]
    /\ loggedIn = [k \in Containers |-> 0]
    /\ connCount = [k \in Containers |-> 0]
    /\ userLock = [k \in Containers |-> None]
    /\ lock = None
    /\ sess = None
    /\ mapping = None
    /\ lease = None
    /\ members = {}
    /\ kicks = {}
    /\ kafkaKicks = {}
    /\ disturbed = FALSE

-----------------------------------------------------------------------------
(* The scripts.                                                            *)

\* Mutant: the previous container keeps the user in its set.
ClaimKeepsMember(x) ==
    /\ members' = members \cup {Home[x]}
    /\ sess' = x
    /\ mapping' = Home[x]
    /\ lease' = x

\* claimSessionAndRouteScript
ClaimSessionAndRoute(x) ==
    /\ members' = (members \ ({mapping} \ {Home[x]})) \cup {Home[x]}
    /\ sess' = x
    /\ mapping' = Home[x]
    /\ lease' = x

Owns(x) == sess = x /\ mapping = Home[x] /\ lease = x

\* Mutant: the container is compared, not the owner token.
RemoveByContainer(x) ==
    /\ sess' = IF sess # None /\ Home[sess] = Home[x] THEN None ELSE sess
    /\ IF lease # None /\ Home[lease] = Home[x] /\ mapping = Home[x]
       THEN /\ lease' = None
            /\ mapping' = None
            /\ members' = members \ {Home[x]}
       ELSE UNCHANGED <<lease, mapping, members>>

\* removeOwnedSessionAndRouteScript
RemoveOwnedSessionAndRoute(x) ==
    /\ sess' = IF sess = x THEN None ELSE sess
    /\ IF lease = x /\ mapping = Home[x]
       THEN /\ lease' = None
            /\ mapping' = None
            /\ members' = members \ {Home[x]}
       ELSE UNCHANGED <<lease, mapping, members>>

-----------------------------------------------------------------------------
(* ConnectionManager.                                                      *)

AddConnection(x) ==
    /\ life[x] = "none"
    /\ life' = [life EXCEPT ![x] = "open"]
    /\ connCount' = [connCount EXCEPT ![Home[x]] = @ + 1]
    /\ UNCHANGED <<closed, pc, removing, userConn, loggedIn, userLock, lock,
                   routes, notes, disturbed>>

\* handleLogin, once the auth service has accepted the credentials, calls
\* Login, which waits for the keyed lock of the container and then looks at the
\* state of the connection.
LockUser(x) ==
    /\ life[x] = "open" /\ pc[x] = "idle"
    /\ userLock[Home[x]] = None
    /\ IF closed[x]
       THEN /\ pc' = [pc EXCEPT ![x] = "failed"]
            /\ UNCHANGED userLock
       ELSE /\ userLock' = [userLock EXCEPT ![Home[x]] = x]
            /\ pc' = [pc EXCEPT ![x] = "locking"]
    /\ UNCHANGED <<local, removing, lock, routes, notes, disturbed>>

\* Mutant: SET without NX.
LockFreeIgnored == TRUE

LockFree == lock = None

AcquireUserLock(x) ==
    /\ pc[x] = "locking"
    /\ LockFree
    /\ lock' = x
    /\ pc' = [pc EXCEPT ![x] = "locked"]
    /\ UNCHANGED <<local, removing, userLock, routes, notes, disturbed>>

\* SET NX is applied but reported as an error: the lock stays until it expires.
AcquireUnheard(x) ==
    /\ pc[x] = "locking"
    /\ LockFree
    /\ lock' = x
    /\ userLock' = [userLock EXCEPT ![Home[x]] = None]
    /\ pc' = [pc EXCEPT ![x] = "failed"]
    /\ UNCHANGED <<local, removing, routes, notes, disturbed>>

\* The deferred unlocks; the Redis one can fail, and is fenced by the token.
ReleaseLocks(x) ==
    /\ userLock' = [k \in Containers |-> IF userLock[k] = x THEN None
                                                            ELSE userLock[k]]
    /\ lock' \in {lock, IF lock = x THEN None ELSE lock}

\* Login gives up: its context ends, or Redis fails before the claim.
Fail(x) ==
    /\ pc[x] \in {"locking", "locked", "kicked"}
    /\ pc' = [pc EXCEPT ![x] = "failed"]
    /\ ReleaseLocks(x)
    /\ UNCHANGED <<local, removing, routes, notes, disturbed>>

\* The session in Redis is read and its owner notified; when that fails, over
\* Kafka.  (When both fail Login gives up: Fail.)  The two are one step at the
\* read: a notification published later is one that is received later, whatever
\* became of the session in between.  The session has a token, because
\* ClaimSessionAndRoute is all that writes one and newOwnerToken is never empty;
\* the decoder's records without one are an earlier release's.
PublishKick(x) ==
    /\ pc[x] = "locked"
    /\ pc' = [pc EXCEPT ![x] = "kicked"]
    /\ \/ sess = None /\ UNCHANGED <<notes, disturbed>>
       \/ /\ sess # None
          /\ kicks' = kicks \cup {Kick(Home[sess], sess)}
          /\ UNCHANGED <<kafkaKicks, disturbed>>
       \/ /\ sess # None
          /\ kafkaKicks' = kafkaKicks \cup {sess}
          /\ disturbed' = TRUE
          /\ UNCHANGED kicks
    /\ UNCHANGED <<local, removing, userLock, lock, routes>>

Claim(x) ==
    /\ pc[x] = "kicked"
    /\ ClaimSessionAndRoute(x)
    /\ pc' = [pc EXCEPT ![x] = "claimed"]
    /\ UNCHANGED <<local, removing, userLock, lock, notes, disturbed>>

\* The claim is made, but Login is told of an error and does not clean up.
ClaimUnheard(x) ==
    /\ pc[x] = "kicked"
    /\ ClaimSessionAndRoute(x)
    /\ pc' = [pc EXCEPT ![x] = "failed"]
    /\ ReleaseLocks(x)
    /\ disturbed' = TRUE
    /\ UNCHANGED <<local, removing, notes>>

\* Mutant: a replaced connection is still counted as logged in.
LoggedInAfterNoDecrement(k) == loggedIn[k] + 1

\* commitLocalLogin counts the replaced connection out and the new one in.
LoggedInAfter(k) ==
    LET old == userConn[k]
    IN  IF old # None /\ life[old] = "auth" THEN loggedIn[k] ELSE loggedIn[k] + 1

\* commitLocalLogin and the Close of the connection it replaced.
CommitLocalLogin(x) ==
    LET k   == Home[x]
        old == userConn[k]
        out == {old} \ {None, x}
    IN
    /\ pc[x] = "claimed"
    /\ life[x] = "open" /\ ~closed[x]
    /\ life' = [c \in Conns |-> IF c = x THEN "auth"
                                ELSE IF c \in out THEN "gone" ELSE life[c]]
    /\ closed' = [c \in Conns |-> closed[c] \/ c \in out]
    /\ connCount' = [connCount EXCEPT ![k] = @ - Cardinality(out)]
    /\ loggedIn' = [loggedIn EXCEPT ![k] = LoggedInAfter(k)]
    /\ userConn' = [userConn EXCEPT ![k] = x]
    /\ pc' = [pc EXCEPT ![x] = "in"]
    /\ ReleaseLocks(x)
    /\ UNCHANGED <<removing, routes, notes, disturbed>>

\* The context has ended or the connection was closed: the claim is undone,
\* unless Redis fails.
UndoClaim(x) ==
    /\ pc[x] = "claimed"
    /\ pc' = [pc EXCEPT ![x] = "failed"]
    /\ RemoveOwnedSessionAndRoute(x) \/ UNCHANGED routes
    /\ ReleaseLocks(x)
    /\ UNCHANGED <<local, removing, notes, disturbed>>

\* Mutant: the count drops for every authenticated connection that is removed.
DetachCountsAll(x) ==
    LET k     == Home[x]
        owner == life[x] = "auth" /\ userConn[k] = x
    IN
    /\ life' = [life EXCEPT ![x] = "gone"]
    /\ closed' = [closed EXCEPT ![x] = TRUE]
    /\ connCount' = [connCount EXCEPT ![k] = @ - 1]
    /\ userConn' = [userConn EXCEPT ![k] = IF owner THEN None ELSE @]
    /\ loggedIn' = [loggedIn EXCEPT ![k] = @ - 1]
    /\ removing' = [removing EXCEPT ![x] = owner]

\* detachConnection and Close, the first half of RemoveConnection.
Detach(x) ==
    LET k     == Home[x]
        owner == life[x] = "auth" /\ userConn[k] = x
    IN
    /\ life' = [life EXCEPT ![x] = "gone"]
    /\ closed' = [closed EXCEPT ![x] = TRUE]
    /\ connCount' = [connCount EXCEPT ![k] = @ - 1]
    /\ userConn' = [userConn EXCEPT ![k] = IF owner THEN None ELSE @]
    /\ loggedIn' = [loggedIn EXCEPT ![k] = IF owner THEN @ - 1 ELSE @]
    /\ removing' = [removing EXCEPT ![x] = owner]

\* cleanupOwnedSession, the second half; Redis may fail.
CleanupOwnedSession(x) ==
    /\ removing[x]
    /\ removing' = [removing EXCEPT ![x] = FALSE]
    /\ RemoveOwnedSessionAndRoute(x) \/ UNCHANGED routes
    /\ UNCHANGED <<local, pc, userLock, lock, notes, disturbed>>

-----------------------------------------------------------------------------
(* WebSocketHandler.                                                       *)

\* A write or ping fails, or the refresher meets too many Redis failures.
CloseConnection(x) ==
    /\ life[x] \in {"open", "auth"} /\ ~closed[x]
    /\ closed' = [closed EXCEPT ![x] = TRUE]
    /\ UNCHANGED <<life, pc, removing, userConn, loggedIn, connCount, userLock,
                   lock, routes, notes, disturbed>>

\* readProcess ends: the client is gone, or the connection was closed.  Login
\* runs in this goroutine, so it is not in progress.
ReadProcessEnds(x) ==
    /\ life[x] \in {"open", "auth"}
    /\ pc[x] \notin InProgress
    /\ Detach(x)
    /\ UNCHANGED <<pc, userLock, lock, routes, notes, disturbed>>

\* Mutant: the refresher does not act on a lost session.
LosesOwnershipNever(x) == FALSE

LosesOwnership(x) == ~Owns(x)

\* refreshRouteLease; a refresh that succeeds only extends the leases.
RefreshRouteLease(x) ==
    /\ life[x] = "auth" /\ ~closed[x]
    /\ LosesOwnership(x)
    /\ closed' = [closed EXCEPT ![x] = TRUE]
    /\ UNCHANGED <<life, pc, removing, userConn, loggedIn, connCount, userLock,
                   lock, routes, notes, disturbed>>

\* StopUserIfOwner: a kick with the token of the user's connection, or with
\* "*" (None here), removes it.
ReceiveKick(n) ==
    LET x == userConn[n.to] IN
    /\ n \in kicks
    /\ kicks' = kicks \ {n}
    /\ IF x # None /\ n.token \in {None, x}
       THEN Detach(x)
       ELSE UNCHANGED <<local, removing>>
    /\ UNCHANGED <<pc, userLock, lock, routes, kafkaKicks, disturbed>>

\* Pub/Sub does not keep a notification for a subscriber that is reconnecting.
LoseKick(n) ==
    /\ n \in kicks
    /\ kicks' = kicks \ {n}
    /\ disturbed' = TRUE
    /\ UNCHANGED <<local, pc, removing, userLock, lock, routes, kafkaKicks>>

\* The monitor's /kick: "*" to the container of the route.
AdminKick ==
    /\ mapping # None /\ lease # None
    /\ kicks' = kicks \cup {Kick(mapping, None)}
    /\ UNCHANGED <<local, pc, removing, userLock, lock, routes, kafkaKicks,
                   disturbed>>

\* processMessage on "DELETE USER ... OWNER ...": FindStringSubmatch returns
\* four strings, the branch for the kick wants three, and so the record is
\* parsed as an envelope, which fails for good: it goes to the DLQ.
ConsumeKafkaKick(x) ==
    /\ x \in kafkaKicks
    /\ kafkaKicks' = kafkaKicks \ {x}
    /\ UNCHANGED <<local, pc, removing, userLock, lock, routes, kicks, disturbed>>

-----------------------------------------------------------------------------
(* Redis and crashes.                                                      *)

Auth(x) == life[x] = "auth" /\ ~closed[x]

ExpireSession ==
    /\ sess # None
    /\ sess' = None
    /\ disturbed' = (disturbed \/ life[sess] = "auth" \/ pc[sess] = "claimed")
    /\ UNCHANGED <<local, pc, removing, userLock, lock, mapping, lease, members,
                   notes>>

ExpireLease ==
    /\ lease # None
    /\ lease' = None
    /\ disturbed' = (disturbed \/ life[lease] = "auth" \/ pc[lease] = "claimed")
    /\ UNCHANGED <<local, pc, removing, userLock, lock, sess, mapping, members,
                   notes>>

\* The lock outlives its TTL's owner only when the owner was paused.
ExpireLock ==
    /\ lock # None
    /\ lock' = None
    /\ disturbed' = (disturbed \/ pc[lock] \in InProgress)
    /\ UNCHANGED <<local, pc, removing, userLock, routes, notes>>

\* getValidRouteScript and getValidRoutesScript drop a route without a lease.
DropStaleRoute ==
    /\ mapping # None
    /\ lease \notin {x \in Conns : Home[x] = mapping}
    /\ mapping' = None
    /\ members' = members \ {mapping}
    /\ UNCHANGED <<local, pc, removing, userLock, lock, sess, lease, notes,
                   disturbed>>

\* A container dies: its connections are gone and nothing is cleaned up.
Crash(k) ==
    LET here == {x \in Conns : Home[x] = k /\ life[x] # "none"} IN
    /\ \E x \in here : life[x] # "gone"
    /\ life' = [x \in Conns |-> IF x \in here THEN "gone" ELSE life[x]]
    /\ closed' = [x \in Conns |-> closed[x] \/ x \in here]
    /\ pc' = [x \in Conns |-> IF x \in here THEN "failed" ELSE pc[x]]
    /\ removing' = [x \in Conns |-> removing[x] /\ x \notin here]
    /\ userConn' = [userConn EXCEPT ![k] = None]
    /\ loggedIn' = [loggedIn EXCEPT ![k] = 0]
    /\ connCount' = [connCount EXCEPT ![k] = 0]
    /\ userLock' = [userLock EXCEPT ![k] = None]
    /\ kicks' = {n \in kicks : n.to # k}
    /\ UNCHANGED <<lock, routes, kafkaKicks, disturbed>>

LoginStep(x) == \/ LockUser(x)
                \/ AcquireUserLock(x)
                \/ AcquireUnheard(x)
                \/ Fail(x)
                \/ PublishKick(x)
                \/ Claim(x)
                \/ ClaimUnheard(x)
                \/ CommitLocalLogin(x)
                \/ UndoClaim(x)

ConnectionStep(x) == \/ AddConnection(x)
                     \/ CleanupOwnedSession(x)
                     \/ CloseConnection(x)
                     \/ ReadProcessEnds(x)
                     \/ RefreshRouteLease(x)
                     \/ ConsumeKafkaKick(x)

Redis == \/ \E n \in kicks : ReceiveKick(n) \/ LoseKick(n)
         \/ AdminKick
         \/ ExpireSession
         \/ ExpireLease
         \/ ExpireLock
         \/ DropStaleRoute

Next == \/ \E x \in Conns : LoginStep(x) \/ ConnectionStep(x)
        \/ Redis
        \/ \E k \in Containers : Crash(k)

Spec == Init /\ [][Next]_vars

(***************************************************************************)
(* Fairness: the refresher of a logged in connection runs every            *)
(* leaseRefresh.  When it cannot reach Redis it closes the connection      *)
(* after redisFailureGrace failures, so one way or the other it acts.      *)
(***************************************************************************)
Fairness == \A x \in Conns : WF_vars(RefreshRouteLease(x))

FairSpec == Spec /\ Fairness

-----------------------------------------------------------------------------
(* Properties.                                                             *)

\* The keys of Redis agree: a lease belongs to the container the route names
\* and to the owner of the session, and exactly the container of the route
\* lists the user, through claims, late cleanups of former owners, expiry and
\* route lookups in any order.
RouteAgrees ==
    /\ lease # None => mapping = Home[lease]
    /\ lease # None /\ sess # None => sess = lease
    /\ members = {mapping} \ {None}

\* Only its owner takes a session down: when the session of a connection that
\* is still logged in disappears, it has expired, or it is replaced by a claim.
\* A former owner's late cleanup cannot do it, nor a failed login.
OwnerFenced ==
    [][\A x \in Conns :
          sess = x /\ life[x] = "auth" /\ sess' # x
            => ExpireSession \/ \E y \in Conns \ {x} : sess' = y]_vars

\* What OwnerFenced rests on, with RouteAgrees: a cleanup under way belongs to a
\* connection that is gone, a login under way to one that is not logged in, and
\* the user index of a container to one of its logged in connections.
KeysOK ==
    /\ sess \in Conns \cup {None}
    /\ lease \in Conns \cup {None}
    /\ mapping \in Containers \cup {None}
    /\ life \in [Conns -> {"none", "open", "auth", "gone"}]
    /\ pc \in [Conns -> {"idle", "in", "failed"} \cup InProgress]
    /\ removing \in [Conns -> BOOLEAN]
    /\ userConn \in [Containers -> Conns \cup {None}]

Settled ==
    /\ \A x \in Conns : removing[x] => life[x] = "gone"
    /\ \A x \in Conns : pc[x] \in InProgress => life[x] = "open"
    /\ \A k \in Containers :
          userConn[k] # None => life[userConn[k]] = "auth" /\ Home[userConn[k]] = k

IInv == KeysOK /\ RouteAgrees /\ Settled

\* The counters and the user index of a container describe its connections,
\* whichever of login, kick, replacement, close and read error come together.
Counters ==
    \A k \in Containers :
        /\ connCount[k] =
             Cardinality({x \in Conns : Home[x] = k /\ life[x] \in {"open", "auth"}})
        /\ loggedIn[k] =
             Cardinality({x \in Conns : Home[x] = k /\ life[x] = "auth"})
        /\ \A x \in Conns : Home[x] = k /\ life[x] = "auth" => userConn[k] = x

\* When every lease and lock lasted as long as it was needed, no kick was lost or
\* had to go over Kafka and no claim took effect without its Login hearing of it,
\* then once the logins are over and the kicks received, the user has at
\* most one live connection on all containers.
OneDevice ==
    /\ ~disturbed
    /\ kicks = {}
    /\ \A x \in Conns : pc[x] \notin InProgress
    => \A x, y \in Conns : Auth(x) /\ Auth(y) => x = y

\* Whatever went wrong (a lost kick, a lock or a lease that expired under a
\* paused login, a claim that was not heard of), the user is not left with two
\* devices online: the lease refresh closes all but the owner.
OneDeviceEventually ==
    \A x, y \in Conns : x # y /\ Auth(x) /\ Auth(y) ~> ~Auth(x) \/ ~Auth(y)

\* A kick sent over Kafka, because Redis refused it, disconnects the connection
\* it names when the record is consumed.
KafkaKickWorks ==
    [][\A x \in kafkaKicks : x \notin kafkaKicks' => ~Auth(x)']_vars

=============================================================================
