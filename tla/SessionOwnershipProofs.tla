----------------------- MODULE SessionOwnershipProofs -----------------------
(***************************************************************************)
(* Proofs about session ownership, for every set of connections and        *)
(* containers.  IInv is inductive: the keys of Redis agree, and whoever    *)
(* undoes a claim is not a logged in connection.                           *)
(***************************************************************************)
EXTENDS SessionOwnership, FiniteSetTheorems, TLAPS

USE OwnershipAssumption DEF local, routes, notes, InProgress

\* What the claim script leaves behind.
LEMMA ClaimAgrees ==
    ASSUME KeysOK, RouteAgrees, NEW x \in Conns, ClaimSessionAndRoute(x)
    PROVE  /\ RouteAgrees'
           /\ sess' = x /\ lease' = x /\ mapping' = Home[x]
BY DEF KeysOK, RouteAgrees, ClaimSessionAndRoute

\* What the cleanup script, which may also fail, leaves behind: it takes the
\* session of nobody but its caller.
LEMMA RemoveAgrees ==
    ASSUME KeysOK, RouteAgrees, NEW x \in Conns,
           RemoveOwnedSessionAndRoute(x) \/ UNCHANGED routes
    PROVE  /\ RouteAgrees'
           /\ sess' \in {sess, None} /\ (sess # x => sess' = sess)
           /\ lease' \in {lease, None} /\ mapping' \in {mapping, None}
BY DEF KeysOK, RouteAgrees, RemoveOwnedSessionAndRoute

\* RouteAgrees only reads the keys of Redis.
LEMMA RoutesUnchanged ==
    ASSUME RouteAgrees, UNCHANGED routes
    PROVE  RouteAgrees'
BY DEF RouteAgrees

\* Removing a connection from the manager keeps the index and the cleanups in
\* order, provided that it is not logging in.
LEMMA DetachSettled ==
    ASSUME KeysOK, Settled, NEW x \in Conns, pc[x] \notin InProgress,
           Detach(x), UNCHANGED pc
    PROVE  /\ Settled'
           /\ life' \in [Conns -> {"none", "open", "auth", "gone"}]
           /\ removing' \in [Conns -> BOOLEAN]
           /\ userConn' \in [Containers -> Conns \cup {None}]
<1> DEFINE own == life[x] = "auth" /\ userConn[Home[x]] = x
<1>1. /\ life' = [life EXCEPT ![x] = "gone"]
      /\ removing' = [removing EXCEPT ![x] = own]
      /\ userConn' = [userConn EXCEPT ![Home[x]] =
                         IF own THEN None ELSE userConn[Home[x]]]
  BY DEF Detach, KeysOK
<1>2. own \in BOOLEAN
  OBVIOUS
<1> HIDE DEF own
<1>3. /\ life' \in [Conns -> {"none", "open", "auth", "gone"}]
      /\ removing' \in [Conns -> BOOLEAN]
      /\ userConn' \in [Containers -> Conns \cup {None}]
  BY <1>1, <1>2 DEF KeysOK
<1>4. \A c \in Conns : removing'[c] => life'[c] = "gone"
  BY <1>1 DEF KeysOK, Settled
<1>5. \A c \in Conns : pc'[c] \in InProgress => life'[c] = "open"
  BY <1>1 DEF KeysOK, Settled
<1>6. ASSUME NEW k \in Containers, userConn'[k] # None
      PROVE  life'[userConn'[k]] = "auth" /\ Home[userConn'[k]] = k
  <2>1. userConn'[k] = userConn[k] /\ userConn[k] # x
    BY <1>1, <1>6 DEF KeysOK, Settled, own
  <2> QED
    BY <1>1, <1>6, <2>1 DEF KeysOK, Settled
<1> QED
  BY <1>3, <1>4, <1>5, <1>6 DEF Settled

\* The initial state satisfies the invariant.
LEMMA InitIInv == Init => IInv
BY DEF Init, IInv, KeysOK, RouteAgrees, Settled

\* A step of a login keeps the invariant.
LEMMA LoginIInv ==
    ASSUME IInv, NEW x \in Conns, LoginStep(x)
    PROVE  IInv'
<1>a. KeysOK /\ RouteAgrees /\ Settled
  BY DEF IInv
<1>1. CASE LockUser(x)
  BY <1>a, <1>1, RoutesUnchanged DEF LockUser, IInv, KeysOK, Settled
<1>2. CASE AcquireUserLock(x)
  BY <1>a, <1>2, RoutesUnchanged DEF AcquireUserLock, IInv, KeysOK, Settled
<1>3. CASE AcquireUnheard(x)
  BY <1>a, <1>3, RoutesUnchanged DEF AcquireUnheard, IInv, KeysOK, Settled
<1>4. CASE Fail(x)
  BY <1>a, <1>4, RoutesUnchanged DEF Fail, IInv, KeysOK, Settled
<1>5. CASE PublishKick(x)
  BY <1>a, <1>5, RoutesUnchanged DEF PublishKick, IInv, KeysOK, Settled
<1>6. CASE Claim(x)
  <2>1. RouteAgrees' /\ sess' = x /\ lease' = x /\ mapping' = Home[x]
    BY <1>a, <1>6, ClaimAgrees DEF Claim
  <2> QED
    BY <1>a, <1>6, <2>1 DEF Claim, IInv, KeysOK, Settled
<1>7. CASE ClaimUnheard(x)
  <2>1. RouteAgrees' /\ sess' = x /\ lease' = x /\ mapping' = Home[x]
    BY <1>a, <1>7, ClaimAgrees DEF ClaimUnheard
  <2> QED
    BY <1>a, <1>7, <2>1 DEF ClaimUnheard, IInv, KeysOK, Settled
<1>8. CASE CommitLocalLogin(x)
  <2> DEFINE old == userConn[Home[x]]
             out == {old} \ {None, x}
  <2>1. /\ life[x] = "open" /\ pc[x] = "claimed"
        /\ life' = [c \in Conns |-> IF c = x THEN "auth"
                                    ELSE IF c \in out THEN "gone" ELSE life[c]]
        /\ userConn' = [userConn EXCEPT ![Home[x]] = x]
        /\ pc' = [pc EXCEPT ![x] = "in"]
        /\ UNCHANGED <<removing, routes>>
    BY <1>8 DEF CommitLocalLogin
  <2>2. KeysOK'
    BY <1>a, <2>1 DEF KeysOK
  <2>3. \A c \in Conns : removing'[c] => life'[c] = "gone"
    BY <1>a, <2>1 DEF KeysOK, Settled
  <2>4. \A c \in out : life[c] = "auth"
    BY <1>a DEF KeysOK, Settled
  <2>5. \A c \in Conns : pc'[c] \in InProgress => life'[c] = "open"
    BY <1>a, <2>1, <2>4 DEF KeysOK, Settled
  <2>6. ASSUME NEW k \in Containers, userConn'[k] # None
        PROVE  life'[userConn'[k]] = "auth" /\ Home[userConn'[k]] = k
    <3>1. CASE k = Home[x]
      BY <1>a, <2>1, <3>1 DEF KeysOK
    <3>2. CASE k # Home[x]
      <4>1. userConn'[k] = userConn[k] /\ userConn[k] \in Conns
        BY <1>a, <2>1, <2>6, <3>2 DEF KeysOK
      <4>2. life[userConn[k]] = "auth" /\ Home[userConn[k]] = k
        BY <1>a, <2>6, <4>1 DEF Settled
      <4>3. userConn[k] \notin out
        BY <1>a, <3>2, <4>2 DEF KeysOK, Settled
      <4> QED
        BY <2>1, <4>1, <4>2, <4>3
    <3> QED
      BY <3>1, <3>2
  <2>7. RouteAgrees'
    BY <1>a, <2>1, RoutesUnchanged
  <2> QED
    BY <2>2, <2>3, <2>5, <2>6, <2>7 DEF IInv, Settled
<1>9. CASE UndoClaim(x)
  <2>1. RouteAgrees' /\ sess' \in {sess, None} /\ lease' \in {lease, None}
        /\ mapping' \in {mapping, None}
    BY <1>a, <1>9, RemoveAgrees DEF UndoClaim
  <2> QED
    BY <1>a, <1>9, <2>1 DEF UndoClaim, IInv, KeysOK, Settled
<1> QED
  BY <1>1, <1>2, <1>3, <1>4, <1>5, <1>6, <1>7, <1>8, <1>9 DEF LoginStep

\* A step of a connection keeps the invariant.
LEMMA ConnectionIInv ==
    ASSUME IInv, NEW x \in Conns, ConnectionStep(x)
    PROVE  IInv'
<1>a. KeysOK /\ RouteAgrees /\ Settled
  BY DEF IInv
<1>1. CASE AddConnection(x)
  BY <1>a, <1>1, RoutesUnchanged DEF AddConnection, IInv, KeysOK, Settled
<1>2. CASE CleanupOwnedSession(x)
  <2>1. RouteAgrees' /\ sess' \in {sess, None} /\ lease' \in {lease, None}
        /\ mapping' \in {mapping, None}
    BY <1>a, <1>2, RemoveAgrees DEF CleanupOwnedSession
  <2> QED
    BY <1>a, <1>2, <2>1 DEF CleanupOwnedSession, IInv, KeysOK, Settled
<1>3. CASE CloseConnection(x)
  BY <1>a, <1>3, RoutesUnchanged DEF CloseConnection, IInv, KeysOK, Settled
<1>4. CASE ReadProcessEnds(x)
  <2>1. Settled' /\ UNCHANGED <<pc, routes>>
        /\ life' \in [Conns -> {"none", "open", "auth", "gone"}]
        /\ removing' \in [Conns -> BOOLEAN]
        /\ userConn' \in [Containers -> Conns \cup {None}]
    BY <1>a, <1>4, DetachSettled DEF ReadProcessEnds
  <2> QED
    BY <1>a, <2>1, RoutesUnchanged DEF IInv, KeysOK
<1>5. CASE RefreshRouteLease(x)
  BY <1>a, <1>5, RoutesUnchanged DEF RefreshRouteLease, IInv, KeysOK, Settled
<1>6. CASE ConsumeKafkaKick(x)
  BY <1>a, <1>6, RoutesUnchanged DEF ConsumeKafkaKick, IInv, KeysOK, Settled
<1> QED
  BY <1>1, <1>2, <1>3, <1>4, <1>5, <1>6 DEF ConnectionStep

\* A notification, an expiry or a route lookup keeps the invariant.
LEMMA RedisIInv ==
    ASSUME IInv, Redis, kicks \subseteq [to : Containers, token : Conns \cup {None}]
    PROVE  IInv'
<1>a. KeysOK /\ RouteAgrees /\ Settled
  BY DEF IInv
<1>1. ASSUME NEW n \in kicks, ReceiveKick(n)
      PROVE  IInv'
  <2>0. n.to \in Containers /\ UNCHANGED <<pc, routes>>
    BY <1>1 DEF ReceiveKick
  <2>1. CASE userConn[n.to] # None /\ n.token \in {None, userConn[n.to]}
    <3>1. userConn[n.to] \in Conns /\ Detach(userConn[n.to])
      BY <1>a, <1>1, <2>0, <2>1 DEF ReceiveKick, KeysOK
    <3>2. pc[userConn[n.to]] \notin InProgress
      BY <1>a, <2>0, <2>1, <3>1 DEF Settled
    <3>3. Settled'
          /\ life' \in [Conns -> {"none", "open", "auth", "gone"}]
          /\ removing' \in [Conns -> BOOLEAN]
          /\ userConn' \in [Containers -> Conns \cup {None}]
      BY <1>a, <2>0, <3>1, <3>2, DetachSettled
    <3> QED
      BY <1>a, <2>0, <3>3, RoutesUnchanged DEF IInv, KeysOK
  <2>2. CASE ~(userConn[n.to] # None /\ n.token \in {None, userConn[n.to]})
    <3>1. UNCHANGED <<local, removing>>
      BY <1>1, <2>2 DEF ReceiveKick
    <3> QED
      BY <1>a, <2>0, <3>1, RoutesUnchanged DEF IInv, KeysOK, Settled
  <2> QED
    BY <2>1, <2>2
<1>2. ASSUME NEW n \in kicks, LoseKick(n)
      PROVE  IInv'
  BY <1>a, <1>2, RoutesUnchanged DEF LoseKick, IInv, KeysOK, Settled
<1>3. CASE AdminKick
  BY <1>a, <1>3, RoutesUnchanged DEF AdminKick, IInv, KeysOK, Settled
<1>4. CASE ExpireSession
  BY <1>a, <1>4 DEF ExpireSession, IInv, KeysOK, Settled, RouteAgrees
<1>5. CASE ExpireLease
  BY <1>a, <1>5 DEF ExpireLease, IInv, KeysOK, Settled, RouteAgrees
<1>6. CASE ExpireLock
  BY <1>a, <1>6, RoutesUnchanged DEF ExpireLock, IInv, KeysOK, Settled
<1>7. CASE DropStaleRoute
  BY <1>a, <1>7 DEF DropStaleRoute, IInv, KeysOK, Settled, RouteAgrees
<1> QED
  BY <1>1, <1>2, <1>3, <1>4, <1>5, <1>6, <1>7 DEF Redis

\* The crash of a container keeps the invariant.
LEMMA CrashIInv ==
    ASSUME IInv, NEW k \in Containers, Crash(k)
    PROVE  IInv'
<1>a. KeysOK /\ RouteAgrees /\ Settled
  BY DEF IInv
<1> DEFINE here == {x \in Conns : Home[x] = k /\ life[x] # "none"}
<1>1. /\ life' = [x \in Conns |-> IF x \in here THEN "gone" ELSE life[x]]
      /\ pc' = [x \in Conns |-> IF x \in here THEN "failed" ELSE pc[x]]
      /\ removing' = [x \in Conns |-> removing[x] /\ x \notin here]
      /\ userConn' = [userConn EXCEPT ![k] = None]
      /\ UNCHANGED routes
  BY DEF Crash
<1>2. KeysOK'
  BY <1>a, <1>1 DEF KeysOK
<1>3. \A x \in Conns : removing'[x] => life'[x] = "gone"
  BY <1>a, <1>1 DEF Settled
<1>4. \A x \in Conns : pc'[x] \in InProgress => life'[x] = "open"
  BY <1>a, <1>1 DEF Settled
<1>5. ASSUME NEW j \in Containers, userConn'[j] # None
      PROVE  life'[userConn'[j]] = "auth" /\ Home[userConn'[j]] = j
  <2>1. j # k /\ userConn'[j] = userConn[j] /\ userConn[j] \in Conns
    BY <1>a, <1>1, <1>5 DEF KeysOK
  <2>2. life[userConn[j]] = "auth" /\ Home[userConn[j]] = j
    BY <1>a, <1>5, <2>1 DEF Settled
  <2> QED
    BY <1>1, <2>1, <2>2
<1> QED
  BY <1>a, <1>1, <1>2, <1>3, <1>4, <1>5, RoutesUnchanged DEF IInv, Settled

\* Notifications go to containers.
KicksOK == kicks \subseteq [to : Containers, token : Conns \cup {None}]

\* The invariant and the type of the notifications hold in every state.
LEMMA Inductive == Spec => [](IInv /\ KicksOK)
<1>1. Init => IInv /\ KicksOK
  BY InitIInv DEF Init, KicksOK
<1>2. IInv /\ KicksOK /\ [Next]_vars => IInv'
  <2> SUFFICES ASSUME IInv, KicksOK, [Next]_vars PROVE IInv'
    OBVIOUS
  <2>1. ASSUME NEW x \in Conns, LoginStep(x) PROVE IInv'
    BY <2>1, LoginIInv
  <2>2. ASSUME NEW x \in Conns, ConnectionStep(x) PROVE IInv'
    BY <2>2, ConnectionIInv
  <2>3. CASE Redis
    BY <2>3, RedisIInv DEF KicksOK
  <2>4. ASSUME NEW k \in Containers, Crash(k) PROVE IInv'
    BY <2>4, CrashIInv
  <2>5. CASE UNCHANGED vars
    BY <2>5 DEF vars, IInv, KeysOK, RouteAgrees, Settled
  <2> QED
    BY <2>1, <2>2, <2>3, <2>4, <2>5 DEF Next
<1>3. IInv /\ KicksOK /\ [Next]_vars => KicksOK'
  <2> SUFFICES ASSUME IInv, KicksOK, [Next]_vars PROVE KicksOK'
    OBVIOUS
  <2> USE DEF KicksOK
  <2>1. ASSUME NEW x \in Conns, LoginStep(x) PROVE KicksOK'
    <3>1. CASE PublishKick(x)
      BY <3>1 DEF PublishKick, Kick, IInv, KeysOK
    <3>2. CASE ~PublishKick(x)
      <4>1. UNCHANGED kicks
        BY <2>1, <3>2 DEF LoginStep, LockUser, AcquireUserLock, AcquireUnheard,
              Fail, Claim, ClaimUnheard, CommitLocalLogin, UndoClaim
      <4> QED
        BY <4>1
    <3> QED
      BY <3>1, <3>2
  <2>2. ASSUME NEW x \in Conns, ConnectionStep(x) PROVE KicksOK'
    <3>1. UNCHANGED kicks
      BY <2>2 DEF ConnectionStep, AddConnection, CleanupOwnedSession,
            CloseConnection, ReadProcessEnds, RefreshRouteLease, ConsumeKafkaKick
    <3> QED
      BY <3>1
  <2>3. CASE Redis
    <3>1. CASE AdminKick
      BY <3>1 DEF AdminKick, Kick, IInv, KeysOK
    <3>2. CASE ~AdminKick
      <4>1. kicks' \subseteq kicks
        BY <2>3, <3>2 DEF Redis, ReceiveKick, LoseKick, ExpireSession, ExpireLease,
              ExpireLock, DropStaleRoute
      <4> QED
        BY <4>1
    <3> QED
      BY <3>1, <3>2
  <2>4. ASSUME NEW k \in Containers, Crash(k) PROVE KicksOK'
    BY <2>4 DEF Crash
  <2>5. CASE UNCHANGED vars
    BY <2>5 DEF vars
  <2> QED
    BY <2>1, <2>2, <2>3, <2>4, <2>5 DEF Next
<1> QED
  BY <1>1, <1>2, <1>3, PTL DEF Spec

-----------------------------------------------------------------------------
(* The manager's index and counters.                                       *)

Present(k) == {x \in Conns : Home[x] = k /\ life[x] \in {"open", "auth"}}
LoggedIn(k) == {x \in Conns : Home[x] = k /\ life[x] = "auth"}

CountTypes ==
    /\ loggedIn \in [Containers -> Int]
    /\ connCount \in [Containers -> Int]

Counted ==
    /\ CountTypes
    /\ \A x \in Conns : life[x] = "auth" => userConn[Home[x]] = x
    /\ \A k \in Containers : /\ connCount[k] = Cardinality(Present(k))
                             /\ loggedIn[k] = Cardinality(LoggedIn(k))

\* Finite sets of connections, and one more or one less.
LEMMA Counting ==
    /\ \A k : IsFiniteSet(Present(k)) /\ IsFiniteSet(LoggedIn(k))
    /\ Cardinality({}) = 0
    /\ \A x : Cardinality({x}) = 1
    /\ \A S : IsFiniteSet(S) => Cardinality(S) \in Nat
    /\ \A S, x : IsFiniteSet(S) /\ x \notin S =>
                   Cardinality(S \cup {x}) = Cardinality(S) + 1
    /\ \A S, x : IsFiniteSet(S) /\ x \in S =>
                   Cardinality(S \ {x}) = Cardinality(S) - 1
<1>1. \A k : Present(k) \subseteq Conns /\ LoggedIn(k) \subseteq Conns
  BY DEF Present, LoggedIn
<1>2. \A k : IsFiniteSet(Present(k)) /\ IsFiniteSet(LoggedIn(k))
  BY <1>1, FS_Subset
<1>3. Cardinality({}) = 0
  BY FS_EmptySet
<1>4. \A x : Cardinality({x}) = 1
  BY FS_Singleton
<1>5. \A S : IsFiniteSet(S) => Cardinality(S) \in Nat
  BY FS_CardinalityType
<1>6. \A S, x : IsFiniteSet(S) /\ x \notin S =>
                   Cardinality(S \cup {x}) = Cardinality(S) + 1
  BY FS_AddElement
<1>7. \A S, x : IsFiniteSet(S) /\ x \in S =>
                   Cardinality(S \ {x}) = Cardinality(S) - 1
  BY FS_RemoveElement
<1> QED
  BY <1>2, <1>3, <1>4, <1>5, <1>6, <1>7

\* Only the life of a connection, the index and the counters matter.
LEMMA CountedKept ==
    ASSUME Counted, UNCHANGED <<life, userConn, loggedIn, connCount>>
    PROVE  Counted'
BY DEF Counted, CountTypes, Present, LoggedIn

\* A connection that the manager has is removed and counted out.
LEMMA DetachCounted ==
    ASSUME KeysOK, Settled, Counted, NEW x \in Conns, Detach(x),
           life[x] \in {"open", "auth"}
    PROVE  Counted'
<1> DEFINE h == Home[x]
           own == life[x] = "auth" /\ userConn[h] = x
<1>0. h \in Containers /\ (own <=> life[x] = "auth")
  BY DEF Counted
<1>1. /\ life' = [life EXCEPT ![x] = "gone"]
      /\ connCount' = [connCount EXCEPT ![h] = connCount[h] - 1]
      /\ userConn' = [userConn EXCEPT ![h] = IF own THEN None ELSE userConn[h]]
      /\ loggedIn' = [loggedIn EXCEPT ![h] = IF own THEN loggedIn[h] - 1
                                                    ELSE loggedIn[h]]
  BY <1>0 DEF Detach, KeysOK, Counted, CountTypes
<1> HIDE DEF own, h
<1>2. CountTypes'
  BY <1>0, <1>1 DEF Counted, CountTypes
<1>3. \A c \in Conns : life'[c] = IF c = x THEN "gone" ELSE life[c]
  BY <1>1 DEF KeysOK
<1>4. ASSUME NEW c \in Conns, life'[c] = "auth"
      PROVE  userConn'[Home[c]] = c
  BY <1>0, <1>1, <1>3, <1>4 DEF KeysOK, Counted, own, h
<1>5. ASSUME NEW k \in Containers
      PROVE  /\ connCount'[k] = Cardinality(Present(k)')
             /\ loggedIn'[k] = Cardinality(LoggedIn(k)')
  <2>1. CASE k = h
    <3>1. Present(k)' = Present(k) \ {x} /\ x \in Present(k)
      BY <1>3, <2>1 DEF Present, h
    <3>2. LoggedIn(k)' = LoggedIn(k) \ {x} /\ (x \in LoggedIn(k) <=> own)
      BY <1>0, <1>3, <2>1 DEF LoggedIn, h
    <3>3. ~own => LoggedIn(k)' = LoggedIn(k)
      BY <3>2
    <3>4. Cardinality(Present(k)') = Cardinality(Present(k)) - 1
      BY <3>1, Counting
    <3>5. Cardinality(LoggedIn(k)') = IF own THEN Cardinality(LoggedIn(k)) - 1
                                      ELSE Cardinality(LoggedIn(k))
      BY <3>2, <3>3, Counting
    <3>6. /\ connCount'[k] = connCount[k] - 1
          /\ loggedIn'[k] = IF own THEN loggedIn[k] - 1 ELSE loggedIn[k]
      BY <1>0, <1>1, <2>1 DEF Counted, CountTypes
    <3> QED
      BY <3>4, <3>5, <3>6 DEF Counted
  <2>2. CASE k # h
    <3>1. Present(k)' = Present(k) /\ LoggedIn(k)' = LoggedIn(k)
      BY <1>3, <2>2 DEF Present, LoggedIn, h
    <3> QED
      BY <1>0, <1>1, <2>2, <3>1 DEF Counted, CountTypes
  <2> QED
    BY <2>1, <2>2
<1> QED
  BY <1>2, <1>4, <1>5 DEF Counted

\* A connection is made.
LEMMA AddCounted ==
    ASSUME KeysOK, Counted, NEW x \in Conns, AddConnection(x)
    PROVE  Counted'
<1> DEFINE h == Home[x]
<1>1. /\ h \in Containers /\ life[x] = "none"
      /\ life' = [life EXCEPT ![x] = "open"]
      /\ connCount' = [connCount EXCEPT ![h] = connCount[h] + 1]
      /\ UNCHANGED <<userConn, loggedIn>>
  BY DEF AddConnection, Counted, CountTypes
<1> HIDE DEF h
<1>2. \A c \in Conns : life'[c] = IF c = x THEN "open" ELSE life[c]
  BY <1>1 DEF KeysOK
<1>3. ASSUME NEW k \in Containers
      PROVE  /\ connCount'[k] = Cardinality(Present(k)')
             /\ loggedIn'[k] = Cardinality(LoggedIn(k)')
  <2>0. LoggedIn(k)' = LoggedIn(k)
    BY <1>1, <1>2 DEF LoggedIn
  <2>1. CASE k = h
    <3>1. Present(k)' = Present(k) \cup {x} /\ x \notin Present(k)
      BY <1>1, <1>2, <2>1 DEF Present, h
    <3> QED
      BY <1>1, <2>0, <2>1, <3>1, Counting DEF Counted, CountTypes
  <2>2. CASE k # h
    <3>1. Present(k)' = Present(k)
      BY <1>1, <1>2, <2>2 DEF Present, h
    <3> QED
      BY <1>1, <2>0, <2>2, <3>1 DEF Counted, CountTypes
  <2> QED
    BY <2>1, <2>2
<1>4. CountTypes' /\ \A c \in Conns : life'[c] = "auth" => userConn'[Home[c]] = c
  BY <1>1, <1>2 DEF Counted, CountTypes
<1> QED
  BY <1>3, <1>4 DEF Counted

\* A login replaces the connection the user had at the container, if any.
LEMMA CommitCounted ==
    ASSUME KeysOK, Settled, Counted, NEW x \in Conns, CommitLocalLogin(x)
    PROVE  Counted'
<1> DEFINE h == Home[x]
           old == userConn[h]
           out == {old} \ {None, x}
<1>1. /\ h \in Containers /\ life[x] = "open"
      /\ life' = [c \in Conns |-> IF c = x THEN "auth"
                                  ELSE IF c \in out THEN "gone" ELSE life[c]]
      /\ connCount' = [connCount EXCEPT ![h] = connCount[h] - Cardinality(out)]
      /\ loggedIn' = [loggedIn EXCEPT ![h] = LoggedInAfter(h)]
      /\ userConn' = [userConn EXCEPT ![h] = x]
  BY DEF CommitLocalLogin, Counted, CountTypes
<1>2. old = None \/ (old \in Conns /\ life[old] = "auth" /\ Home[old] = h /\ old # x)
  BY <1>1 DEF KeysOK, Settled
<1>3. out = IF old = None THEN {} ELSE {old}
  BY <1>2
<1>4. LoggedInAfter(h) = IF old = None THEN loggedIn[h] + 1 ELSE loggedIn[h]
  BY <1>2 DEF LoggedInAfter
<1>5. LoggedIn(h) = IF old = None THEN {} ELSE {old}
  BY <1>2 DEF LoggedIn, Counted
<1> HIDE DEF h, old, out
<1>6. \A c \in Conns : life'[c] = IF c = x THEN "auth" ELSE IF c = old THEN "gone"
                                  ELSE life[c]
  BY <1>1, <1>2, <1>3
<1>7. LoggedIn(h)' = {x}
  BY <1>2, <1>5, <1>6 DEF LoggedIn, h
<1>8. Present(h)' = Present(h) \ out
  BY <1>1, <1>2, <1>3, <1>6 DEF Present, h
<1>9. Cardinality(Present(h)') = Cardinality(Present(h)) - Cardinality(out)
      /\ Cardinality(out) \in Int
  <2>1. CASE old = None
    BY <1>3, <1>8, <2>1, Counting
  <2>2. CASE old # None
    <3>1. old \in Present(h)
      BY <1>2, <2>2 DEF Present
    <3>2. Cardinality(Present(h)') = Cardinality(Present(h)) - 1
      BY <1>3, <1>8, <2>2, <3>1, Counting
    <3>3. Cardinality(out) = 1
      BY <1>3, <2>2, Counting
    <3> QED
      BY <3>2, <3>3
  <2> QED
    BY <2>1, <2>2
<1>10. Cardinality(LoggedIn(h)') = LoggedInAfter(h) /\ LoggedInAfter(h) \in Int
  <2>1. Cardinality(LoggedIn(h)') = 1
    BY <1>7, Counting
  <2>2. loggedIn[h] = IF old = None THEN 0 ELSE 1
    <3>1. loggedIn[h] = Cardinality(LoggedIn(h))
      BY <1>1 DEF Counted
    <3>2. CASE old = None
      BY <1>5, <3>1, <3>2, Counting
    <3>3. CASE old # None
      BY <1>5, <3>1, <3>3, Counting
    <3> QED
      BY <3>2, <3>3
  <2> QED
    BY <1>4, <2>1, <2>2
<1>11. ASSUME NEW k \in Containers
       PROVE  /\ connCount'[k] = Cardinality(Present(k)')
              /\ loggedIn'[k] = Cardinality(LoggedIn(k)')
  <2>1. CASE k = h
    BY <1>1, <1>9, <1>10, <2>1 DEF Counted, CountTypes
  <2>2. CASE k # h
    <3>1. Present(k)' = Present(k) /\ LoggedIn(k)' = LoggedIn(k)
      BY <1>2, <1>6, <2>2 DEF Present, LoggedIn, h
    <3> QED
      BY <1>1, <2>2, <3>1 DEF Counted, CountTypes
  <2> QED
    BY <2>1, <2>2
<1>12. CountTypes'
  BY <1>1, <1>9, <1>10 DEF Counted, CountTypes
<1>13. ASSUME NEW c \in Conns, life'[c] = "auth"
       PROVE  userConn'[Home[c]] = c
  <2>1. CASE c = x
    BY <1>1, <2>1 DEF KeysOK, h
  <2>2. CASE c # x
    <3>1. life[c] = "auth" /\ c # old
      BY <1>6, <1>13, <2>2
    <3>2. userConn[Home[c]] = c /\ Home[c] # h
      BY <3>1 DEF Counted, old
    <3> QED
      BY <1>1, <3>2 DEF KeysOK
  <2> QED
    BY <2>1, <2>2
<1> QED
  BY <1>11, <1>12, <1>13 DEF Counted

\* A container that dies has no connections.
LEMMA CrashCounted ==
    ASSUME KeysOK, Settled, Counted, NEW k \in Containers, Crash(k)
    PROVE  Counted'
<1>1. /\ life' = [x \in Conns |-> IF Home[x] = k /\ life[x] # "none" THEN "gone"
                                  ELSE life[x]]
      /\ userConn' = [userConn EXCEPT ![k] = None]
      /\ loggedIn' = [loggedIn EXCEPT ![k] = 0]
      /\ connCount' = [connCount EXCEPT ![k] = 0]
  BY DEF Crash
<1>2. Present(k)' = {} /\ LoggedIn(k)' = {}
  BY <1>1 DEF Present, LoggedIn
<1>3. \A j \in Containers : j # k => Present(j)' = Present(j) /\ LoggedIn(j)' = LoggedIn(j)
  BY <1>1 DEF Present, LoggedIn
<1>4. CountTypes' /\ \A x \in Conns : life'[x] = "auth" => userConn'[Home[x]] = x
  BY <1>1 DEF Counted, CountTypes, KeysOK
<1>5. \A j \in Containers : /\ connCount'[j] = Cardinality(Present(j)')
                            /\ loggedIn'[j] = Cardinality(LoggedIn(j)')
  BY <1>1, <1>2, <1>3, Counting DEF Counted, CountTypes
<1> QED
  BY <1>4, <1>5 DEF Counted

\* Every step keeps the counters.
LEMMA NextCounted == IInv /\ KicksOK /\ Counted /\ [Next]_vars => Counted'
<1> SUFFICES ASSUME IInv, KicksOK, Counted, [Next]_vars PROVE Counted'
  OBVIOUS
<1>a. KeysOK /\ Settled
  BY DEF IInv
<1>1. ASSUME NEW x \in Conns, LoginStep(x) PROVE Counted'
  <2>1. CASE CommitLocalLogin(x)
    BY <1>a, <2>1, CommitCounted
  <2>2. CASE ~CommitLocalLogin(x)
    <3>1. UNCHANGED local
      BY <1>1, <2>2 DEF LoginStep, LockUser, AcquireUserLock, AcquireUnheard, Fail,
            PublishKick, Claim, ClaimUnheard, UndoClaim
    <3> QED
      BY <3>1, CountedKept
  <2> QED
    BY <2>1, <2>2
<1>2. ASSUME NEW x \in Conns, ConnectionStep(x) PROVE Counted'
  <2>1. CASE AddConnection(x)
    BY <1>a, <2>1, AddCounted
  <2>2. CASE ReadProcessEnds(x)
    BY <1>a, <2>2, DetachCounted DEF ReadProcessEnds
  <2>3. CASE ~AddConnection(x) /\ ~ReadProcessEnds(x)
    <3>1. UNCHANGED <<life, userConn, loggedIn, connCount>>
      BY <1>2, <2>3 DEF ConnectionStep, CleanupOwnedSession, CloseConnection,
            RefreshRouteLease, ConsumeKafkaKick
    <3> QED
      BY <3>1, CountedKept
  <2> QED
    BY <2>1, <2>2, <2>3
<1>3. CASE Redis
  <2>1. ASSUME NEW n \in kicks, ReceiveKick(n) PROVE Counted'
    <3>1. n.to \in Containers
      BY DEF KicksOK
    <3>2. CASE userConn[n.to] # None /\ n.token \in {None, userConn[n.to]}
      <4>1. /\ userConn[n.to] \in Conns /\ Detach(userConn[n.to])
            /\ life[userConn[n.to]] = "auth"
        BY <1>a, <2>1, <3>1, <3>2 DEF ReceiveKick, KeysOK, Settled
      <4> QED
        BY <1>a, <4>1, DetachCounted
    <3>3. CASE ~(userConn[n.to] # None /\ n.token \in {None, userConn[n.to]})
      BY <2>1, <3>3, CountedKept DEF ReceiveKick
    <3> QED
      BY <3>2, <3>3
  <2>2. CASE ~\E n \in kicks : ReceiveKick(n)
    <3>1. UNCHANGED local
      BY <1>3, <2>2 DEF Redis, LoseKick, AdminKick, ExpireSession, ExpireLease,
            ExpireLock, DropStaleRoute
    <3> QED
      BY <3>1, CountedKept
  <2> QED
    BY <2>1, <2>2
<1>4. ASSUME NEW k \in Containers, Crash(k) PROVE Counted'
  BY <1>a, <1>4, CrashCounted
<1>5. CASE UNCHANGED vars
  BY <1>5, CountedKept DEF vars
<1> QED
  BY <1>1, <1>2, <1>3, <1>4, <1>5 DEF Next

-----------------------------------------------------------------------------
(* The types that nothing else rests on.                                   *)

OtherTypes ==
    /\ closed \in [Conns -> BOOLEAN]
    /\ userLock \in [Containers -> Conns \cup {None}]
    /\ lock \in Conns \cup {None}
    /\ members \subseteq Containers
    /\ kafkaKicks \subseteq Conns
    /\ disturbed \in BOOLEAN

\* Every step keeps them.
LEMMA NextOtherTypes == IInv /\ KicksOK /\ OtherTypes /\ [Next]_vars => OtherTypes'
<1> SUFFICES ASSUME IInv, KicksOK, OtherTypes, [Next]_vars PROVE OtherTypes'
  OBVIOUS
<1> USE DEF OtherTypes
<1>a. KeysOK
  BY DEF IInv
<1>1. ASSUME NEW x \in Conns, LoginStep(x) PROVE OtherTypes'
  <2>1. CASE LockUser(x)
    BY <2>1 DEF LockUser
  <2>2. CASE AcquireUserLock(x)
    BY <2>2 DEF AcquireUserLock
  <2>3. CASE AcquireUnheard(x)
    BY <2>3 DEF AcquireUnheard
  <2>4. ASSUME ReleaseLocks(x)
        PROVE  /\ userLock' \in [Containers -> Conns \cup {None}]
               /\ lock' \in Conns \cup {None}
    BY <2>4 DEF ReleaseLocks
  <2>5. CASE Fail(x)
    BY <2>4, <2>5 DEF Fail
  <2>6. CASE PublishKick(x)
    BY <1>a, <2>6 DEF PublishKick, KeysOK
  <2>7. CASE Claim(x)
    BY <2>7 DEF Claim, ClaimSessionAndRoute
  <2>8. CASE ClaimUnheard(x)
    BY <2>4, <2>8 DEF ClaimUnheard, ClaimSessionAndRoute
  <2>9. CASE CommitLocalLogin(x)
    BY <2>4, <2>9 DEF CommitLocalLogin
  <2>10. CASE UndoClaim(x)
    BY <2>4, <2>10 DEF UndoClaim, RemoveOwnedSessionAndRoute
  <2> QED
    BY <1>1, <2>1, <2>2, <2>3, <2>5, <2>6, <2>7, <2>8, <2>9, <2>10 DEF LoginStep
<1>2. ASSUME NEW x \in Conns, ConnectionStep(x) PROVE OtherTypes'
  BY <1>2 DEF ConnectionStep, AddConnection, CleanupOwnedSession, CloseConnection,
        ReadProcessEnds, RefreshRouteLease, ConsumeKafkaKick, Detach,
        RemoveOwnedSessionAndRoute
<1>3. CASE Redis
  <2>1. ASSUME NEW n \in kicks, ReceiveKick(n) PROVE OtherTypes'
    <3>1. closed' \in [Conns -> BOOLEAN]
      BY <2>1 DEF ReceiveKick, Detach
    <3> QED
      BY <2>1, <3>1 DEF ReceiveKick
  <2>2. CASE ~\E n \in kicks : ReceiveKick(n)
    BY <1>a, <1>3, <2>2 DEF Redis, LoseKick, AdminKick, ExpireSession, ExpireLease,
          ExpireLock, DropStaleRoute, KeysOK
  <2> QED
    BY <2>1, <2>2
<1>4. ASSUME NEW k \in Containers, Crash(k) PROVE OtherTypes'
  BY <1>4 DEF Crash
<1>5. CASE UNCHANGED vars
  BY <1>5 DEF vars
<1> QED
  BY <1>1, <1>2, <1>3, <1>4, <1>5 DEF Next

-----------------------------------------------------------------------------
(* One device.                                                             *)

\* While nothing has expired under a login or been lost, the lock admits one
\* login at a time, a claim is that of the login, and a connection that is
\* logged in has the session or a kick on its way; a login that has sent its
\* kick leaves nobody but those.
Exclusive ==
    /\ \A x \in Conns : pc[x] \in {"locked", "kicked", "claimed"} => lock = x
    /\ \A x \in Conns : pc[x] = "claimed" => sess = x
    /\ \A x \in Conns : Auth(x) => sess = x \/ Kick(Home[x], x) \in kicks
    /\ \A x, z \in Conns : pc[z] = "kicked" /\ Auth(x) => Kick(Home[x], x) \in kicks

\* A step of a login keeps it.
LEMMA LoginExclusive ==
    ASSUME IInv, Counted, OtherTypes, Exclusive, NEW x \in Conns, LoginStep(x),
           ~disturbed'
    PROVE  Exclusive'
<1>a. KeysOK /\ RouteAgrees /\ Settled
  BY DEF IInv
<1> USE DEF Auth
<1>1. CASE LockUser(x)
  <2>1. /\ \A c \in Conns : pc'[c] = pc[c] \/ pc'[c] \in {"failed", "locking"}
        /\ UNCHANGED <<life, closed, sess, kicks, lock>>
    BY <1>a, <1>1 DEF LockUser, KeysOK
  <2> QED
    BY <2>1 DEF Exclusive
<1>2. CASE AcquireUserLock(x)
  <2>1. /\ \A c \in Conns : pc'[c] = IF c = x THEN "locked" ELSE pc[c]
        /\ lock = None /\ lock' = x
        /\ UNCHANGED <<life, closed, sess, kicks>>
    BY <1>a, <1>2 DEF AcquireUserLock, LockFree, KeysOK
  <2> QED
    BY <2>1 DEF Exclusive
<1>3. CASE AcquireUnheard(x)
  <2>1. /\ \A c \in Conns : pc'[c] = IF c = x THEN "failed" ELSE pc[c]
        /\ lock = None
        /\ UNCHANGED <<life, closed, sess, kicks>>
    BY <1>a, <1>3 DEF AcquireUnheard, LockFree, KeysOK
  <2> QED
    BY <2>1 DEF Exclusive
<1>4. ASSUME ReleaseLocks(x) PROVE \A c \in Conns : c # x /\ lock = c => lock' = c
  BY <1>4 DEF ReleaseLocks
<1>5. CASE Fail(x)
  <2>1. /\ \A c \in Conns : pc'[c] = IF c = x THEN "failed" ELSE pc[c]
        /\ \A c \in Conns : c # x /\ lock = c => lock' = c
        /\ UNCHANGED <<life, closed, sess, kicks>>
    BY <1>a, <1>4, <1>5 DEF Fail, KeysOK
  <2> QED
    BY <2>1 DEF Exclusive
<1>6. CASE PublishKick(x)
  <2>1. /\ \A c \in Conns : pc'[c] = IF c = x THEN "kicked" ELSE pc[c]
        /\ pc[x] = "locked" /\ lock = x
        /\ UNCHANGED <<life, closed, sess, lock>>
    BY <1>a, <1>6 DEF PublishKick, KeysOK, Exclusive
  <2>2. kicks \subseteq kicks' /\ (sess # None => Kick(Home[sess], sess) \in kicks')
    BY <1>6 DEF PublishKick
  <2>3. \A c \in Conns : Auth(c)' => Kick(Home[c], c) \in kicks'
    BY <2>1, <2>2 DEF Exclusive
  <2> QED
    BY <2>1, <2>3 DEF Exclusive
<1>7. CASE Claim(x)
  <2>1. /\ \A c \in Conns : pc'[c] = IF c = x THEN "claimed" ELSE pc[c]
        /\ pc[x] = "kicked" /\ lock = x /\ sess' = x
        /\ UNCHANGED <<life, closed, kicks, lock>>
    BY <1>a, <1>7 DEF Claim, ClaimSessionAndRoute, KeysOK, Exclusive
  <2>2. \A c \in Conns : pc'[c] = "claimed" => c = x
    BY <2>1 DEF Exclusive
  <2> QED
    BY <2>1, <2>2 DEF Exclusive
<1>8. CASE ClaimUnheard(x)
  BY <1>8 DEF ClaimUnheard
<1>9. CASE CommitLocalLogin(x)
  <2> DEFINE out == {userConn[Home[x]]} \ {None, x}
  <2>1. /\ \A c \in Conns : pc'[c] = IF c = x THEN "in" ELSE pc[c]
        /\ pc[x] = "claimed" /\ lock = x /\ sess = x
        /\ \A c \in Conns : life'[c] = IF c = x THEN "auth"
                                       ELSE IF c \in out THEN "gone" ELSE life[c]
        /\ \A c \in Conns : closed'[c] = (closed[c] \/ c \in out)
        /\ \A c \in Conns : c # x /\ lock = c => lock' = c
        /\ UNCHANGED <<sess, kicks>>
    BY <1>a, <1>4, <1>9 DEF CommitLocalLogin, KeysOK, Exclusive
  <2> HIDE DEF out
  <2>2. \A c \in Conns : c # x /\ Auth(c)' => Auth(c)
    BY <2>1
  <2>3. \A c \in Conns : pc'[c] \notin {"locked", "kicked", "claimed"}
    BY <2>1 DEF Exclusive
  <2> QED
    BY <2>1, <2>2, <2>3 DEF Exclusive
<1>10. CASE UndoClaim(x)
  <2>1. /\ \A c \in Conns : pc'[c] = IF c = x THEN "failed" ELSE pc[c]
        /\ pc[x] = "claimed"
        /\ \A c \in Conns : c # x /\ lock = c => lock' = c
        /\ UNCHANGED <<life, closed, kicks>>
    BY <1>a, <1>4, <1>10 DEF UndoClaim, KeysOK
  <2>2. sess # x => sess' = sess
    BY <1>a, <1>10, RemoveAgrees DEF UndoClaim
  <2>3. life[x] = "open"
    BY <1>a, <2>1 DEF Settled
  <2> QED
    BY <2>1, <2>2, <2>3 DEF Exclusive
<1> QED
  BY <1>1, <1>2, <1>3, <1>5, <1>6, <1>7, <1>8, <1>9, <1>10 DEF LoginStep

\* A connection that is removed is not logged in any more.
LEMMA DetachExclusive ==
    ASSUME KeysOK, Exclusive, NEW x \in Conns, Detach(x), UNCHANGED <<pc, lock, sess>>,
           \A c \in Conns : c # x /\ Kick(Home[c], c) \in kicks
                            => Kick(Home[c], c) \in kicks'
    PROVE  Exclusive'
<1>1. \A c \in Conns : Auth(c)' => c # x /\ Auth(c)
  BY DEF Detach, Auth, KeysOK
<1> QED
  BY <1>1 DEF Exclusive

\* A step of a connection keeps it.
LEMMA ConnectionExclusive ==
    ASSUME IInv, Counted, OtherTypes, Exclusive, NEW x \in Conns, ConnectionStep(x)
    PROVE  Exclusive'
<1>a. KeysOK /\ RouteAgrees /\ Settled
  BY DEF IInv
<1>1. CASE CleanupOwnedSession(x)
  <2>1. removing[x] /\ UNCHANGED <<life, closed, pc, lock, kicks>>
    BY <1>1 DEF CleanupOwnedSession
  <2>2. sess # x => sess' = sess
    BY <1>a, <1>1, RemoveAgrees DEF CleanupOwnedSession
  <2>3. life[x] = "gone" /\ pc[x] \notin InProgress
    BY <1>a, <2>1 DEF Settled
  <2> QED
    BY <2>1, <2>2, <2>3 DEF Exclusive, Auth
<1>2. CASE ReadProcessEnds(x)
  BY <1>a, <1>2, DetachExclusive DEF ReadProcessEnds
<1>3. CASE AddConnection(x)
  <2>1. \A c \in Conns : Auth(c)' => Auth(c)
    BY <1>a, <1>3 DEF AddConnection, Auth, KeysOK
  <2> QED
    BY <1>3, <2>1 DEF AddConnection, Exclusive
<1>4. CASE CloseConnection(x) \/ RefreshRouteLease(x) \/ ConsumeKafkaKick(x)
  <2>1. \A c \in Conns : Auth(c)' => Auth(c)
    BY <1>4 DEF CloseConnection, RefreshRouteLease, ConsumeKafkaKick, Auth, OtherTypes
  <2> QED
    BY <1>4, <2>1 DEF CloseConnection, RefreshRouteLease, ConsumeKafkaKick, Exclusive
<1> QED
  BY <1>1, <1>2, <1>3, <1>4 DEF ConnectionStep

\* A notification, an expiry or a lookup keeps it, or is a disturbance.
LEMMA RedisExclusive ==
    ASSUME IInv, KicksOK, Counted, OtherTypes, Exclusive, Redis, ~disturbed'
    PROVE  Exclusive'
<1>a. KeysOK /\ RouteAgrees /\ Settled
  BY DEF IInv
<1>1. ASSUME NEW n \in kicks, ReceiveKick(n) PROVE Exclusive'
  <2> DEFINE x == userConn[n.to]
  <2>1. /\ n.to \in Containers /\ kicks' = kicks \ {n}
        /\ UNCHANGED <<pc, lock, sess>>
    BY <1>1 DEF ReceiveKick, KicksOK
  <2>2. CASE x # None /\ n.token \in {None, x}
    <3>1. x \in Conns /\ Detach(x)
      BY <1>1, <1>a, <2>1, <2>2 DEF ReceiveKick, KeysOK
    <3>2. \A c \in Conns : c # x /\ Kick(Home[c], c) \in kicks
                           => Kick(Home[c], c) \in kicks'
      BY <2>1, <2>2 DEF Kick
    <3> QED
      BY <1>a, <2>1, <3>1, <3>2, DetachExclusive
  <2>3. CASE ~(x # None /\ n.token \in {None, x})
    <3>1. UNCHANGED <<life, closed>>
      BY <1>1, <2>3 DEF ReceiveKick
    <3>2. ASSUME NEW c \in Conns, Auth(c), Kick(Home[c], c) \in kicks
          PROVE  Kick(Home[c], c) \in kicks'
      <4>1. userConn[Home[c]] = c
        BY <3>2 DEF Counted, Auth
      <4>2. n # Kick(Home[c], c)
        BY <2>3, <4>1 DEF Kick
      <4> QED
        BY <2>1, <3>2, <4>2
    <3> QED
      BY <2>1, <3>1, <3>2 DEF Exclusive, Auth
  <2> QED
    BY <2>2, <2>3
<1>2. CASE \E n \in kicks : LoseKick(n)
  BY <1>2 DEF LoseKick
<1>3. CASE AdminKick
  BY <1>3 DEF AdminKick, Exclusive, Auth
<1>4. CASE ExpireSession
  <2>1. /\ sess \in Conns /\ life[sess] # "auth" /\ pc[sess] # "claimed"
        /\ UNCHANGED <<life, closed, pc, lock, kicks>>
    BY <1>a, <1>4 DEF ExpireSession, KeysOK
  <2> QED
    BY <2>1 DEF Exclusive, Auth
<1>5. CASE ExpireLock
  <2>1. /\ lock \in Conns /\ pc[lock] \notin InProgress
        /\ UNCHANGED <<life, closed, pc, sess, kicks>>
    BY <1>5 DEF ExpireLock, OtherTypes
  <2> QED
    BY <2>1 DEF Exclusive, Auth
<1>6. CASE ExpireLease \/ DropStaleRoute
  BY <1>6 DEF ExpireLease, DropStaleRoute, Exclusive, Auth
<1> QED
  BY <1>1, <1>2, <1>3, <1>4, <1>5, <1>6 DEF Redis

\* A crash takes the connections, logins and kicks of its container along.
LEMMA CrashExclusive ==
    ASSUME IInv, KicksOK, Exclusive, NEW k \in Containers, Crash(k)
    PROVE  Exclusive'
<1>a. KeysOK /\ Settled
  BY DEF IInv
<1> DEFINE here == {x \in Conns : Home[x] = k /\ life[x] # "none"}
<1>1. /\ \A x \in Conns : life'[x] = IF x \in here THEN "gone" ELSE life[x]
      /\ \A x \in Conns : closed'[x] = (closed[x] \/ x \in here)
      /\ \A x \in Conns : pc'[x] = IF x \in here THEN "failed" ELSE pc[x]
      /\ kicks' = {n \in kicks : n.to # k}
      /\ UNCHANGED <<lock, sess>>
  BY DEF Crash
<1>2. \A x \in Conns : Auth(x)' => Auth(x) /\ Home[x] # k
  BY <1>1 DEF Auth
<1>3. \A x \in Conns : Home[x] # k /\ Kick(Home[x], x) \in kicks
                       => Kick(Home[x], x) \in kicks'
  BY <1>1 DEF Kick
<1> QED
  BY <1>1, <1>2, <1>3 DEF Exclusive

\* Everything that is needed, in every state.
FullInv == /\ IInv /\ KicksOK /\ Counted /\ OtherTypes
           /\ ~disturbed => Exclusive

\* The full invariant holds in every state.
LEMMA Full == Spec => []FullInv
<1>1. Init => FullInv
  <2> SUFFICES ASSUME Init PROVE FullInv
    OBVIOUS
  <2>1. IInv /\ KicksOK /\ OtherTypes
    BY InitIInv DEF Init, KicksOK, OtherTypes
  <2>2. \A k \in Containers : Present(k) = {} /\ LoggedIn(k) = {}
    BY DEF Init, Present, LoggedIn
  <2>3. Counted
    <3>1. \A k \in Containers : /\ Cardinality(Present(k)) = 0
                               /\ Cardinality(LoggedIn(k)) = 0
      BY <2>2, Counting
    <3>2. CountTypes /\ \A k \in Containers : connCount[k] = 0 /\ loggedIn[k] = 0
      BY DEF Init, CountTypes
    <3>3. \A x \in Conns : life[x] # "auth"
      BY DEF Init
    <3> QED
      BY <3>1, <3>2, <3>3 DEF Counted
  <2>4. Exclusive
    BY DEF Init, Exclusive, Auth
  <2> QED
    BY <2>1, <2>3, <2>4 DEF FullInv
<1>2. IInv' /\ KicksOK' /\ FullInv /\ [Next]_vars => FullInv'
  <2> SUFFICES ASSUME FullInv, IInv', KicksOK', [Next]_vars PROVE FullInv'
    OBVIOUS
  <2>1. Counted' /\ OtherTypes'
    BY NextCounted, NextOtherTypes DEF FullInv
  <2>2. ASSUME ~disturbed' PROVE Exclusive'
    <3>1. ~disturbed
      <4>1. disturbed => disturbed'
        BY DEF FullInv, OtherTypes, Next, vars, LoginStep, LockUser, AcquireUserLock,
              AcquireUnheard, Fail, PublishKick, Claim, ClaimUnheard, CommitLocalLogin,
              UndoClaim, ConnectionStep, AddConnection, CleanupOwnedSession,
              CloseConnection, ReadProcessEnds, RefreshRouteLease, ConsumeKafkaKick,
              Redis, ReceiveKick, LoseKick, AdminKick, ExpireSession, ExpireLease,
              ExpireLock, DropStaleRoute, Crash
      <4> QED
        BY <2>2, <4>1
    <3>2. Exclusive
      BY <3>1 DEF FullInv
    <3>3. CASE UNCHANGED vars
      BY <3>2, <3>3 DEF vars, Exclusive, Auth
    <3> QED
      BY <2>2, <3>2, <3>3, LoginExclusive, ConnectionExclusive, RedisExclusive,
         CrashExclusive DEF Next, FullInv
  <2> QED
    BY <2>1, <2>2 DEF FullInv
<1> QED
  BY <1>1, <1>2, Inductive, PTL DEF Spec

-----------------------------------------------------------------------------
(* The theorems.                                                            *)

\* The session, the route, its lease and the container sets that Redis keeps for
\* a user agree in every state, whatever claims, cleanups, expiries and lookups
\* came in whatever order.
THEOREM RoutesAgree == Spec => []RouteAgrees
BY Inductive, PTL DEF IInv

\* No cleanup of a former owner and no failed login takes the session of a
\* connection that is logged in: only expiry and a new claim do.
THEOREM OwnershipFenced == Spec => OwnerFenced
<1> DEFINE A == \A x \in Conns :
                   sess = x /\ life[x] = "auth" /\ sess' # x
                     => ExpireSession \/ \E y \in Conns \ {x} : sess' = y
<1>1. IInv /\ [Next]_vars => [A]_vars
  <2> SUFFICES ASSUME IInv, Next, NEW x \in Conns,
                      sess = x, life[x] = "auth", sess' # x, ~ExpireSession
               PROVE  \E y \in Conns \ {x} : sess' = y
    OBVIOUS
  <2>a. KeysOK /\ RouteAgrees /\ Settled
    BY DEF IInv
  <2>1. ASSUME NEW z \in Conns, LoginStep(z)
        PROVE  \E y \in Conns \ {x} : sess' = y
    <3>1. CASE Claim(z) \/ ClaimUnheard(z)
      <4>1. sess' = z
        BY <2>a, <3>1, ClaimAgrees DEF Claim, ClaimUnheard
      <4> QED
        BY <4>1
    <3>2. CASE UndoClaim(z)
      <4>1. z # x
        BY <2>a, <3>2 DEF UndoClaim, Settled
      <4>2. sess' = sess
        BY <2>a, <3>2, <4>1, RemoveAgrees DEF UndoClaim
      <4> QED
        BY <4>2
    <3>3. CASE ~(Claim(z) \/ ClaimUnheard(z) \/ UndoClaim(z))
      BY <2>1, <3>3 DEF LoginStep, LockUser, AcquireUserLock, AcquireUnheard,
            Fail, PublishKick, CommitLocalLogin
    <3> QED
      BY <3>1, <3>2, <3>3
  <2>2. ASSUME NEW z \in Conns, ConnectionStep(z)
        PROVE  FALSE
    <3>1. CASE CleanupOwnedSession(z)
      <4>1. z # x
        BY <2>a, <3>1 DEF CleanupOwnedSession, Settled
      <4> QED
        BY <2>a, <3>1, <4>1, RemoveAgrees DEF CleanupOwnedSession
    <3>2. CASE ~CleanupOwnedSession(z)
      BY <2>2, <3>2 DEF ConnectionStep, AddConnection, CloseConnection,
            ReadProcessEnds, RefreshRouteLease, ConsumeKafkaKick
    <3> QED
      BY <3>1, <3>2
  <2>3. CASE Redis
    BY <2>3 DEF Redis, ReceiveKick, LoseKick, AdminKick, ExpireLease, ExpireLock,
          DropStaleRoute
  <2>4. ASSUME NEW k \in Containers, Crash(k)
        PROVE  FALSE
    BY <2>4 DEF Crash
  <2> QED
    BY <2>1, <2>2, <2>3, <2>4 DEF Next
<1> QED
  BY <1>1, Inductive, PTL DEF Spec, OwnerFenced

\* The connections, the locks, the keys of Redis and the notifications have
\* their types; the counters of a manager are never negative.
THEOREM SpecTypeOK == Spec => []TypeOK
<1>1. FullInv => TypeOK
  <2> SUFFICES ASSUME FullInv PROVE TypeOK
    OBVIOUS
  <2>1. \A k \in Containers : connCount[k] \in Nat /\ loggedIn[k] \in Nat
    BY Counting DEF FullInv, Counted
  <2>2. connCount \in [Containers -> Nat] /\ loggedIn \in [Containers -> Nat]
    BY <2>1 DEF FullInv, Counted, CountTypes
  <2> QED
    BY <2>2 DEF FullInv, IInv, KeysOK, KicksOK, OtherTypes, TypeOK
<1> QED
  BY <1>1, Full, PTL

\* AddConnection, commitLocalLogin, detachConnection: connectionCount,
\* loggedInCount and the user index describe the connections of the container,
\* whichever of login, kick, replacement, close and read error come together.
THEOREM SpecCounters == Spec => []Counters
<1>1. FullInv => Counters
  BY DEF FullInv, Counted, Present, LoggedIn, Counters
<1> QED
  BY <1>1, Full, PTL

\* Login: when every lease and lock lasted as long as it was needed and no kick
\* was lost, the user has at most one live connection on all containers once the
\* kicks are received.
THEOREM SpecOneDevice == Spec => []OneDevice
<1>1. FullInv => OneDevice
  BY DEF FullInv, Exclusive, OneDevice
<1> QED
  BY <1>1, Full, PTL

=============================================================================
