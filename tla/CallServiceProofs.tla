-------------------------- MODULE CallServiceProofs --------------------------
(***************************************************************************)
(* Proofs about the call state machine, for every set of users, calls,     *)
(* handlers and sweepers and for every choice of the durations.            *)
(*                                                                         *)
(* IInv is inductive.  To the properties it adds how the times to live are *)
(* related (a user's key lives as long as the call is live and no longer   *)
(* than its session), what a handler still knows of the session it has     *)
(* read, and which events a session of a given state may have sent.        *)
(***************************************************************************)
EXTENDS CallService, SequenceTheorems, TLAPS

Pair(c) == {Caller[c], Callee[c]}

StoreTypes ==
    /\ state \in [Calls -> States]
    /\ stateTTL \in [Calls -> 0..MaxTTL]
    /\ left \in [Calls -> 0..Ring]
    /\ userKey \in [Users -> Calls \cup {None}]
    /\ userTTL \in [Users -> 0..MaxTTL]
    /\ deadlines \subseteq Calls
    /\ done \subseteq Ops
    /\ outbox \in [Calls -> Seq(Events)]

\* Both users of a live call are busy with it for as long as it is live, and
\* nobody is busy for longer than the session is stored.
KeysLive ==
    /\ \A c \in Calls : state[c] = "active" =>
         StillHeld(c) /\ \A u \in Pair(c) : userTTL[u] >= stateTTL[c]
    /\ \A c \in Calls : state[c] = "ringing" /\ left[c] > 0 =>
         StillHeld(c) /\ \A u \in Pair(c) : userTTL[u] >= left[c]
    /\ \A u \in Users : userKey[u] # None =>
         /\ state[userKey[u]] \in {"ringing", "active"}
         /\ u \in Pair(userKey[u])
         /\ userTTL[u] <= stateTTL[userKey[u]]

\* The operation that created the call.
InitOp(c) == Op("initiate", c, Caller[c])

\* A sequence of events tells a story.
Tells(es) ==
    \A i, j \in 1..Len(es) : i < j =>
        /\ es[i] # es[j]
        /\ es[i].type \in Terminal => es[j].type = es[i].type
        /\ es[j].type # "OUTGOING_CALL"

\* None of the events has one of these types.
NoneOf(es, types) == \A i \in 1..Len(es) : es[i].type \notin types

\* All of the events have one of these types.
OnlyOf(es, types) == \A i \in 1..Len(es) : es[i].type \in types

\* What a call in this state has told so far.
Told(c) ==
    /\ outbox[c] # << >> \/ state[c] # "absent" => InitOp(c) \in done
    /\ state[c] = "ringing" =>
         NoneOf(outbox[c], Terminal \cup {"CALL_ACCEPTED"})
    /\ state[c] = "active" => NoneOf(outbox[c], Terminal)
    /\ Tells(outbox[c])

StoreOK == StoreTypes /\ KeysLive /\ \A c \in Calls : Told(c)

\* What the requests of the clients look like.
RequestOK(op) ==
    /\ op \in Ops
    /\ op.kind # "timeout"
    /\ op.by \in Pair(op.call)
    /\ op.kind = "initiate" => op = InitOp(op.call)
    /\ op.kind = "push" => op.by = Caller[op.call]

\* What a handler has read.
JobsOK ==
    /\ job \in [Handlers -> Requests \cup {None}]
    /\ seen \in [Handlers -> States]
    /\ hleft \in [Handlers -> 0..Ring]
    /\ \A h \in Handlers : job[h] # None =>
         /\ job[h].kind \in {"accept", "reject", "push"} => seen[h] = "ringing"
         /\ job[h].kind = "hangup" => seen[h] \in {"ringing", "active"}

SweepersOK ==
    /\ expired \in [Sweepers -> SUBSET Calls]
    /\ idleFor \in [Sweepers -> 0..SweepPeriod]
    /\ phase \in 0..(TicksPerSecond - 1)

IInv == StoreOK /\ JobsOK /\ SweepersOK

-----------------------------------------------------------------------------
USE CallAssumption, DurationAssumption
  DEF session, index, handler, sweeper

\* The durations fit.
LEMMA MaxTTLBounds ==
    /\ MaxTTL \in Nat
    /\ Ring + Grace <= MaxTTL /\ ActiveTTL <= MaxTTL /\ EndedTTL <= MaxTTL
BY DEF MaxTTL

\* Every request is what a client, or the push service, can send.
LEMMA RequestShape == \A op \in Requests : RequestOK(op)
<1> SUFFICES ASSUME NEW op \in Requests PROVE RequestOK(op)
  OBVIOUS
<1>1. PICK c \in Calls :
        op \in {Op("initiate", c, Caller[c]), Op("accept", c, Callee[c]),
                Op("reject", c, Callee[c]), Op("hangup", c, Caller[c]),
                Op("hangup", c, Callee[c]), Op("push", c, Caller[c])}
  BY DEF Requests
<1>2. PICK k \in {"initiate", "accept", "reject", "hangup", "push"},
           u \in Pair(c) : /\ op = [kind |-> k, call |-> c, by |-> u]
                           /\ k \in {"initiate", "push"} => u = Caller[c]
  BY <1>1 DEF Op, Pair
<1>3. u \in Users
  BY DEF Pair
<1>4. op \in Ops
  BY <1>2, <1>3 DEF Ops
<1>5. op.kind = k /\ op.call = c /\ op.by = u
  BY <1>2
<1> QED
  BY <1>2, <1>4, <1>5 DEF RequestOK, InitOp, Op

\* The initial state satisfies the invariant.
LEMMA InitIInv == Init => IInv
<1> SUFFICES ASSUME Init PROVE IInv
  OBVIOUS
<1>1. StoreTypes
  BY MaxTTLBounds DEF Init, StoreTypes, States
<1>2. KeysLive
  BY DEF Init, KeysLive
<1>3. \A c \in Calls : Told(c)
  BY DEF Init, Told, Tells, NoneOf
<1>4. JobsOK /\ SweepersOK
  BY DEF Init, JobsOK, SweepersOK, States
<1> QED
  BY <1>1, <1>2, <1>3, <1>4 DEF IInv, StoreOK

-----------------------------------------------------------------------------
\* A story goes on with events that are new, after nothing final.
LEMMA StoryContinues ==
    ASSUME NEW s \in Seq(Events), NEW e \in Seq(Events), Tells(s), Tells(e),
           Len(e) > 0 => NoneOf(s, Terminal),
           Len(s) > 0 => NoneOf(e, {"OUTGOING_CALL"}),
           \A i \in 1..Len(s), j \in 1..Len(e) : s[i] # e[j]
    PROVE  s \o e \in Seq(Events) /\ Tells(s \o e)
<1> DEFINE t == s \o e
<1>1. /\ t \in Seq(Events) /\ Len(t) = Len(s) + Len(e)
      /\ \A i \in 1..Len(s) : t[i] = s[i]
      /\ \A i \in Len(s) + 1 .. Len(s) + Len(e) : t[i] = e[i - Len(s)]
  BY ConcatProperties
<1>2. Len(s) \in Nat /\ Len(e) \in Nat
  BY LenProperties
<1> HIDE DEF t
<1>3. ASSUME NEW i \in 1..Len(t), NEW j \in 1..Len(t), i < j
      PROVE  /\ t[i] # t[j]
             /\ t[i].type \in Terminal => t[j].type = t[i].type
             /\ t[j].type # "OUTGOING_CALL"
  <2>1. CASE j <= Len(s)
    <3>1. t[i] = s[i] /\ t[j] = s[j] /\ i \in 1..Len(s) /\ j \in 1..Len(s)
      BY <1>1, <1>2, <1>3, <2>1
    <3> QED
      BY <1>3, <3>1 DEF Tells
  <2>2. CASE i > Len(s)
    <3>1. /\ i - Len(s) \in 1..Len(e) /\ j - Len(s) \in 1..Len(e)
          /\ i - Len(s) < j - Len(s)
          /\ t[i] = e[i - Len(s)] /\ t[j] = e[j - Len(s)]
      BY SMTT(60), <1>1, <1>2, <1>3, <2>2
    <3> QED
      BY SMTT(60), <3>1 DEF Tells
  <2>3. CASE i <= Len(s) /\ j > Len(s)
    <3>1. /\ t[i] = s[i] /\ i \in 1..Len(s)
          /\ t[j] = e[j - Len(s)] /\ j - Len(s) \in 1..Len(e)
      BY <1>1, <1>2, <1>3, <2>3
    <3>2. Len(s) > 0 /\ Len(e) > 0
      BY <1>2, <3>1
    <3> QED
      BY <3>1, <3>2 DEF NoneOf
  <2> QED
    BY <1>1, <1>2, <2>1, <2>2, <2>3
<1> QED
  BY <1>1, <1>3 DEF Tells, t

\* Types that neither part has are not in the whole.
LEMMA ConcatNoneOf ==
    ASSUME NEW s \in Seq(Events), NEW e \in Seq(Events), NEW T,
           NoneOf(s, T), NoneOf(e, T)
    PROVE  NoneOf(s \o e, T)
<1>1. /\ Len(s \o e) = Len(s) + Len(e)
      /\ \A i \in 1..Len(s) : (s \o e)[i] = s[i]
      /\ \A i \in Len(s) + 1 .. Len(s) + Len(e) : (s \o e)[i] = e[i - Len(s)]
  BY ConcatProperties
<1>2. Len(s) \in Nat /\ Len(e) \in Nat
  BY LenProperties
<1>3. \A i \in Len(s) + 1 .. Len(s) + Len(e) : i - Len(s) \in 1..Len(e)
  BY <1>2
<1>4. \A i \in 1 .. Len(s) + Len(e) :
         i \in 1..Len(s) \/ i \in Len(s) + 1 .. Len(s) + Len(e)
  BY <1>2
<1> QED
  BY <1>1, <1>3, <1>4 DEF NoneOf

-----------------------------------------------------------------------------
\* A script that does nothing.
LEMMA StoreKept ==
    ASSUME StoreOK, UNCHANGED <<session, index, deadlines, done, outbox>>
    PROVE  StoreOK'
<1>1. StoreTypes'
  BY DEF StoreOK, StoreTypes
<1>2. KeysLive'
  BY DEF StoreOK, KeysLive, StillHeld
<1>3. \A c \in Calls : Told(c)'
  BY DEF StoreOK, Told
<1> QED
  BY <1>1, <1>2, <1>3 DEF StoreOK

\* The script that creates a session: the users were free, the call is new.
LEMMA CreateKeeps ==
    ASSUME StoreOK, NEW c \in Calls, NEW deadline \in 0..Ring,
           NEW events \in Seq(Events), Tells(events),
           NoneOf(events, Terminal \cup {"CALL_ACCEPTED"}),
           CreateSessionWithEvents(InitOp(c), deadline, events)
    PROVE  StoreOK'
<1> DEFINE op == InitOp(c)
<1>1. op.call = c /\ op \in Ops
  BY DEF InitOp, Op, Ops
<1>2. CASE ~CreateFresh(op)
  BY <1>2, StoreKept DEF CreateSessionWithEvents
<1>3. CASE CreateFresh(op)
  <2> DEFINE Created(d, ttl) ==
        /\ state' = [state EXCEPT ![d] = "ringing"]
        /\ stateTTL' = [stateTTL EXCEPT ![d] = ttl + Grace]
        /\ left' = [left EXCEPT ![d] = deadline]
        /\ userKey' = [u \in Users |-> IF u \in {Caller[d], Callee[d]} THEN d ELSE userKey[u]]
        /\ userTTL' = [u \in Users |-> IF u \in {Caller[d], Callee[d]} THEN ttl ELSE userTTL[u]]
        /\ deadlines' = deadlines \cup {d}
        /\ done' = done \cup {op}
        /\ outbox' = [outbox EXCEPT ![d] = outbox[d] \o events]
  <2>0. PICK ttl \in (deadline..Ring) \ {0} : Created(op.call, ttl)
    BY Zenon, <1>3 DEF CreateSessionWithEvents
  <2>1. /\ state' = [state EXCEPT ![c] = "ringing"]
        /\ stateTTL' = [stateTTL EXCEPT ![c] = ttl + Grace]
        /\ left' = [left EXCEPT ![c] = deadline]
        /\ userKey' = [u \in Users |-> IF u \in Pair(c) THEN c ELSE userKey[u]]
        /\ userTTL' = [u \in Users |-> IF u \in Pair(c) THEN ttl ELSE userTTL[u]]
        /\ deadlines' = deadlines \cup {c}
        /\ done' = done \cup {op}
        /\ outbox' = [outbox EXCEPT ![c] = outbox[c] \o events]
    BY Zenon, <1>1, <2>0 DEF Pair
  <2>2. op \notin done /\ \A u \in Pair(c) : userKey[u] = None
    BY <1>1, <1>3 DEF CreateFresh, Pair
  <2>3. /\ ttl \in Nat /\ ttl <= MaxTTL /\ ttl + Grace <= MaxTTL
        /\ deadline <= ttl
    BY MaxTTLBounds
  <2>4. outbox[c] = << >>
    BY <2>2 DEF StoreOK, Told
  <2>5. << >> \o events = events
    BY ConcatEmptySeq
  <2> HIDE DEF op
  <2>6. StoreTypes'
    BY <1>1, <2>1, <2>3, <2>4, <2>5 DEF StoreOK, StoreTypes, States
  <2>7. KeysLive'
    <3>1. \A d \in Calls : StillHeld(d) => d # c /\ Pair(d) \cap Pair(c) = {}
      BY <2>2 DEF StillHeld, Pair
    <3>2. \A d \in Calls : d # c /\ StillHeld(d) =>
             StillHeld(d)' /\ \A u \in Pair(d) : userTTL'[u] = userTTL[u]
      <4> SUFFICES ASSUME NEW d \in Calls, d # c, StillHeld(d)
                   PROVE  StillHeld(d)' /\ \A u \in Pair(d) : userTTL'[u] = userTTL[u]
        OBVIOUS
      <4>1. /\ Caller[d] \in Users /\ Callee[d] \in Users
            /\ Caller[d] \notin Pair(c) /\ Callee[d] \notin Pair(c)
        BY <3>1 DEF Pair
      <4> QED
        BY <2>1, <4>1 DEF StillHeld, Pair
    <3>3. ASSUME NEW d \in Calls, state'[d] = "active"
          PROVE  StillHeld(d)' /\ \A u \in Pair(d) : userTTL'[u] >= stateTTL'[d]
      BY <2>1, <3>2, <3>3 DEF StoreOK, StoreTypes, KeysLive
    <3>4. ASSUME NEW d \in Calls, state'[d] = "ringing", left'[d] > 0
          PROVE  StillHeld(d)' /\ \A u \in Pair(d) : userTTL'[u] >= left'[d]
      <4>1. CASE d = c
        <5>1. left'[d] <= ttl
          BY <2>1, <2>3, <3>4, <4>1 DEF StoreOK, StoreTypes
        <5>2. StillHeld(d)' /\ \A u \in Pair(d) : userTTL'[u] = ttl
          BY <2>1, <4>1 DEF StillHeld, Pair
        <5> QED
          BY <2>3, <5>1, <5>2
      <4>2. CASE d # c
        BY <2>1, <3>2, <3>4, <4>2 DEF StoreOK, StoreTypes, KeysLive
      <4> QED
        BY <4>1, <4>2
    <3>5. ASSUME NEW u \in Users, userKey'[u] # None
          PROVE  /\ state'[userKey'[u]] \in {"ringing", "active"}
                 /\ u \in Pair(userKey'[u])
                 /\ userTTL'[u] <= stateTTL'[userKey'[u]]
      <4>1. CASE u \in Pair(c)
        BY <2>1, <2>3, <4>1 DEF StoreOK, StoreTypes
      <4>2. CASE u \notin Pair(c)
        <5>1. userKey'[u] = userKey[u] /\ userTTL'[u] = userTTL[u]
          BY <2>1, <4>2
        <5>2. userKey[u] \in Calls /\ userKey[u] # c
          BY <3>5, <4>2, <5>1 DEF StoreOK, StoreTypes, KeysLive
        <5> QED
          BY <2>1, <3>5, <5>1, <5>2 DEF StoreOK, StoreTypes, KeysLive
      <4> QED
        BY <4>1, <4>2
    <3> QED
      BY <3>3, <3>4, <3>5 DEF KeysLive, Pair
  <2>8. \A d \in Calls : Told(d)'
    <3>1. Told(c)'
      <4>1. outbox'[c] = events /\ state'[c] = "ringing" /\ op \in done'
        BY <2>1, <2>4, <2>5 DEF StoreOK, StoreTypes
      <4> QED
        BY <4>1 DEF Told, op, InitOp
    <3>2. ASSUME NEW d \in Calls, d # c PROVE Told(d)'
      <4>1. outbox'[d] = outbox[d] /\ state'[d] = state[d] /\ done \subseteq done'
        BY <2>1, <3>2 DEF StoreOK, StoreTypes
      <4> QED
        BY <4>1 DEF StoreOK, Told, InitOp
    <3> QED
      BY <3>1, <3>2
  <2> QED
    BY <2>6, <2>7, <2>8 DEF StoreOK
<1> QED
  BY <1>2, <1>3

\* The script that accepts or ends a call keeps the keys: a call goes on only
\* while both users hold it, and its end frees nobody else.
LEMMA TransitionKeys ==
    ASSUME StoreOK, NEW c \in Calls, NEW to \in {"active", "ended"},
           to = "active" => StillHeld(c),
           state' = [state EXCEPT ![c] = to],
           stateTTL' = [stateTTL EXCEPT ![c] = TTL(to)],
           IF to = "ended"
           THEN /\ userKey' = [u \in Users |-> IF Holder(c, u) THEN None
                                               ELSE userKey[u]]
                /\ UNCHANGED userTTL
           ELSE /\ userTTL' = [u \in Users |->
                                 IF u \in Pair(c) THEN TTL(to) ELSE userTTL[u]]
                /\ UNCHANGED userKey,
           UNCHANGED left
    PROVE  KeysLive'
<1>a. /\ \A d \in Calls : d # c => state'[d] = state[d] /\ stateTTL'[d] = stateTTL[d]
      /\ state'[c] = to /\ stateTTL'[c] = TTL(to)
  BY DEF StoreOK, StoreTypes
<1>b. TTL(to) \in Nat
  BY DEF TTL
<1>1. CASE to = "ended"
  <2>1. \A d \in Calls : d # c /\ StillHeld(d) => StillHeld(d)'
    BY <1>1 DEF StillHeld, Holder
  <2>2. \A u \in Users : userKey'[u] # None => userKey'[u] = userKey[u] /\ userKey[u] # c
    BY <1>1 DEF Holder
  <2>3. userTTL' = userTTL
    BY <1>1
  <2>4. ASSUME NEW d \in Calls, state'[d] = "active"
        PROVE  StillHeld(d)' /\ \A u \in Pair(d) : userTTL'[u] >= stateTTL'[d]
    BY <1>1, <1>a, <2>1, <2>3, <2>4 DEF StoreOK, KeysLive
  <2>5. ASSUME NEW d \in Calls, state'[d] = "ringing", left'[d] > 0
        PROVE  StillHeld(d)' /\ \A u \in Pair(d) : userTTL'[u] >= left'[d]
    BY <1>1, <1>a, <2>1, <2>3, <2>5 DEF StoreOK, KeysLive
  <2>6. ASSUME NEW u \in Users, userKey'[u] # None
        PROVE  /\ state'[userKey'[u]] \in {"ringing", "active"}
               /\ u \in Pair(userKey'[u])
               /\ userTTL'[u] <= stateTTL'[userKey'[u]]
    <3>1. userKey'[u] = userKey[u] /\ userKey[u] # c /\ userKey[u] \in Calls
      BY <2>2, <2>6 DEF StoreOK, StoreTypes
    <3> QED
      BY <1>a, <2>3, <2>6, <3>1 DEF StoreOK, KeysLive
  <2> QED
    BY <2>4, <2>5, <2>6 DEF KeysLive, Pair
<1>2. CASE to = "active"
  <2>1. StillHeld(c) /\ userKey' = userKey
    BY <1>2
  <2>2. /\ \A u \in Pair(c) : userTTL'[u] = TTL(to)
        /\ \A u \in Users : u \notin Pair(c) => userTTL'[u] = userTTL[u]
    BY <1>2 DEF Pair
  <2>3. \A d \in Calls : StillHeld(d) => StillHeld(d)'
    BY <2>1 DEF StillHeld
  <2>4. \A d \in Calls : d # c /\ StillHeld(d) =>
           \A u \in Pair(d) : userTTL'[u] = userTTL[u]
    <3> SUFFICES ASSUME NEW d \in Calls, d # c, StillHeld(d), NEW u \in Pair(d)
                 PROVE  userTTL'[u] = userTTL[u]
      OBVIOUS
    <3>1. u \in Users /\ userKey[u] = d
      BY DEF Pair, StillHeld
    <3>2. u \notin Pair(c)
      BY <2>1, <3>1 DEF Pair, StillHeld
    <3> QED
      BY <2>2, <3>1, <3>2
  <2>5. ASSUME NEW d \in Calls, state'[d] = "active"
        PROVE  StillHeld(d)' /\ \A u \in Pair(d) : userTTL'[u] >= stateTTL'[d]
    <3>1. CASE d = c
      BY <1>a, <1>b, <2>1, <2>2, <2>3, <3>1
    <3>2. CASE d # c
      BY <1>a, <2>3, <2>4, <2>5, <3>2 DEF StoreOK, KeysLive
    <3> QED
      BY <3>1, <3>2
  <2>6. ASSUME NEW d \in Calls, state'[d] = "ringing", left'[d] > 0
        PROVE  StillHeld(d)' /\ \A u \in Pair(d) : userTTL'[u] >= left'[d]
    BY <1>2, <1>a, <2>3, <2>4, <2>6 DEF StoreOK, KeysLive
  <2>7. ASSUME NEW u \in Users, userKey'[u] # None
        PROVE  /\ state'[userKey'[u]] \in {"ringing", "active"}
               /\ u \in Pair(userKey'[u])
               /\ userTTL'[u] <= stateTTL'[userKey'[u]]
    <3>1. userKey'[u] = userKey[u] /\ userKey[u] \in Calls
      BY <2>1, <2>7 DEF StoreOK, StoreTypes
    <3>2. CASE userKey[u] = c
      <4>1. u \in Pair(c)
        BY <2>7, <3>1, <3>2 DEF StoreOK, KeysLive
      <4> QED
        BY <1>2, <1>a, <1>b, <2>2, <3>1, <3>2, <4>1
    <3>3. CASE userKey[u] # c
      <4>1. u \notin Pair(c)
        BY <2>1, <3>3 DEF StillHeld, Pair
      <4> QED
        BY <1>a, <2>2, <2>7, <3>1, <3>3, <4>1 DEF StoreOK, KeysLive
    <3> QED
      BY <3>2, <3>3
  <2> QED
    BY <2>5, <2>6, <2>7 DEF KeysLive, Pair
<1> QED
  BY <1>1, <1>2

\* The script that accepts or ends a call.
LEMMA TransitionKeeps ==
    ASSUME StoreOK, NEW op \in Ops, NEW from \in {"ringing", "active"},
           NEW to \in {"active", "ended"}, to = "active" => from = "ringing",
           NEW events \in Seq(Events), Tells(events),
           OnlyOf(events, IF to = "active" THEN {"CALL_ACCEPTED"} ELSE Terminal),
           TransitionSessionWithEvents(op, from, to, events)
    PROVE  StoreOK'
<1> DEFINE c == op.call
           fresh == /\ op \notin done
                    /\ UnchangedSince(c, from)
                    /\ to # "ended" => StillHeld(c)
<1>1. CASE ~fresh
  BY <1>1, StoreKept DEF TransitionSessionWithEvents
<1>2. CASE fresh
  <2>a. c \in Calls
    BY DEF Ops
  <2>1. /\ state' = [state EXCEPT ![c] = to]
        /\ stateTTL' = [stateTTL EXCEPT ![c] = TTL(to)]
        /\ deadlines' = deadlines \ {c}
        /\ IF to = "ended"
           THEN /\ userKey' = [u \in Users |-> IF Holder(c, u) THEN None
                                               ELSE userKey[u]]
                /\ UNCHANGED userTTL
           ELSE /\ userTTL' = [u \in Users |->
                                 IF u \in Pair(c) THEN TTL(to) ELSE userTTL[u]]
                /\ UNCHANGED userKey
        /\ done' = done \cup {op}
        /\ outbox' = [outbox EXCEPT ![c] = outbox[c] \o events]
        /\ UNCHANGED left
    BY <1>2 DEF TransitionSessionWithEvents, Pair
  <2>2. state[c] = from /\ (to = "active" => StillHeld(c))
    BY <1>2 DEF UnchangedSince
  <2> HIDE DEF c, fresh
  <2>3. KeysLive'
    BY <2>a, <2>1, <2>2, TransitionKeys
  <2>4. /\ outbox[c] \in Seq(Events) /\ Tells(outbox[c])
        /\ NoneOf(outbox[c], Terminal) /\ InitOp(c) \in done
        /\ to = "active" => NoneOf(outbox[c], {"CALL_ACCEPTED"})
    BY <2>a, <2>2 DEF StoreOK, StoreTypes, Told, NoneOf
  <2>5. /\ outbox[c] \o events \in Seq(Events)
        /\ Tells(outbox[c] \o events)
    <3>1. NoneOf(events, {"OUTGOING_CALL"})
      BY DEF OnlyOf, NoneOf, Terminal
    <3>2. \A i \in 1..Len(outbox[c]), j \in 1..Len(events) : outbox[c][i] # events[j]
      BY <2>4 DEF OnlyOf, NoneOf
    <3> QED
      BY <2>4, <3>1, <3>2, StoryContinues
  <2>6. to = "active" => NoneOf(outbox[c] \o events, Terminal)
    <3> SUFFICES ASSUME to = "active" PROVE NoneOf(outbox[c] \o events, Terminal)
      OBVIOUS
    <3>1. NoneOf(events, Terminal)
      BY DEF OnlyOf, NoneOf, Terminal
    <3> QED
      BY <2>4, <3>1, ConcatNoneOf
  <2>7. StoreTypes'
    <3>1. TTL(to) \in 0..MaxTTL
      BY MaxTTLBounds DEF TTL
    <3>2. /\ userKey' \in [Users -> Calls \cup {None}]
          /\ userTTL' \in [Users -> 0..MaxTTL]
      <4>1. CASE to = "ended"
        <5>1. /\ userKey' = [u \in Users |-> IF Holder(c, u) THEN None
                                             ELSE userKey[u]]
              /\ userTTL' = userTTL
          BY <2>1, <4>1
        <5> QED
          BY <5>1 DEF StoreOK, StoreTypes
      <4>2. CASE to = "active"
        <5>1. /\ userTTL' = [u \in Users |->
                                IF u \in Pair(c) THEN TTL(to) ELSE userTTL[u]]
              /\ userKey' = userKey
          BY <2>1, <4>2
        <5> QED
          BY <3>1, <5>1 DEF StoreOK, StoreTypes
      <4> QED
        BY <4>1, <4>2
    <3>3. /\ state' \in [Calls -> States] /\ stateTTL' \in [Calls -> 0..MaxTTL]
          /\ left' \in [Calls -> 0..Ring]
      BY <2>1, <3>1 DEF StoreOK, StoreTypes, States
    <3>4. outbox' \in [Calls -> Seq(Events)]
      BY <2>1, <2>5 DEF StoreOK, StoreTypes
    <3> QED
      BY <2>1, <3>2, <3>3, <3>4 DEF StoreOK, StoreTypes
  <2>8. \A d \in Calls : Told(d)'
    <3>1. Told(c)'
      <4>1. outbox'[c] = outbox[c] \o events /\ state'[c] = to /\ InitOp(c) \in done'
        BY <2>a, <2>1, <2>4 DEF StoreOK, StoreTypes
      <4> QED
        BY <2>5, <2>6, <4>1 DEF Told
    <3>2. ASSUME NEW d \in Calls, d # c PROVE Told(d)'
      <4>1. outbox'[d] = outbox[d] /\ state'[d] = state[d] /\ done \subseteq done'
        BY <2>1, <3>2 DEF StoreOK, StoreTypes
      <4> QED
        BY <4>1 DEF StoreOK, Told
    <3> QED
      BY <3>1, <3>2
  <2> QED
    BY <2>3, <2>7, <2>8 DEF StoreOK
<1> QED
  BY <1>1, <1>2

-----------------------------------------------------------------------------
(* The events of each request.                                             *)

\* One event, and two different ones of the same kind.
LEMMA ShortStories ==
    ASSUME NEW e \in Events, NEW f \in Events
    PROVE  /\ << >> \in Seq(Events) /\ Tells(<< >>)
           /\ <<e>> \in Seq(Events) /\ Tells(<<e>>) /\ OnlyOf(<<e>>, {e.type})
           /\ \A T : OnlyOf(<< >>, T)
           /\ e # f /\ e.type = f.type /\ e.type # "OUTGOING_CALL" =>
                /\ <<e, f>> \in Seq(Events)
                /\ Tells(<<e, f>>)
                /\ OnlyOf(<<e, f>>, {e.type})
BY DEF Tells, OnlyOf

\* Concatenating single events.
LEMMA TwoEvents ==
    ASSUME NEW e \in Events, NEW f \in Events
    PROVE  <<e>> \o <<f>> = <<e, f>>
<1> DEFINE s == <<e>>
           t == <<f>>
           r == <<e, f>>
<1>b. s \in Seq(Events) /\ t \in Seq(Events) /\ r \in Seq(Events)
  OBVIOUS
<1>1. /\ Len(s) = 1 /\ Len(t) = 1 /\ Len(r) = 2
      /\ s[1] = e /\ t[1] = f /\ r[1] = e /\ r[2] = f
  OBVIOUS
<1> HIDE DEF s, t, r
<1>a. /\ s \o t \in Seq(Events) /\ Len(s \o t) = Len(s) + Len(t)
      /\ \A i \in 1 .. Len(s) + Len(t) :
           (s \o t)[i] = IF i <= Len(s) THEN s[i] ELSE t[i - Len(s)]
  BY <1>b, ConcatProperties
<1>2. /\ s \o t \in Seq(Events) /\ Len(s \o t) = 2
      /\ (s \o t)[1] = e /\ (s \o t)[2] = f
  <2>1. 1 \in 1 .. Len(s) + Len(t) /\ 2 \in 1 .. Len(s) + Len(t)
    BY <1>1
  <2> QED
    BY <1>1, <1>a, <2>1
<1>3. \A i \in 1..2 : (s \o t)[i] = r[i]
  BY <1>1, <1>2
<1>4. s \o t = r
  BY <1>1, <1>b, <1>2, <1>3, SeqEqual
<1> QED
  BY <1>4 DEF s, t, r

\* What ending a call says to one or both of its users.
LEMMA EndStories ==
    ASSUME NEW type \in Terminal, NEW u \in Users, NEW v \in Users, u # v,
           NEW p \in BOOLEAN, NEW q \in BOOLEAN
    PROVE  LET es == If(p, Event(type, u)) \o If(q, Event(type, v))
           IN  es \in Seq(Events) /\ Tells(es) /\ OnlyOf(es, Terminal)
<1> DEFINE e == Event(type, u)
           f == Event(type, v)
           es == If(p, e) \o If(q, f)
<1>1. e \in Events /\ f \in Events /\ e # f /\ e.type = type /\ f.type = type
  BY DEF Event, Events
<1>2. type # "OUTGOING_CALL"
  BY DEF Terminal
<1> HIDE DEF e, f
<1>3. es = IF p THEN IF q THEN <<e, f>> ELSE <<e>> ELSE IF q THEN <<f>> ELSE << >>
  <2>1. <<e>> \in Seq(Events) /\ <<f>> \in Seq(Events) /\ << >> \in Seq(Events)
    BY <1>1
  <2>2. <<e>> \o << >> = <<e>> /\ << >> \o <<f>> = <<f>> /\ << >> \o << >> = << >>
    BY <2>1, ConcatEmptySeq
  <2>3. <<e>> \o <<f>> = <<e, f>>
    BY <1>1, TwoEvents
  <2> QED
    BY <2>2, <2>3 DEF If
<1> HIDE DEF es
<1>4. es \in Seq(Events) /\ Tells(es)
  BY <1>1, <1>2, <1>3, ShortStories
<1>5. OnlyOf(es, {type})
  BY <1>1, <1>2, <1>3, ShortStories
<1>6. OnlyOf(es, Terminal)
  BY <1>5 DEF OnlyOf
<1> QED
  BY <1>4, <1>6 DEF es, e, f

\* What creating a call says: first that it goes out, and nothing of its end.
LEMMA InitStories ==
    ASSUME NEW u \in Users, NEW v \in Users, NEW online \in BOOLEAN,
           NEW push \in {"VOIP_PUSH", "VOIP_PUSH_REQUIRED"}
    PROVE  LET es == <<Event("OUTGOING_CALL", u)>>
                       \o If(online, Event("INCOMING_CALL", v))
                       \o <<Event(push, v)>>
           IN  es \in Seq(Events) /\ Tells(es)
               /\ NoneOf(es, Terminal \cup {"CALL_ACCEPTED"})
<1> DEFINE e == Event("OUTGOING_CALL", u)
           f == Event("INCOMING_CALL", v)
           g == Event(push, v)
           x == If(online, f)
           T == Terminal \cup {"CALL_ACCEPTED"}
           P == T \cup {push}
<1>1. /\ e \in Events /\ f \in Events /\ g \in Events
      /\ e.type = "OUTGOING_CALL" /\ f.type = "INCOMING_CALL" /\ g.type = push
  BY DEF Event, Events
<1>2. x \in {<<f>>, << >>}
  BY DEF If
<1>3. "OUTGOING_CALL" \notin P /\ "INCOMING_CALL" \notin P /\ push \notin T
      /\ Terminal \subseteq T /\ T \subseteq P
  BY DEF Terminal
<1> HIDE DEF e, f, g, x, T, P
<1>4. /\ <<e>> \in Seq(Events) /\ Tells(<<e>>) /\ NoneOf(<<e>>, P)
      /\ <<g>> \in Seq(Events) /\ Tells(<<g>>) /\ NoneOf(<<g>>, T)
      /\ NoneOf(<<g>>, {"OUTGOING_CALL"})
  BY <1>1, <1>3 DEF Tells, NoneOf
<1>5. x \in Seq(Events) /\ Tells(x) /\ NoneOf(x, P) /\ NoneOf(x, {"OUTGOING_CALL"})
  <2>1. CASE x = <<f>>
    BY <1>1, <1>3, <2>1 DEF Tells, NoneOf
  <2>2. CASE x = << >>
    BY <2>2 DEF Tells, NoneOf
  <2> QED
    BY <1>2, <2>1, <2>2
<1> DEFINE a == <<e>> \o x
<1>6. a \in Seq(Events) /\ Tells(a) /\ NoneOf(a, P)
  <2>1. \A i \in 1..Len(<<e>>), j \in 1..Len(x) : <<e>>[i] # x[j]
    BY <1>1, <1>5 DEF NoneOf
  <2>2. NoneOf(<<e>>, Terminal)
    BY <1>3, <1>4 DEF NoneOf
  <2>3. a \in Seq(Events) /\ Tells(a)
    BY <1>4, <1>5, <2>1, <2>2, StoryContinues
  <2>4. NoneOf(a, P)
    BY <1>4, <1>5, ConcatNoneOf
  <2> QED
    BY <2>3, <2>4
<1> HIDE DEF a
<1>7. a \o <<g>> \in Seq(Events) /\ Tells(a \o <<g>>) /\ NoneOf(a \o <<g>>, T)
  <2>1. \A i \in 1..Len(a), j \in 1..Len(<<g>>) : a[i] # <<g>>[j]
    BY <1>1, <1>6 DEF NoneOf, P
  <2>2. NoneOf(a, Terminal) /\ NoneOf(a, T)
    BY <1>3, <1>6 DEF NoneOf
  <2>3. a \o <<g>> \in Seq(Events) /\ Tells(a \o <<g>>)
    BY <1>4, <1>6, <2>1, <2>2, StoryContinues
  <2>4. NoneOf(a \o <<g>>, T)
    BY <1>4, <1>6, <2>2, ConcatNoneOf
  <2> QED
    BY <2>3, <2>4
<1> QED
  BY <1>7 DEF a, e, f, g, x, T

-----------------------------------------------------------------------------
\* A handler that has finished or given up.
LEMMA IdleJobs ==
    ASSUME JobsOK, NEW h \in Handlers, Idle(h)
    PROVE  JobsOK'
BY DEF JobsOK, Idle, States

\* The operation a handler works on.
LEMMA JobOp ==
    ASSUME JobsOK, NEW h \in Handlers, job[h] # None
    PROVE  /\ RequestOK(job[h]) /\ job[h].call \in Calls
           /\ Caller[job[h].call] \in Users /\ Callee[job[h].call] \in Users
<1>1. RequestOK(job[h])
  BY RequestShape DEF JobsOK
<1> QED
  BY <1>1 DEF RequestOK, Ops

\* Reading the session.
LEMMA HandleIInv ==
    ASSUME IInv, NEW h \in Handlers, NEW op \in Requests, Handle(h, op)
    PROVE  IInv'
<1>1. StoreOK'
  BY StoreKept DEF IInv, Handle
<1>2. RequestOK(op) /\ op.call \in Calls
  BY RequestShape DEF RequestOK, Ops
<1>3. /\ op.kind \in {"accept", "reject", "push"} => state[op.call] = "ringing"
      /\ op.kind = "hangup" => state[op.call] \in {"ringing", "active"}
  BY DEF Handle, Permitted
<1>4. JobsOK'
  BY <1>2, <1>3 DEF IInv, JobsOK, StoreOK, StoreTypes, Handle
<1>5. SweepersOK'
  BY DEF IInv, SweepersOK, Handle
<1> QED
  BY <1>1, <1>4, <1>5 DEF IInv

\* Carrying out an initiate.
LEMMA InitiateIInv ==
    ASSUME IInv, NEW h \in Handlers, NEW online \in BOOLEAN, Initiate(h, online)
    PROVE  IInv'
<1> DEFINE op == job[h]
           c == op.call
           push == IF online THEN "VOIP_PUSH" ELSE "VOIP_PUSH_REQUIRED"
           es == <<Event("OUTGOING_CALL", Caller[c])>>
                   \o If(online, Event("INCOMING_CALL", Callee[c]))
                   \o <<Event(push, Callee[c])>>
<1>1. /\ job[h] # None /\ op.kind = "initiate"
      /\ CreateSessionWithEvents(op, hleft[h], es)
      /\ Idle(h) /\ UNCHANGED <<sweeper, phase>>
  BY DEF Initiate, Finish
<1>2. op = InitOp(c) /\ c \in Calls /\ Caller[c] \in Users /\ Callee[c] \in Users
  BY <1>1, JobOp DEF IInv, RequestOK
<1>3. push \in {"VOIP_PUSH", "VOIP_PUSH_REQUIRED"}
  OBVIOUS
<1>4. es \in Seq(Events) /\ Tells(es) /\ NoneOf(es, Terminal \cup {"CALL_ACCEPTED"})
  <2> HIDE DEF op, c, push
  <2> QED
    BY <1>2, <1>3, InitStories
<1>5. hleft[h] \in 0..Ring
  BY DEF IInv, JobsOK
<1> HIDE DEF op, c, push, es
<1>6. StoreOK'
  BY <1>1, <1>2, <1>4, <1>5, CreateKeeps DEF IInv
<1>7. JobsOK' /\ SweepersOK'
  BY <1>1, IdleJobs DEF IInv, SweepersOK
<1> QED
  BY <1>6, <1>7 DEF IInv

\* Carrying out anything else: the events are those of the new state.
LEMMA FinishIInv ==
    ASSUME IInv, NEW h \in Handlers, NEW to \in {"active", "ended"},
           NEW es \in Seq(Events), Tells(es),
           OnlyOf(es, IF to = "active" THEN {"CALL_ACCEPTED"} ELSE Terminal),
           NEW kind \in {"accept", "reject", "hangup", "push"},
           to = "active" => kind = "accept",
           Finish(h, kind, TransitionSessionWithEvents(job[h], seen[h], to, es))
    PROVE  IInv'
<1>1. /\ job[h] # None /\ job[h].kind = kind
      /\ TransitionSessionWithEvents(job[h], seen[h], to, es)
      /\ Idle(h) /\ UNCHANGED <<sweeper, phase>>
  BY DEF Finish
<1>2. job[h] \in Ops
  BY <1>1, JobOp DEF IInv, RequestOK
<1>3. seen[h] \in {"ringing", "active"} /\ (to = "active" => seen[h] = "ringing")
  BY <1>1 DEF IInv, JobsOK
<1>4. StoreOK'
  BY <1>1, <1>2, <1>3, TransitionKeeps DEF IInv
<1>5. JobsOK' /\ SweepersOK'
  BY <1>1, IdleJobs DEF IInv, SweepersOK
<1> QED
  BY <1>4, <1>5 DEF IInv

\* Both users of a call, and whoever of them acts.
LEMMA PeerOf ==
    ASSUME NEW c \in Calls, NEW u \in Pair(c)
    PROVE  u \in Users /\ Peer(c, u) \in Users /\ Peer(c, u) # u
BY DEF Pair, Peer

\* What ending a call says to whoever acts, and to the peer if found.
LEMMA TerminalStories ==
    ASSUME NEW type \in Terminal, NEW op, op.call \in Calls,
           op.by \in Pair(op.call), NEW found \in BOOLEAN
    PROVE  LET es == TerminalEvents(op, found, type)
           IN  es \in Seq(Events) /\ Tells(es) /\ OnlyOf(es, Terminal)
<1> DEFINE u == op.by
           v == Peer(op.call, op.by)
<1>1. u \in Users /\ v \in Users /\ u # v
  BY PeerOf
<1>2. TerminalEvents(op, found, type) =
        If(TRUE, Event(type, u)) \o If(found, Event(type, v))
  BY DEF TerminalEvents, If
<1> HIDE DEF u, v
<1> QED
  BY ZenonT(60), <1>1, <1>2, EndStories

\* Carrying out an accept, with or without a route to the caller.
LEMMA AcceptIInv ==
    ASSUME IInv, NEW h \in Handlers, NEW online \in BOOLEAN, Accept(h, online)
    PROVE  IInv'
<1> DEFINE op == job[h]
           c == op.call
           e == Event("CALL_ACCEPTED", Callee[c])
           f == Event("CALL_ACCEPTED", Caller[c])
           g == Event("CALL_ENDED", Callee[c])
<1>1. job[h] # None
  BY DEF Accept, Finish
<1>2. c \in Calls /\ Caller[c] \in Users /\ Callee[c] \in Users
  BY <1>1, JobOp DEF IInv
<1>3. /\ e \in Events /\ f \in Events /\ g \in Events /\ e # f
      /\ e.type = "CALL_ACCEPTED" /\ f.type = "CALL_ACCEPTED"
      /\ g.type = "CALL_ENDED"
  <2> HIDE DEF c
  <2> QED
    BY <1>2 DEF Event, Events, Terminal
<1>4. CASE online
  <2>1. Finish(h, "accept", TransitionSessionWithEvents(op, seen[h], "active", <<e, f>>))
    BY <1>4 DEF Accept, Finish
  <2> HIDE DEF e, f, g
  <2>2. /\ <<e, f>> \in Seq(Events) /\ Tells(<<e, f>>)
        /\ OnlyOf(<<e, f>>, {"CALL_ACCEPTED"})
    BY <1>3, ShortStories
  <2> QED
    BY <2>1, <2>2, FinishIInv
<1>5. CASE ~online
  <2>1. Finish(h, "accept", TransitionSessionWithEvents(op, seen[h], "ended", <<g>>))
    BY <1>5 DEF Accept, Finish
  <2> HIDE DEF e, f, g
  <2>2. <<g>> \in Seq(Events) /\ Tells(<<g>>) /\ OnlyOf(<<g>>, Terminal)
    BY <1>3 DEF Tells, OnlyOf, Terminal
  <2> QED
    BY <2>1, <2>2, FinishIInv
<1> QED
  BY <1>4, <1>5

\* Carrying out a rejection, a hangup or a push result.
LEMMA EndIInv ==
    ASSUME IInv, NEW h \in Handlers, NEW online \in BOOLEAN,
           Reject(h, online) \/ Hangup(h, online) \/ PushResult(h, online)
    PROVE  IInv'
<1>1. job[h] # None
  BY DEF Reject, Hangup, PushResult, Finish
<1>2. /\ job[h].call \in Calls /\ job[h].by \in Pair(job[h].call)
      /\ Caller[job[h].call] \in Users
  BY <1>1, JobOp DEF IInv, RequestOK
<1>3. \A type \in Terminal :
         LET es == TerminalEvents(job[h], online, type)
         IN  es \in Seq(Events) /\ Tells(es) /\ OnlyOf(es, Terminal)
  BY <1>2, TerminalStories
<1>4. "CALL_REJECTED" \in Terminal /\ "CALL_ENDED" \in Terminal
  BY DEF Terminal
<1>5. CASE Reject(h, online)
  BY <1>3, <1>4, <1>5, FinishIInv DEF Reject
<1>6. CASE Hangup(h, online)
  BY <1>3, <1>4, <1>6, FinishIInv DEF Hangup
<1>7. CASE PushResult(h, online)
  <2> DEFINE e == Event("CALL_ENDED", Caller[job[h].call])
             es == If(online, e)
  <2>1. e \in Events /\ e.type = "CALL_ENDED"
    BY <1>2 DEF Event, Events, Terminal
  <2> HIDE DEF e
  <2>2. es \in {<<e>>, << >>}
    BY DEF If
  <2>3. <<e>> \in Seq(Events) /\ Tells(<<e>>) /\ OnlyOf(<<e>>, Terminal)
    BY <1>4, <2>1 DEF Tells, OnlyOf
  <2>4. << >> \in Seq(Events) /\ Tells(<< >>) /\ OnlyOf(<< >>, Terminal)
    BY DEF Tells, OnlyOf
  <2>5. es \in Seq(Events) /\ Tells(es) /\ OnlyOf(es, Terminal)
    BY <2>2, <2>3, <2>4
  <2>6. Finish(h, "push", TransitionSessionWithEvents(job[h], seen[h], "ended", es))
    BY <1>7 DEF PushResult, e
  <2> HIDE DEF es
  <2> QED
    BY <2>5, <2>6, FinishIInv
<1> QED
  BY <1>5, <1>6, <1>7

\* A sweep ends a call that timed out, if it is still ringing.
LEMMA SweepOneIInv ==
    ASSUME IInv, NEW s \in Sweepers, NEW c \in Calls, SweepOne(s, c)
    PROVE  IInv'
<1>1. PICK p \in BOOLEAN, q \in BOOLEAN :
        TransitionSessionWithEvents(
            Op("timeout", c, Caller[c]), "ringing", "ended",
            If(p, Event("CALL_ENDED", Caller[c]))
              \o If(q, Event("CALL_ENDED", Callee[c])))
  BY DEF SweepOne
<1> DEFINE es == If(p, Event("CALL_ENDED", Caller[c]))
                   \o If(q, Event("CALL_ENDED", Callee[c]))
           op == Op("timeout", c, Caller[c])
<1>2. es \in Seq(Events) /\ Tells(es) /\ OnlyOf(es, Terminal)
  <2>1. "CALL_ENDED" \in Terminal /\ Caller[c] \in Users /\ Callee[c] \in Users
        /\ Caller[c] # Callee[c]
    BY DEF Terminal
  <2> QED
    BY <2>1, EndStories
<1>3. op \in Ops
  BY DEF Op, Ops
<1>4. TransitionSessionWithEvents(op, "ringing", "ended", es)
  BY <1>1
<1> HIDE DEF es, op
<1>5. StoreOK'
  BY <1>2, <1>3, <1>4, TransitionKeeps DEF IInv
<1>6. JobsOK' /\ SweepersOK'
  BY DEF IInv, JobsOK, SweepersOK, SweepOne
<1> QED
  BY <1>5, <1>6 DEF IInv

\* Collecting what timed out, and giving up on it.
LEMMA SweepIInv ==
    ASSUME IInv, NEW s \in Sweepers, ExpiredRinging(s) \/ SweepAbort(s)
    PROVE  IInv'
<1>1. JobsOK'
  BY DEF IInv, JobsOK, ExpiredRinging, SweepAbort
<1>2. SweepersOK'
  BY DEF IInv, SweepersOK, ExpiredRinging, SweepAbort
<1>3. /\ UNCHANGED <<state, stateTTL, left, userKey, userTTL, done, outbox>>
      /\ deadlines' \subseteq deadlines
  BY DEF ExpiredRinging, SweepAbort
<1>4. StoreTypes' /\ KeysLive'
  BY <1>3 DEF IInv, StoreOK, StoreTypes, KeysLive, StillHeld
<1>5. \A c \in Calls : Told(c)'
  BY <1>3 DEF IInv, StoreOK, Told
<1> QED
  BY <1>1, <1>2, <1>4, <1>5 DEF IInv, StoreOK

\* Counting down.
LEMMA LessProperties ==
    \A m, n \in Nat :
      /\ Less(m) \in Nat /\ Less(m) <= m
      /\ m <= n => Less(m) <= Less(n)
      /\ Less(m) > 0 => m > 1
BY DEF Less

\* Time passes and keys expire: never a user's key before the call it belongs
\* to, nor a session before the key of a user who is busy with it.
LEMMA TickIInv ==
    ASSUME IInv, Tick
    PROVE  IInv'
<1>1. /\ \A c \in Calls : /\ stateTTL[c] \in Nat /\ left[c] \in Nat
                           /\ stateTTL'[c] = Less(stateTTL[c])
                           /\ left'[c] = Less(left[c])
                           /\ state'[c] = IF stateTTL[c] <= 1 THEN "absent"
                                          ELSE state[c]
      /\ \A u \in Users : /\ userTTL[u] \in Nat
                           /\ userTTL'[u] = Less(userTTL[u])
                           /\ userKey'[u] = IF userTTL[u] <= 1 THEN None
                                            ELSE userKey[u]
  BY DEF IInv, StoreOK, StoreTypes, Tick
<1>2. StoreTypes'
  <2>1. /\ stateTTL' \in [Calls -> 0..MaxTTL] /\ left' \in [Calls -> 0..Ring]
        /\ userTTL' \in [Users -> 0..MaxTTL]
    BY MaxTTLBounds DEF IInv, StoreOK, StoreTypes, Tick, Less
  <2>2. state' \in [Calls -> States] /\ userKey' \in [Users -> Calls \cup {None}]
    BY DEF IInv, StoreOK, StoreTypes, Tick, States
  <2> QED
    BY <2>1, <2>2 DEF IInv, StoreOK, StoreTypes, Tick
<1>3. KeysLive'
  <2>a. \A c \in Calls : \A u \in Pair(c) : u \in Users
    BY DEF Pair
  <2>1. ASSUME NEW c \in Calls, state'[c] = "active"
        PROVE  StillHeld(c)' /\ \A u \in Pair(c) : userTTL'[u] >= stateTTL'[c]
    <3>1. state[c] = "active" /\ stateTTL[c] > 1
      BY <1>1, <2>1
    <3>2. StillHeld(c) /\ \A u \in Pair(c) : userTTL[u] >= stateTTL[c]
      BY <3>1 DEF IInv, StoreOK, KeysLive
    <3>3. \A u \in Pair(c) : userKey'[u] = userKey[u]
      BY <1>1, <2>a, <3>1, <3>2
    <3>4. StillHeld(c)'
      BY <3>2, <3>3 DEF StillHeld, Pair
    <3>5. \A u \in Pair(c) : userTTL'[u] >= stateTTL'[c]
      BY <1>1, <2>a, <3>2, LessProperties
    <3> QED
      BY <3>4, <3>5
  <2>2. ASSUME NEW c \in Calls, state'[c] = "ringing", left'[c] > 0
        PROVE  StillHeld(c)' /\ \A u \in Pair(c) : userTTL'[u] >= left'[c]
    <3>1. state[c] = "ringing" /\ left[c] > 1
      BY <1>1, <2>2, LessProperties
    <3>2. StillHeld(c) /\ \A u \in Pair(c) : userTTL[u] >= left[c]
      BY <1>1, <3>1 DEF IInv, StoreOK, KeysLive
    <3>3. \A u \in Pair(c) : userKey'[u] = userKey[u]
      BY <1>1, <2>a, <3>1, <3>2
    <3>4. StillHeld(c)'
      BY <3>2, <3>3 DEF StillHeld, Pair
    <3>5. \A u \in Pair(c) : userTTL'[u] >= left'[c]
      BY <1>1, <2>a, <3>2, LessProperties
    <3> QED
      BY <3>4, <3>5
  <2>3. ASSUME NEW u \in Users, userKey'[u] # None
        PROVE  /\ state'[userKey'[u]] \in {"ringing", "active"}
               /\ u \in Pair(userKey'[u])
               /\ userTTL'[u] <= stateTTL'[userKey'[u]]
    <3>1. userKey'[u] = userKey[u] /\ userTTL[u] > 1 /\ userKey[u] \in Calls
      BY <1>1, <2>3 DEF IInv, StoreOK, StoreTypes
    <3>2. /\ state[userKey[u]] \in {"ringing", "active"}
          /\ u \in Pair(userKey[u])
          /\ userTTL[u] <= stateTTL[userKey[u]]
      BY <2>3, <3>1 DEF IInv, StoreOK, KeysLive
    <3>3. state'[userKey[u]] = state[userKey[u]]
      BY <1>1, <3>1, <3>2
    <3>4. userTTL'[u] <= stateTTL'[userKey[u]]
      BY <1>1, <3>1, <3>2, LessProperties
    <3> QED
      BY <3>1, <3>2, <3>3, <3>4
  <2> QED
    BY <2>1, <2>2, <2>3 DEF KeysLive, Pair
<1>4. \A c \in Calls : Told(c)'
  <2> SUFFICES ASSUME NEW c \in Calls PROVE Told(c)'
    OBVIOUS
  <2>1. state'[c] \in {"absent", state[c]} /\ outbox' = outbox /\ done' = done
    BY <1>1 DEF Tick
  <2> QED
    BY <2>1 DEF IInv, StoreOK, Told
<1>5. JobsOK'
  <2>1. hleft' \in [Handlers -> 0..Ring]
    BY DEF IInv, JobsOK, Tick, Less
  <2> QED
    BY <2>1 DEF IInv, JobsOK, Tick
<1>6. SweepersOK'
  <2>1. idleFor' \in [Sweepers -> 0..SweepPeriod]
    BY DEF IInv, SweepersOK, Tick
  <2>2. phase' \in 0..(TicksPerSecond - 1)
    BY DEF IInv, SweepersOK, Tick
  <2> QED
    BY <2>1, <2>2 DEF IInv, SweepersOK, Tick
<1> QED
  BY <1>2, <1>3, <1>4, <1>5, <1>6 DEF IInv, StoreOK

\* A handler that gives up.
LEMMA AbandonIInv ==
    ASSUME IInv, NEW h \in Handlers, Abandon(h)
    PROVE  IInv'
BY StoreKept, IdleJobs DEF Abandon, IInv, SweepersOK

\* Every step keeps the invariant.
LEMMA NextIInv == IInv /\ [Next]_vars => IInv'
<1> SUFFICES ASSUME IInv, [Next]_vars PROVE IInv'
  OBVIOUS
<1>1. ASSUME NEW h \in Handlers, HandlerStep(h) PROVE IInv'
  BY <1>1, HandleIInv, InitiateIInv, AcceptIInv, EndIInv, AbandonIInv
  DEF HandlerStep
<1>2. ASSUME NEW s \in Sweepers, SweepExpired(s) PROVE IInv'
  BY <1>2, SweepIInv, SweepOneIInv DEF SweepExpired
<1>3. CASE UNCHANGED vars
  <2>1. StoreOK'
    BY <1>3, StoreKept DEF vars, IInv
  <2>2. JobsOK' /\ SweepersOK'
    BY <1>3 DEF vars, IInv, JobsOK, SweepersOK
  <2> QED
    BY <2>1, <2>2 DEF IInv
<1> QED
  BY <1>1, <1>2, <1>3, TickIInv DEF Next

-----------------------------------------------------------------------------
\* Accepting and ending make no call ring.
LEMMA TransitionRingsNot ==
    ASSUME StoreTypes, NEW op, NEW from, NEW to \in {"active", "ended"}, NEW es,
           TransitionSessionWithEvents(op, from, to, es)
    PROVE  RingsFresh
<1>1. state' = state \/ state' = [state EXCEPT ![op.call] = to]
  BY DEF TransitionSessionWithEvents
<1> QED
  BY <1>1 DEF RingsFresh, StoreTypes

\* No step makes a call ring that has told anything before.
LEMMA NextRingsFresh ==
    ASSUME IInv, Next
    PROVE  RingsFresh
<1>a. StoreTypes
  BY DEF IInv, StoreOK
<1>1. ASSUME NEW h \in Handlers, NEW op, Handle(h, op) PROVE RingsFresh
  BY <1>1 DEF Handle, RingsFresh
<1>2. ASSUME NEW h \in Handlers, NEW online \in BOOLEAN, Initiate(h, online)
      PROVE  RingsFresh
  <2> DEFINE op == job[h]
             c == op.call
  <2>1. /\ job[h] # None /\ op.kind = "initiate"
        /\ \E es : CreateSessionWithEvents(op, hleft[h], es)
    BY <1>2 DEF Initiate, Finish
  <2>2. op = InitOp(c) /\ c \in Calls
    BY <2>1, JobOp DEF IInv, RequestOK
  <2> HIDE DEF op, c
  <2>3. CASE op \in done
    <3>1. state' = state
      BY <2>1, <2>3 DEF CreateSessionWithEvents, CreateFresh
    <3> QED
      BY <3>1 DEF RingsFresh
  <2>4. CASE op \notin done
    <3>1. outbox[c] = << >>
      BY <2>2, <2>4 DEF IInv, StoreOK, Told
    <3>2. state' = state \/ state' = [state EXCEPT ![c] = "ringing"]
      BY <2>1 DEF CreateSessionWithEvents, c
    <3> QED
      BY <1>a, <3>1, <3>2 DEF RingsFresh, StoreTypes
  <2> QED
    BY <2>3, <2>4
<1>3. ASSUME NEW h \in Handlers, NEW online \in BOOLEAN,
             \/ Accept(h, online) \/ Reject(h, online)
             \/ Hangup(h, online) \/ PushResult(h, online)
      PROVE  RingsFresh
  <2>1. PICK to, es : /\ to \in {"active", "ended"}
                      /\ TransitionSessionWithEvents(job[h], seen[h], to, es)
    BY <1>3 DEF Accept, Reject, Hangup, PushResult, Finish
  <2> QED
    BY <1>a, <2>1, TransitionRingsNot
<1>4. ASSUME NEW h \in Handlers, Abandon(h) PROVE RingsFresh
  BY <1>4 DEF Abandon, RingsFresh
<1>5. ASSUME NEW s \in Sweepers, NEW c \in Calls, SweepOne(s, c) PROVE RingsFresh
  <2>1. PICK es : TransitionSessionWithEvents(Op("timeout", c, Caller[c]),
                                              "ringing", "ended", es)
    BY <1>5 DEF SweepOne
  <2> QED
    BY <1>a, <2>1, TransitionRingsNot
<1>6. ASSUME NEW s \in Sweepers, ExpiredRinging(s) \/ SweepAbort(s)
      PROVE  RingsFresh
  BY <1>6 DEF ExpiredRinging, SweepAbort, RingsFresh
<1>7. CASE Tick
  BY <1>7 DEF Tick, RingsFresh
<1>8. ASSUME NEW h \in Handlers, HandlerStep(h) PROVE RingsFresh
  BY <1>1, <1>2, <1>3, <1>4, <1>8 DEF HandlerStep
<1>9. ASSUME NEW s \in Sweepers, SweepExpired(s) PROVE RingsFresh
  BY <1>5, <1>6, <1>9 DEF SweepExpired
<1> QED
  BY <1>7, <1>8, <1>9 DEF Next

-----------------------------------------------------------------------------
\* The invariant holds in every reachable state.
THEOREM SpecIInv == Spec => []IInv
BY InitIInv, NextIInv, PTL DEF Spec

\* The keys of Redis and the handlers stay well typed.
THEOREM SpecTypeOK == Spec => []TypeOK
<1>1. IInv => TypeOK
  BY DEF IInv, TypeOK, StoreOK, StoreTypes, JobsOK, SweepersOK
<1> QED
  BY <1>1, SpecIInv, PTL

\* The busy index and the sessions agree, whatever expires in between.
THEOREM SpecBusyIndex == Spec => []BusyIndex
<1>1. IInv => BusyIndex
  BY DEF IInv, BusyIndex, StoreOK, KeysLive, Live, Pair
<1> QED
  BY <1>1, SpecIInv, PTL

\* A user takes part in at most one live call.
THEOREM SpecOneCallPerUser == Spec => []OneCallPerUser
<1>1. IInv => OneCallPerUser
  <2> SUFFICES ASSUME IInv, NEW c \in Calls, NEW d \in Calls, c # d, Live(c), Live(d)
               PROVE  Pair(c) \cap Pair(d) = {}
    BY DEF OneCallPerUser, Pair
  <2>1. StillHeld(c) /\ StillHeld(d)
    BY DEF IInv, StoreOK, KeysLive, Live
  <2> QED
    BY <2>1 DEF StillHeld, Pair
<1> QED
  BY <1>1, SpecIInv, PTL

\* The events of a call in the stream tell one story.
THEOREM SpecOneStory == Spec => []OneStory
<1>1. IInv => OneStory
  BY DEF IInv, StoreOK, Told, Tells, OneStory
<1> QED
  BY <1>1, SpecIInv, PTL

\* A redelivered initiate does not make a call ring again.
THEOREM SpecRingsOnce == Spec => RingsOnce
<1>1. IInv /\ [Next]_vars => [RingsFresh]_vars
  BY NextRingsFresh
<1> QED
  BY <1>1, SpecIInv, PTL DEF Spec, RingsOnce
=============================================================================
