----------------------------- MODULE CallService -----------------------------
(***************************************************************************)
(* The one-to-one call state machine of callService: sessions, the index   *)
(* of busy users, the ring deadlines and the outbox stream, all in Redis,  *)
(* changed by Lua scripts.  Kafka consumers of several pods handle the     *)
(* requests (Handlers) and each pod sweeps ringing calls that timed out    *)
(* (Sweepers).                                                             *)
(*                                                                         *)
(* A request is an operation with a key.  It is delivered any number of    *)
(* times, also to two handlers at once (see KafkaConsumer).  The id of a   *)
(* call is derived from the key of its initiate operation, so that Calls   *)
(* also names those operations.                                            *)
(*                                                                         *)
(* A handler reads the session and the routes first and runs its script    *)
(* later: everything may happen in between.  get_config, resume_call and   *)
(* ice_candidate change no state and are not modelled.                     *)
(*                                                                         *)
(* Time is counted in ticks, TicksPerSecond to a second, because ring      *)
(* deadlines have fractions of a second and their scores in the sorted set *)
(* do not.  Deadlines and TTLs are countdowns; phase is the tick within    *)
(* the current second.                                                     *)
(***************************************************************************)
EXTENDS Naturals, Sequences

CONSTANTS
    Users, Calls,
    Caller, Callee,   \* the participants of each call
    Handlers, Sweepers,
    TicksPerSecond,
    Ring,             \* ringTTL
    Grace,            \* cleanupGrace
    ActiveTTL,        \* activeTTL
    EndedTTL,         \* terminatedTTL
    SweepPeriod,      \* the ticker of sweep
    SweepMayFail,     \* whether a sweep can break off
    None

ASSUME CallAssumption ==
    /\ Caller \in [Calls -> Users]
    /\ Callee \in [Calls -> Users]
    /\ \A c \in Calls : Caller[c] # Callee[c]
    /\ None \notin Calls

ASSUME DurationAssumption ==
    /\ TicksPerSecond \in Nat \ {0}
    /\ Ring \in Nat \ {0}
    /\ Grace \in Nat \ {0}
    /\ ActiveTTL \in Nat \ {0}
    /\ EndedTTL \in Nat \ {0}
    /\ SweepPeriod \in Nat \ {0}
    /\ SweepMayFail \in BOOLEAN

VARIABLES
    state,      \* Session.State of the session key, "absent" without one
    stateTTL,   \* time to live of the session key
    left,       \* time until Session.RingDeadline
    userKey,    \* call:user:<id>
    userTTL,
    deadlines,  \* members of call:ring_deadlines
    done,       \* operation keys
    outbox,     \* the events of each call in call:outbox, in stream order
    job, seen, hleft, \* a handler: its operation, the state it read, the time
                      \* until the ring deadline it has computed
    expired,    \* a sweeper: the sessions it has still to end
    idleFor,    \* time since the sweeper's last run
    phase

session == <<state, stateTTL, left>>
index   == <<userKey, userTTL>>
handler == <<job, seen, hleft>>
sweeper == <<expired, idleFor>>
vars    == <<session, index, deadlines, done, outbox, handler, sweeper, phase>>

-----------------------------------------------------------------------------

Op(kind, c, u) == [kind |-> kind, call |-> c, by |-> u]

\* A client request, or a VoIP result of the push service.
Ops == [kind : {"initiate", "accept", "reject", "hangup", "push", "timeout"},
        call : Calls, by : Users]

Requests ==
    UNION {{Op("initiate", c, Caller[c]), Op("accept", c, Callee[c]),
            Op("reject", c, Callee[c]), Op("hangup", c, Caller[c]),
            Op("hangup", c, Callee[c]), Op("push", c, Caller[c])} : c \in Calls}

Event(type, u) == [type |-> type, to |-> u]

Terminal == {"CALL_REJECTED", "CALL_ENDED"}

Events == [type : {"OUTGOING_CALL", "INCOMING_CALL", "VOIP_PUSH",
                   "VOIP_PUSH_REQUIRED", "CALL_ACCEPTED"} \cup Terminal,
           to : Users]

States == {"absent", "ringing", "active", "ended"}

\* The longest time to live of a key.
MaxTTL == LET m == IF Ring + Grace > ActiveTTL THEN Ring + Grace ELSE ActiveTTL
          IN  IF m > EndedTTL THEN m ELSE EndedTTL

Peer(c, u) == IF u = Caller[c] THEN Callee[c] ELSE Caller[c]

\* The event goes out when the route lookup found the user.
If(condition, event) == IF condition THEN <<event>> ELSE << >>

Less(t) == IF t > 0 THEN t - 1 ELSE 0

TypeOK ==
    /\ state \in [Calls -> States]
    /\ stateTTL \in [Calls -> 0..MaxTTL]
    /\ left \in [Calls -> 0..Ring]
    /\ userKey \in [Users -> Calls \cup {None}]
    /\ userTTL \in [Users -> 0..MaxTTL]
    /\ deadlines \subseteq Calls
    /\ done \subseteq Ops
    /\ outbox \in [Calls -> Seq(Events)]
    /\ job \in [Handlers -> Requests \cup {None}]
    /\ seen \in [Handlers -> States]
    /\ hleft \in [Handlers -> 0..Ring]
    /\ expired \in [Sweepers -> SUBSET Calls]
    /\ idleFor \in [Sweepers -> 0..SweepPeriod]
    /\ phase \in 0..(TicksPerSecond - 1)

Init ==
    /\ state = [c \in Calls |-> "absent"]
    /\ stateTTL = [c \in Calls |-> 0]
    /\ left = [c \in Calls |-> 0]
    /\ userKey = [u \in Users |-> None]
    /\ userTTL = [u \in Users |-> 0]
    /\ deadlines = {}
    /\ done = {}
    /\ outbox = [c \in Calls |-> << >>]
    /\ job = [h \in Handlers |-> None]
    /\ seen = [h \in Handlers |-> "absent"]
    /\ hleft = [h \in Handlers |-> 0]
    /\ expired = [s \in Sweepers |-> {}]
    /\ idleFor = [s \in Sweepers |-> 0]
    /\ phase = 0

-----------------------------------------------------------------------------
(* The scripts of the store.                                               *)

\* Mutant: only the busy index is checked, not the operation key.
CreateFreshIgnoringKey(op) ==
    userKey[Caller[op.call]] = None /\ userKey[Callee[op.call]] = None

\* createSessionWithEventsScript creates: the operation is new and both users
\* are free.
CreateFresh(op) ==
    /\ op \notin done
    /\ userKey[Caller[op.call]] = None
    /\ userKey[Callee[op.call]] = None

\* The time to live of the users' keys is what was left until the deadline when
\* CreateSessionWithEvents computed it, before its script ran: any time from
\* the whole ring to what is left now, and the whole ring when nothing was left.
\* A tick is coarser than the millisecond it is rounded down to.
\*
\* Operation keys stay.  NewRedisStore makes their time to live longer than the
\* window in which a request is delivered again, and the key of a timeout
\* belongs to a call that never rings again.
CreateSessionWithEvents(op, deadline, events) ==
    LET c  == op.call
        us == {Caller[c], Callee[c]}
    IN
    IF CreateFresh(op)
    THEN \E ttl \in (deadline..Ring) \ {0} :
         /\ state' = [state EXCEPT ![c] = "ringing"]
         /\ stateTTL' = [stateTTL EXCEPT ![c] = ttl + Grace]
         /\ left' = [left EXCEPT ![c] = deadline]
         /\ userKey' = [u \in Users |-> IF u \in us THEN c ELSE userKey[u]]
         /\ userTTL' = [u \in Users |-> IF u \in us THEN ttl ELSE userTTL[u]]
         /\ deadlines' = deadlines \cup {c}
         /\ done' = done \cup {op}
         /\ outbox' = [outbox EXCEPT ![c] = @ \o events]
    ELSE UNCHANGED <<session, index, deadlines, done, outbox>>

\* Mutant: the session is not compared with the one that was read.
UnchangedSinceIgnored(c, from) == state[c] # "absent"

\* The comparison of the stored JSON with the one the handler read.  A session
\* never returns to a state it has left, so the state stands for the JSON.
UnchangedSince(c, from) == state[c] = from

\* Mutant: accepting does not look at the busy index.
StillHeldIgnored(c) == TRUE

\* A call that goes on needs both users' keys.
StillHeld(c) == userKey[Caller[c]] = c /\ userKey[Callee[c]] = c

\* Mutant: the keys of both users are deleted whatever they hold.
HolderIgnored(c, u) == u \in {Caller[c], Callee[c]}

Holder(c, u) == userKey[u] = c

\* Mutant: the time to live in milliseconds is read as seconds.
TTLInSeconds(to) == 1000 * (IF to = "ended" THEN EndedTTL ELSE ActiveTTL)

TTL(to) == IF to = "ended" THEN EndedTTL ELSE ActiveTTL

TransitionSessionWithEvents(op, from, to, events) ==
    LET c == op.call IN
    IF /\ op \notin done
       /\ UnchangedSince(c, from)
       /\ to # "ended" => StillHeld(c)
    THEN /\ state' = [state EXCEPT ![c] = to]
         /\ stateTTL' = [stateTTL EXCEPT ![c] = TTL(to)]
         /\ deadlines' = deadlines \ {c}
         /\ IF to = "ended"
            THEN /\ userKey' = [u \in Users |-> IF Holder(c, u) THEN None
                                                ELSE userKey[u]]
                 /\ UNCHANGED userTTL
            ELSE /\ userTTL' = [u \in Users |->
                                  IF u \in {Caller[c], Callee[c]} THEN TTL(to)
                                  ELSE userTTL[u]]
                 /\ UNCHANGED userKey
         /\ done' = done \cup {op}
         /\ outbox' = [outbox EXCEPT ![c] = @ \o events]
         /\ UNCHANGED left
    ELSE UNCHANGED <<session, index, deadlines, done, outbox>>

-----------------------------------------------------------------------------
(* Handle and HandlePushResult.                                            *)

Idle(h) == job' = [job EXCEPT ![h] = None]
           /\ seen' = [seen EXCEPT ![h] = "absent"]
           /\ hleft' = [hleft EXCEPT ![h] = 0]

\* A push result can arrive once the push was asked for as required.
PushAsked(c) ==
    \E i \in 1..Len(outbox[c]) : outbox[c][i].type = "VOIP_PUSH_REQUIRED"

\* What each request requires of the session it reads; a request that fails
\* here is answered with an error event and changes nothing.
Permitted(op) ==
    LET c == op.call IN
    CASE op.kind = "initiate" -> TRUE
      [] op.kind = "accept"   -> state[c] = "ringing" /\ left[c] > 0
      [] op.kind = "reject"   -> state[c] = "ringing"
      [] op.kind = "hangup"   -> state[c] \in {"ringing", "active"}
      [] op.kind = "push"     -> state[c] = "ringing" /\ PushAsked(c)

\* The first half of a request: the operation is not completed, and the session
\* is read and checked.  The route lookup that follows has any outcome, which
\* nobody sees before the script runs: it is chosen there.
Handle(h, op) ==
    /\ job[h] = None
    /\ op \in Requests
    /\ op.kind # "push" => op \notin done
    /\ Permitted(op)
    /\ job' = [job EXCEPT ![h] = op]
    /\ seen' = [seen EXCEPT ![h] = state[op.call]]
    /\ hleft' = [hleft EXCEPT ![h] = IF op.kind = "initiate" THEN Ring ELSE 0]
    /\ UNCHANGED <<session, index, deadlines, done, outbox, sweeper, phase>>

Finish(h, kind, commit) ==
    /\ job[h] # None
    /\ job[h].kind = kind
    /\ commit
    /\ Idle(h)
    /\ UNCHANGED <<sweeper, phase>>

Initiate(h, online) ==
    LET op == job[h]
        c  == op.call
        push == IF online THEN "VOIP_PUSH" ELSE "VOIP_PUSH_REQUIRED"
    IN  Finish(h, "initiate",
          CreateSessionWithEvents(op, hleft[h],
            <<Event("OUTGOING_CALL", Caller[c])>>
              \o If(online, Event("INCOMING_CALL", Callee[c]))
              \o <<Event(push, Callee[c])>>))

\* acceptAtomic: without a route to the caller the call ends instead.
Accept(h, online) ==
    LET op == job[h]
        c  == op.call
    IN  Finish(h, "accept",
          IF online
          THEN TransitionSessionWithEvents(op, seen[h], "active",
                 <<Event("CALL_ACCEPTED", Callee[c]),
                   Event("CALL_ACCEPTED", Caller[c])>>)
          ELSE TransitionSessionWithEvents(op, seen[h], "ended",
                 <<Event("CALL_ENDED", Callee[c])>>))

TerminalEvents(op, found, type) ==
    <<Event(type, op.by)>> \o If(found, Event(type, Peer(op.call, op.by)))

Reject(h, online) ==
    Finish(h, "reject",
      TransitionSessionWithEvents(job[h], seen[h], "ended",
        TerminalEvents(job[h], online, "CALL_REJECTED")))

Hangup(h, online) ==
    Finish(h, "hangup",
      TransitionSessionWithEvents(job[h], seen[h], "ended",
        TerminalEvents(job[h], online, "CALL_ENDED")))

\* handlePushResultAtomic: the required push could not be delivered.
PushResult(h, online) ==
    Finish(h, "push",
      TransitionSessionWithEvents(job[h], seen[h], "ended",
        If(online, Event("CALL_ENDED", Caller[job[h].call]))))

\* The pod dies, or Redis does not answer: the request will be delivered again.
Abandon(h) ==
    /\ job[h] # None
    /\ Idle(h)
    /\ UNCHANGED <<session, index, deadlines, done, outbox, sweeper, phase>>

-----------------------------------------------------------------------------
(* SweepExpired.                                                           *)

\* ZRANGEBYSCORE -inf now: scores are whole seconds, rounded down.
Scored(c) == c \in deadlines /\ (phase + left[c]) \div TicksPerSecond = 0

\* SweepExpired ends only a ringing session whose deadline has passed.
TimedOut(c) == state[c] = "ringing" /\ left[c] = 0

\* ExpiredRinging: what the range selected and is not a ringing session past
\* its deadline leaves the set.  The session reads and the removals are one step
\* with the range: now is taken before it, no deadline is set again, a call
\* that leaves the set early was not to be ended, and a session that changes
\* between the steps fails the comparison of the script.  There are fewer calls
\* than the 100 that one range returns.
ExpiredRinging(s) ==
    /\ expired[s] = {}
    /\ expired' = [expired EXCEPT ![s] = {c \in Calls : Scored(c) /\ TimedOut(c)}]
    /\ deadlines' = {c \in deadlines : Scored(c) => TimedOut(c)}
    /\ idleFor' = [idleFor EXCEPT ![s] = 0]
    /\ UNCHANGED <<session, index, done, outbox, handler, phase>>

SweepOne(s, c) ==
    /\ c \in expired[s]
    /\ \E callerOnline, calleeOnline \in BOOLEAN :
          TransitionSessionWithEvents(
            Op("timeout", c, Caller[c]), "ringing", "ended",
            If(callerOnline, Event("CALL_ENDED", Caller[c]))
              \o If(calleeOnline, Event("CALL_ENDED", Callee[c])))
    /\ expired' = [expired EXCEPT ![s] = @ \ {c}]
    /\ UNCHANGED <<idleFor, handler, phase>>

\* A route lookup or a script fails, or the pod dies: the rest of the list is
\* left to the next sweep.
SweepAbort(s) ==
    /\ SweepMayFail
    /\ expired[s] # {}
    /\ expired' = [expired EXCEPT ![s] = {}]
    /\ UNCHANGED <<session, index, deadlines, done, outbox, idleFor, handler,
                   phase>>

-----------------------------------------------------------------------------

\* One tick.  Redis drops the keys whose time has come.  A sweeper runs at
\* least every SweepPeriod.
Tick ==
    /\ \A s \in Sweepers : idleFor[s] < SweepPeriod
    /\ phase' = (phase + 1) % TicksPerSecond
    /\ idleFor' = [s \in Sweepers |-> idleFor[s] + 1]
    /\ left' = [c \in Calls |-> Less(left[c])]
    /\ hleft' = [h \in Handlers |-> Less(hleft[h])]
    /\ stateTTL' = [c \in Calls |-> Less(stateTTL[c])]
    /\ state' = [c \in Calls |-> IF stateTTL[c] <= 1 THEN "absent" ELSE state[c]]
    /\ userTTL' = [u \in Users |-> Less(userTTL[u])]
    /\ userKey' = [u \in Users |-> IF userTTL[u] <= 1 THEN None ELSE userKey[u]]
    /\ UNCHANGED <<deadlines, done, outbox, job, seen, expired>>

HandlerStep(h) == \/ \E op \in Requests : Handle(h, op)
                  \/ \E online \in BOOLEAN :
                        \/ Initiate(h, online)
                        \/ Accept(h, online)
                        \/ Reject(h, online)
                        \/ Hangup(h, online)
                        \/ PushResult(h, online)
                  \/ Abandon(h)

SweepExpired(s) == \/ ExpiredRinging(s)
                   \/ \E c \in Calls : SweepOne(s, c)
                   \/ SweepAbort(s)

Next == \/ \E h \in Handlers : HandlerStep(h)
        \/ \E s \in Sweepers : SweepExpired(s)
        \/ Tick

Spec == Init /\ [][Next]_vars

(***************************************************************************)
(* Fairness.  Time passes, the ticker starts a sweep again and again, and a*)
(* sweep that keeps being tried gets through its list.  Nothing is assumed *)
(* of the clients.                                                         *)
(***************************************************************************)
Fairness ==
    /\ WF_vars(Tick)
    /\ \A s \in Sweepers : /\ WF_vars(ExpiredRinging(s))
                           /\ \A c \in Calls : SF_vars(SweepOne(s, c))

FairSpec == Spec /\ Fairness

-----------------------------------------------------------------------------
(* Properties.                                                             *)

Live(c) == state[c] = "active" \/ (state[c] = "ringing" /\ left[c] > 0)

\* A user takes part in at most one call that is active or still ringing,
\* although keys expire, requests race and an accept may be decided before the
\* deadline and carried out after it.
OneCallPerUser ==
    \A c, d \in Calls :
        c # d /\ Live(c) /\ Live(d)
          => {Caller[c], Callee[c]} \cap {Caller[d], Callee[d]} = {}

\* The busy index agrees with the sessions: both users of a live call are
\* busy with it, and a user is busy only with a call that has not ended.  A
\* late end of one call does not free the users of the next.
BusyIndex ==
    /\ \A c \in Calls : Live(c) => StillHeld(c)
    /\ \A u \in Users :
          userKey[u] # None =>
              /\ state[userKey[u]] \in {"ringing", "active"}
              /\ u \in {Caller[userKey[u]], Callee[userKey[u]]}

\* In the stream, the events of a call tell one story: it is announced once,
\* accepted at most once and after that, and its end is the last thing said,
\* once to a user, whichever requests, push results and sweeps race.
OneStory ==
    \A c \in Calls : \A i, j \in 1..Len(outbox[c]) :
        LET e == outbox[c][i]
            f == outbox[c][j]
        IN  i < j => /\ e # f
                     /\ e.type \in Terminal => f.type = e.type
                     /\ f.type # "OUTGOING_CALL"

\* A call that begins to ring in this step has told nothing yet.
RingsFresh ==
    \A c \in Calls :
        state[c] # "ringing" /\ state'[c] = "ringing" => outbox[c] = << >>

\* A call rings once: a redelivered initiate does not bring it back after it
\* has ended and its session has expired.
RingsOnce == [][RingsFresh]_vars

\* A call that rings is answered, ended by somebody or timed out: its session
\* does not just vanish.  This is what the API promises with CALL_ENDED.
RingingIsEnded ==
    \A c \in Calls : state[c] = "ringing" ~> state[c] \in {"active", "ended"}

=============================================================================
