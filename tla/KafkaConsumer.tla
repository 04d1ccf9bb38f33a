---------------------------- MODULE KafkaConsumer ----------------------------
(***************************************************************************)
(* The reliable consumer of shared/kafkaconsumer, as Storage, Friend, Call *)
(* and Push run it: one partition of a source topic, the consumer group    *)
(* that shares it, the retry loop around the service's processor and the   *)
(* dead-letter queue.                                                      *)
(*                                                                         *)
(* A session of member m is one run of ConsumeClaim.  The broker's view of *)
(* who owns the partition (owner) may be ahead of the member's: after a    *)
(* revocation the old member keeps running, a zombie, until its session    *)
(* context is cancelled.                                                   *)
(*                                                                         *)
(* Offsets are numbered from 1.  committed = 0 says that the group never   *)
(* committed an offset for the partition; otherwise committed is the next  *)
(* offset the group will read.                                             *)
(***************************************************************************)
EXTENDS Naturals

CONSTANTS
    Members,        \* processes of the consumer group
    MaxOffset,      \* bound: messages ever produced to the partition
    MaxRetries,     \* Config.MaxRetries
    Poison,         \* offsets on which the processor never succeeds
    InitialOffset,  \* Consumer.Offsets.Initial: "oldest" or "newest"
    EverCommitted,  \* whether the group has committed before the model starts
    MaxFaults,      \* bound: revocations, cancellations and crashes
    None            \* no member

Offsets == 1..MaxOffset

ASSUME ConsumerAssumption ==
    /\ MaxOffset \in Nat
    /\ MaxRetries \in Nat
    /\ MaxFaults \in Nat
    /\ Poison \subseteq Offsets
    /\ InitialOffset \in {"oldest", "newest"}
    /\ EverCommitted \in BOOLEAN
    /\ None \notin Members

VARIABLES
    logEnd,     \* offset of the last message produced, 0 when there is none
    committed,  \* the group's committed offset
    owner,      \* the member the broker assigned the partition to
    pc,         \* where ConsumeClaim of each member is
    next,       \* the offset each session reads or works on
    marked,     \* what each session would commit (MarkMessage), 0 for nothing
    attempt,    \* attempt counter of processWithRetry
    class,      \* class of the failure to dead-letter
    cancelled,  \* session.Context() is done
    done,       \* offsets the processor completed successfully
    dlq,        \* dead letters, with the headers that matter
    refused,    \* history: offsets whose last dead letter failed
    faults      \* faults so far

vars == <<logEnd, committed, owner, pc, next, marked, attempt, class,
          cancelled, done, dlq, refused, faults>>

\* What a session may change by itself.
session == <<pc, next, marked, attempt, class>>

Failures == {"permanent", "transient"}
Classes == Failures \cup {"none"}
States  == {"idle", "fetch", "process", "backoff", "deadletter",
            "mark", "closing"}

DeadLetters == [offset : Offsets, class : Failures, retries : Nat]

DeadLettered == {d.offset : d \in dlq}

\* An offset is handled once it has been processed or dead-lettered.
Handled(o) == o \in done \/ o \in DeadLettered

TypeOK ==
    /\ logEnd \in 0..MaxOffset
    /\ committed \in 0..(MaxOffset + 1)
    /\ owner \in Members \cup {None}
    /\ pc \in [Members -> States]
    /\ next \in [Members -> 1..(MaxOffset + 1)]
    /\ marked \in [Members -> 0..(MaxOffset + 1)]
    /\ attempt \in [Members -> 0..MaxRetries]
    /\ class \in [Members -> Classes]
    /\ cancelled \in [Members -> BOOLEAN]
    /\ done \subseteq Offsets
    /\ dlq \subseteq DeadLetters
    /\ refused \subseteq Offsets
    /\ faults \in 0..MaxFaults

Init ==
    /\ logEnd = 0
    /\ committed = IF EverCommitted THEN 1 ELSE 0
    /\ owner = None
    /\ pc = [m \in Members |-> "idle"]
    /\ next = [m \in Members |-> 1]
    /\ marked = [m \in Members |-> 0]
    /\ attempt = [m \in Members |-> 0]
    /\ class = [m \in Members |-> "none"]
    /\ cancelled = [m \in Members |-> FALSE]
    /\ done = {}
    /\ dlq = {}
    /\ refused = {}
    /\ faults = 0

-----------------------------------------------------------------------------
(* The broker and the client library.                                      *)

Produce ==
    /\ logEnd < MaxOffset
    /\ logEnd' = logEnd + 1
    /\ UNCHANGED <<committed, owner, session, cancelled, done, dlq, refused,
                   faults>>

\* Where a new session starts: the committed offset, or Offsets.Initial when
\* the group has none.
StartOffset ==
    CASE committed # 0 -> committed
      [] committed = 0 /\ InitialOffset = "oldest" -> 1
      [] OTHER -> logEnd + 1

\* group.Consume joins, the broker hands the partition over and ConsumeClaim
\* starts.
Assign(m) ==
    /\ owner = None
    /\ pc[m] = "idle"
    /\ owner' = m
    /\ pc' = [pc EXCEPT ![m] = "fetch"]
    /\ next' = [next EXCEPT ![m] = StartOffset]
    /\ UNCHANGED <<logEnd, committed, marked, attempt, class, cancelled, done,
                   dlq, refused, faults>>

\* A session commits what it marked, once, and the broker accepts it from the
\* owner only.
CanCommit(m) == owner = m /\ marked[m] # 0 /\ marked[m] # committed

AutoCommit(m) ==
    /\ pc[m] # "idle"
    /\ CanCommit(m)
    /\ committed' = marked[m]
    /\ UNCHANGED <<logEnd, owner, session, cancelled, done, dlq, refused,
                   faults>>

\* The broker takes the partition away; the member does not know yet.
Revoke(m) ==
    /\ faults < MaxFaults
    /\ owner = m
    /\ owner' = None
    /\ faults' = faults + 1
    /\ UNCHANGED <<logEnd, committed, session, cancelled, done, dlq, refused>>

\* The session context is cancelled: a rebalance, a shutdown, or the member
\* learns that it was revoked (which costs no fault).
CancelContext(m) ==
    /\ pc[m] # "idle"
    /\ ~cancelled[m]
    /\ \/ owner # m /\ UNCHANGED faults
       \/ owner = m /\ faults < MaxFaults /\ faults' = faults + 1
    /\ cancelled' = [cancelled EXCEPT ![m] = TRUE]
    /\ UNCHANGED <<logEnd, committed, owner, session, done, dlq, refused>>

\* The locals of ConsumeClaim end with it.
SessionOver(m) ==
    /\ pc' = [pc EXCEPT ![m] = "idle"]
    /\ next' = [next EXCEPT ![m] = 1]
    /\ marked' = [marked EXCEPT ![m] = 0]
    /\ attempt' = [attempt EXCEPT ![m] = 0]
    /\ class' = [class EXCEPT ![m] = "none"]
    /\ cancelled' = [cancelled EXCEPT ![m] = FALSE]
    /\ owner' = IF owner = m THEN None ELSE owner

\* The process dies.  Its marked but uncommitted offsets are lost.
Crash(m) ==
    /\ faults < MaxFaults
    /\ pc[m] # "idle"
    /\ SessionOver(m)
    /\ faults' = faults + 1
    /\ UNCHANGED <<logEnd, committed, done, dlq, refused>>

\* ConsumeClaim returned: the session commits what it marked, if it still
\* owns the partition, and leaves.
EndSession(m) ==
    /\ pc[m] = "closing"
    /\ SessionOver(m)
    /\ committed' = IF CanCommit(m) THEN marked[m] ELSE committed
    /\ UNCHANGED <<logEnd, done, dlq, refused, faults>>

-----------------------------------------------------------------------------
(* ConsumeClaim and processWithRetry.                                      *)

\* Mutant: after an error the loop goes on with the next message instead of
\* returning.
FetchSkipsAhead(m) ==
    /\ pc[m] \in {"fetch", "closing"}
    /\ next[m] < logEnd
    /\ pc' = [pc EXCEPT ![m] = "process"]
    /\ next' = [next EXCEPT ![m] = @ + 1]
    /\ attempt' = [attempt EXCEPT ![m] = 0]
    /\ UNCHANGED <<logEnd, committed, owner, marked, class, cancelled, done,
                   dlq, refused, faults>>

\* range claim.Messages(): the channel yields the next message, or it is
\* closed once the context is cancelled.
Fetch(m) ==
    /\ pc[m] = "fetch"
    /\ \/ /\ next[m] <= logEnd
          /\ pc' = [pc EXCEPT ![m] = "process"]
          /\ attempt' = [attempt EXCEPT ![m] = 0]
       \/ /\ cancelled[m]
          /\ pc' = [pc EXCEPT ![m] = "closing"]
          /\ UNCHANGED attempt
    /\ UNCHANGED <<logEnd, committed, owner, next, marked, class, cancelled,
                   done, dlq, refused, faults>>

\* operationCtx.Err() at the head of the loop, or operationCtx.Done() while
\* waiting to retry: the message stays unmarked.
StopOnCancel(m) ==
    /\ pc[m] \in {"process", "backoff"}
    /\ cancelled[m]
    /\ pc' = [pc EXCEPT ![m] = "closing"]
    /\ UNCHANGED <<logEnd, committed, owner, next, marked, attempt, class,
                   cancelled, done, dlq, refused, faults>>

\* The processor ran to completion.  Cancellation may arrive during the call.
ProcessSuccess(m) ==
    /\ pc[m] = "process"
    /\ next[m] \notin Poison
    /\ done' = done \cup {next[m]}
    /\ refused' = refused \ {next[m]}
    /\ pc' = [pc EXCEPT ![m] = "mark"]
    /\ UNCHANGED <<logEnd, committed, owner, next, marked, attempt, class,
                   cancelled, dlq, faults>>

\* Mutant: the comparison with MaxRetries is turned round, so the first
\* transient failure is dead-lettered.
GivesUpEarly(m, outcome) == outcome = "permanent" \/ attempt[m] <= MaxRetries

\* Mutant: off by one, a message gets one retry too many.
GivesUpLate(m, outcome) == outcome = "permanent" \/ attempt[m] > MaxRetries

GivesUp(m, outcome) == outcome = "permanent" \/ attempt[m] >= MaxRetries

\* Mutant: a permanent failure is returned as an error instead of being
\* dead-lettered, so the partition reads the same message for ever.
PermanentReturns(m) ==
    /\ pc[m] = "process"
    /\ \E outcome \in Failures :
          LET dead == GivesUp(m, outcome) /\ ~cancelled[m] /\ outcome # "permanent" IN
          /\ pc' = [pc EXCEPT ![m] = IF dead THEN "deadletter"
                                     ELSE IF GivesUp(m, outcome) THEN "closing" ELSE "backoff"]
          /\ class' = [class EXCEPT ![m] = IF dead THEN outcome ELSE "none"]
    /\ UNCHANGED <<logEnd, committed, owner, next, marked, attempt, cancelled,
                   done, dlq, refused, faults>>

\* Any attempt may fail, with either class whatever the attempts before it
\* answered; an unknown outcome counts as permanent.  A message that is given
\* up is dead-lettered unless the context is cancelled by now.
ProcessFailure(m) ==
    /\ pc[m] = "process"
    /\ \E outcome \in Failures :
          LET dead == GivesUp(m, outcome) /\ ~cancelled[m] IN
          /\ pc' = [pc EXCEPT ![m] = IF dead THEN "deadletter"
                                     ELSE IF GivesUp(m, outcome) THEN "closing" ELSE "backoff"]
          /\ class' = [class EXCEPT ![m] = IF dead THEN outcome ELSE "none"]
    /\ UNCHANGED <<logEnd, committed, owner, next, marked, attempt, cancelled,
                   done, dlq, refused, faults>>

\* The backoff timer fires.
Retry(m) ==
    /\ pc[m] = "backoff"
    /\ attempt' = [attempt EXCEPT ![m] = @ + 1]
    /\ pc' = [pc EXCEPT ![m] = "process"]
    /\ UNCHANGED <<logEnd, committed, owner, next, marked, class, cancelled,
                   done, dlq, refused, faults>>

\* The letter's headers; how often a permanent failure was retried before is
\* left out.
DeadLetter(m) ==
    [offset |-> next[m], class |-> class[m],
     retries |-> IF class[m] = "permanent" THEN 0 ELSE attempt[m]]

PublishDeadLetter(m) ==
    /\ pc[m] = "deadletter"
    /\ dlq' = dlq \cup {DeadLetter(m)}
    /\ refused' = refused \ {next[m]}
    /\ pc' = [pc EXCEPT ![m] = "mark"]
    /\ UNCHANGED <<logEnd, committed, owner, next, marked, attempt, class,
                   cancelled, done, faults>>

\* Mutant: the publication error is logged and swallowed, so the offset is
\* marked although no dead letter exists.
DeadLetterErrorSwallowed(m) ==
    /\ pc[m] = "deadletter"
    /\ pc' = [pc EXCEPT ![m] = "mark"]
    /\ UNCHANGED dlq
    /\ refused' = refused \cup {next[m]}
    /\ UNCHANGED <<logEnd, committed, owner, next, marked, attempt, class,
                   cancelled, done, faults>>

\* Publishing fails: the broker may have stored the dead letter all the same.
\* The error ends ConsumeClaim.
PublishDeadLetterFails(m) ==
    /\ pc[m] = "deadletter"
    /\ \/ dlq' = dlq \cup {DeadLetter(m)}
       \/ UNCHANGED dlq
    /\ refused' = refused \cup {next[m]}
    /\ pc' = [pc EXCEPT ![m] = "closing"]
    /\ UNCHANGED <<logEnd, committed, owner, next, marked, attempt, class,
                   cancelled, done, faults>>

\* processWithRetry has returned: session.MarkMessage, and on to the next
\* message.
Mark(m) ==
    /\ pc[m] = "mark"
    /\ marked' = [marked EXCEPT ![m] = next[m] + 1]
    /\ next' = [next EXCEPT ![m] = next[m] + 1]
    /\ attempt' = [attempt EXCEPT ![m] = 0]
    /\ class' = [class EXCEPT ![m] = "none"]
    /\ pc' = [pc EXCEPT ![m] = "fetch"]
    /\ UNCHANGED <<logEnd, committed, owner, cancelled, done, dlq, refused, faults>>

ProcessWithRetry(m) ==
    \/ StopOnCancel(m)
    \/ ProcessSuccess(m)
    \/ ProcessFailure(m)
    \/ Retry(m)
    \/ PublishDeadLetter(m)
    \/ PublishDeadLetterFails(m)

ConsumeClaim(m) == Fetch(m) \/ ProcessWithRetry(m) \/ Mark(m)

Broker(m) == Assign(m) \/ AutoCommit(m) \/ EndSession(m)

Fault(m) == Revoke(m) \/ CancelContext(m) \/ Crash(m)

Next ==
    \/ Produce
    \/ \E m \in Members : ConsumeClaim(m) \/ Broker(m) \/ Fault(m)

Spec == Init /\ [][Next]_vars

(***************************************************************************)
(* Fairness.  A running process takes its next step; sarama commits and    *)
(* rejoins; a cancelled context is noticed.  The dead-letter topic is      *)
(* reachable infinitely often (strong fairness of PublishDeadLetter): the  *)
(* code retries it by ending the session and reading the message again.    *)
(* Success of the processor needs no assumption: retries are bounded.      *)
(***************************************************************************)
Fairness ==
    /\ \A m \in Members :
          /\ WF_vars(Fetch(m) \/ StopOnCancel(m) \/ ProcessSuccess(m) \/ ProcessFailure(m)
                        \/ Retry(m) \/ Mark(m) \/ EndSession(m))
          /\ SF_vars(PublishDeadLetter(m))
          /\ WF_vars(AutoCommit(m))
          /\ WF_vars(owner # m /\ CancelContext(m))
    /\ WF_vars(\E m \in Members : Assign(m))

FairSpec == Spec /\ Fairness

-----------------------------------------------------------------------------
(* Properties.                                                             *)

\* The group reads from a known place: it has committed before, or it falls
\* back to the oldest message.
SafeStart == EverCommitted \/ InitialOffset = "oldest"

\* Every offset the group has committed past was processed successfully or
\* written to the dead-letter queue: ConsumeClaim marks a message only after
\* processWithRetry returned nil, so no crash, revocation, zombie or failed
\* dead letter makes the group skip a message.
CommittedHandled == \A o \in Offsets : o < committed => Handled(o)

\* A session works on an offset only when every earlier one has been handled,
\* by this session or by an earlier one: partition order survives retries,
\* dead-letter failures and rebalances.
PartitionOrder ==
    \A m \in Members :
        pc[m] \notin {"idle", "closing"} =>
            \A o \in Offsets : o < next[m] => Handled(o)

\* processWithRetry gives a message up only on a permanent failure or when all
\* MaxRetries retries are used.
DeadLetterJustified ==
    \A d \in dlq : d.class = "permanent" \/ d.retries = MaxRetries

\* The inductive invariant behind the safety properties: what a session has
\* passed or marked is handled, and its locals fit the step it is at.
Working == {"process", "backoff", "deadletter", "mark"}

SessionInv(m) ==
    /\ pc[m] # "idle" => \A o \in Offsets : o < next[m] => Handled(o)
    /\ \A o \in Offsets : o < marked[m] => Handled(o)
    /\ pc[m] \in Working => next[m] <= logEnd
    /\ pc[m] = "mark" => Handled(next[m])
    /\ pc[m] = "backoff" => attempt[m] < MaxRetries
    /\ pc[m] = "deadletter" => class[m] # "none" /\ GivesUp(m, class[m])

IInv ==
    /\ TypeOK
    /\ EverCommitted => committed # 0
    /\ CommittedHandled
    /\ DeadLetterJustified
    /\ \A m \in Members : SessionInv(m)

\* A failed dead-letter write blocks the partition: no offset above it is
\* committed before the message is handled.
DLQFailureBlocks == \A o \in refused : o < committed => Handled(o)

\* The consumer makes progress past every message, poison ones included: again
\* and again all that was produced is committed.
EventuallyCommitted == []<>(committed > logEnd)

=============================================================================
