------------------------- MODULE InboxOutboxProofs -------------------------
(***************************************************************************)
(* Proofs about the inbox, the outbox and the relay, for every set of      *)
(* operations, workers and relays and every choice of leases, backoffs and *)
(* retention.  IInv is inductive; the invariants, the action property and  *)
(* the refinement of ExactlyOnce follow from it.                           *)
(***************************************************************************)
EXTENDS InboxOutbox, TLAPS

USE DEF dbInbox, dbOutbox, relay

\* Retention is forced beyond the replay window, and ages saturate above it.
LEMMA RetentionFacts ==
    /\ EffectiveRetention \in Nat
    /\ EffectiveRetention > ReplayWindow
    /\ MaxAge \in Nat
    /\ MaxAge > ReplayWindow
BY TimeAssumption DEF EffectiveRetention, MaxAge

\* Relay.backoff never exceeds MaxBackoff.
LEMMA BackoffBounded ==
    ASSUME NEW n
    PROVE  Backoff(n) \in 0..MaxBackoff
BY TimeAssumption DEF Backoff

\* The two clocks used in the state stay in their ranges.
LEMMA ClockTypes ==
    ASSUME NEW max \in Nat, NEW t \in 0..max
    PROVE  /\ Older(t, max) \in 0..max
           /\ Less(t) \in 0..max
           /\ Older(t, max) >= t
BY DEF Older, Less

\* The initial state satisfies the inductive invariant.
LEMMA InitIInv == Init => IInv
<1> SUFFICES ASSUME Init PROVE IInv
  OBVIOUS
<1>1. TypeOK
  BY PipelineAssumption, TimeAssumption, RetentionFacts DEF Init, TypeOK, Statuses
<1>2. InboxInv
  <2> SUFFICES ASSUME NEW op \in Ops
               PROVE  /\ effects[op] \in {0, 1} /\ ~Executed(op)
                      /\ inbox[op] = "absent" /\ op \notin acked
    BY DEF InboxInv
  <2>1. effects[op] = 0 /\ inbox[op] = "absent" /\ acked = {}
    BY DEF Init
  <2> QED
    BY <2>1 DEF Executed
<1>3. TransactionInv /\ OutboxInv /\ RelayInv
  BY DEF Init, TransactionInv, OutboxInv, RelayInv
<1>4. NoEventLost
  BY PipelineAssumption DEF Init, NoEventLost
<1> QED
  BY <1>1, <1>2, <1>3, <1>4 DEF IInv

-----------------------------------------------------------------------------
(* One lemma per group of actions, one step per part of the invariant.      *)

\* Once a transaction has committed, its events stay events of a committed
\* operation.
LEMMA FromExecutedStable ==
    ASSUME \A op \in Ops : Executed(op) => Executed(op)', NEW e, FromExecuted(e)
    PROVE  FromExecuted(e)'
BY DEF FromExecuted

\* Opening a transaction keeps the invariant: an operation whose inbox row retention
\* removed is no longer delivered.
LEMMA BeginIInv ==
    ASSUME IInv, NEW w \in Workers, NEW op \in Ops, Begin(w, op)
    PROVE  IInv'
<1> USE PipelineAssumption, TimeAssumption, RetentionFacts
<1>a. TypeOK /\ InboxInv /\ TransactionInv /\ OutboxInv /\ RelayInv /\ NoEventLost
  BY DEF IInv
<1>b. \A o \in Ops : Executed(o)' <=> Executed(o)
  BY DEF Begin, Executed
<1>c. \A x : FromExecuted(x)' <=> FromExecuted(x)
  BY <1>b DEF FromExecuted
<1>1. TypeOK'
  BY <1>a DEF Begin, Deliverable, KeyFree, TypeOK, Statuses, RelayInv
<1>2. InboxInv'
  BY <1>a, <1>b DEF Begin, Deliverable, KeyFree, InboxInv, TypeOK
<1>3. TransactionInv'
  <2>1. ~Executed(op)
    <3>1. effects[op] \in Nat /\ inboxAge[op] \in Nat
      BY <1>a DEF TypeOK
    <3>2. Executed(op) => inboxAge[op] > ReplayWindow /\ effects[op] > 0
      BY <1>a, <3>1 DEF Begin, InboxInv, Executed
    <3> QED
      BY <3>1, <3>2 DEF Begin, Deliverable
  <2>2. op \in topic /\ op # None
    BY DEF Begin, Deliverable
  <2> QED
    BY <1>a, <1>b, <2>1, <2>2 DEF Begin, KeyFree, TransactionInv, TypeOK
<1>4. OutboxInv'
  BY <1>a, <1>c DEF Begin, Deliverable, KeyFree, OutboxInv, RelayInv, TypeOK
<1>5. RelayInv'
  BY <1>a, <1>c DEF Begin, Deliverable, KeyFree, OutboxInv, RelayInv, TypeOK
<1>6. NoEventLost'
  BY <1>a DEF Begin, Deliverable, KeyFree, NoEventLost, OutboxInv, RelayInv, TypeOK
<1> QED
  BY <1>1, <1>2, <1>3, <1>4, <1>5, <1>6 DEF IInv

\* Replaying a completed operation keeps the invariant.
LEMMA ReplayIInv ==
    ASSUME IInv, NEW w \in Workers, NEW op \in Ops, Replay(w, op)
    PROVE  IInv'
<1> USE PipelineAssumption, TimeAssumption, RetentionFacts
<1>a. TypeOK /\ InboxInv /\ TransactionInv /\ OutboxInv /\ RelayInv /\ NoEventLost
  BY DEF IInv
<1>b. \A o \in Ops : Executed(o)' <=> Executed(o)
  BY DEF Replay, Executed
<1>c. \A x : FromExecuted(x)' <=> FromExecuted(x)
  BY <1>b DEF FromExecuted
<1>1. TypeOK'
  BY <1>a DEF Replay, Deliverable, TypeOK, Statuses, RelayInv
<1>2. InboxInv'
  BY <1>a, <1>b DEF Replay, Deliverable, InboxInv, TypeOK
<1>3. TransactionInv'
  BY <1>a, <1>b DEF Replay, Deliverable, TransactionInv, InboxInv, TypeOK
<1>4. OutboxInv'
  BY <1>a, <1>c DEF Replay, Deliverable, OutboxInv, RelayInv, TypeOK
<1>5. RelayInv'
  BY <1>a, <1>c DEF Replay, Deliverable, OutboxInv, RelayInv, TypeOK
<1>6. NoEventLost'
  BY <1>a DEF Replay, Deliverable, NoEventLost, OutboxInv, RelayInv, TypeOK
<1> QED
  BY <1>1, <1>2, <1>3, <1>4, <1>5, <1>6 DEF IInv

\* Rolling back keeps the invariant.
LEMMA RollbackIInv ==
    ASSUME IInv, NEW w \in Workers, Rollback(w)
    PROVE  IInv'
<1> USE PipelineAssumption, TimeAssumption, RetentionFacts
<1>a. TypeOK /\ InboxInv /\ TransactionInv /\ OutboxInv /\ RelayInv /\ NoEventLost
  BY DEF IInv
<1>b. \A o \in Ops : Executed(o)' <=> Executed(o)
  BY DEF Rollback, Executed
<1>c. \A x : FromExecuted(x)' <=> FromExecuted(x)
  BY <1>b DEF FromExecuted
<1>1. TypeOK'
  BY <1>a DEF Rollback, TypeOK, Statuses, RelayInv
<1>2. InboxInv'
  BY <1>a, <1>b DEF Rollback, InboxInv, TypeOK
<1>3. TransactionInv'
  BY <1>a, <1>b DEF Rollback, TransactionInv, InboxInv, TypeOK
<1>4. OutboxInv'
  BY <1>a, <1>c DEF Rollback, OutboxInv, RelayInv, TypeOK
<1>5. RelayInv'
  BY <1>a, <1>c DEF Rollback, OutboxInv, RelayInv, TypeOK
<1>6. NoEventLost'
  BY <1>a DEF Rollback, NoEventLost, OutboxInv, RelayInv, TypeOK
<1> QED
  BY <1>1, <1>2, <1>3, <1>4, <1>5, <1>6 DEF IInv

\* Selecting a due row keeps the invariant.
LEMMA ClaimSelectIInv ==
    ASSUME IInv, NEW r \in Relays, NEW e \in Ops, ClaimSelect(r, e)
    PROVE  IInv'
<1> USE PipelineAssumption, TimeAssumption, RetentionFacts
<1>a. TypeOK /\ InboxInv /\ TransactionInv /\ OutboxInv /\ RelayInv /\ NoEventLost
  BY DEF IInv
<1>b. \A o \in Ops : Executed(o)' <=> Executed(o)
  BY DEF ClaimSelect, Executed
<1>c. \A x : FromExecuted(x)' <=> FromExecuted(x)
  BY <1>b DEF FromExecuted
<1>1. TypeOK'
  BY <1>a DEF ClaimSelect, Due, TypeOK, Statuses, RelayInv
<1>2. InboxInv'
  BY <1>a, <1>b DEF ClaimSelect, Due, InboxInv, TypeOK
<1>3. TransactionInv'
  BY <1>a, <1>b DEF ClaimSelect, Due, TransactionInv, InboxInv, TypeOK
<1>4. OutboxInv'
  BY <1>a, <1>c DEF ClaimSelect, Due, OutboxInv, RelayInv, TypeOK
<1>5. RelayInv'
  BY <1>a, <1>c DEF ClaimSelect, Due, OutboxInv, RelayInv, TypeOK
<1>6. NoEventLost'
  BY <1>a DEF ClaimSelect, Due, NoEventLost, OutboxInv, RelayInv, TypeOK
<1> QED
  BY <1>1, <1>2, <1>3, <1>4, <1>5, <1>6 DEF IInv

\* Claiming a row keeps the invariant.
LEMMA ClaimCommitIInv ==
    ASSUME IInv, NEW r \in Relays, ClaimCommit(r)
    PROVE  IInv'
<1> USE PipelineAssumption, TimeAssumption, RetentionFacts
<1>a. TypeOK /\ InboxInv /\ TransactionInv /\ OutboxInv /\ RelayInv /\ NoEventLost
  BY DEF IInv
<1>b. \A o \in Ops : Executed(o)' <=> Executed(o)
  BY DEF ClaimCommit, Executed
<1>c. \A x : FromExecuted(x)' <=> FromExecuted(x)
  BY <1>b DEF FromExecuted
<1>1. TypeOK'
  <2>1. rev[r] \in Ops
    BY <1>a DEF ClaimCommit, RelayInv
  <2>2. attempt[rev[r]] \in 0..MaxAttempt
    BY <1>a, <2>1 DEF TypeOK
  <2>3. Older(attempt[rev[r]], MaxAttempt) \in 0..MaxAttempt
    BY <2>2 DEF Older
  <2>4. attempt' \in [Ops -> 0..MaxAttempt]
    BY <1>a, <2>1, <2>3 DEF ClaimCommit, TypeOK
  <2> QED
    BY <1>a, <2>1, <2>4 DEF ClaimCommit, TypeOK, Statuses
<1>2. InboxInv'
  BY <1>a, <1>b, ClockTypes, BackoffBounded DEF ClaimCommit, InboxInv, TypeOK
<1>3. TransactionInv'
  BY <1>a, <1>b DEF ClaimCommit, TransactionInv, InboxInv, TypeOK
<1>4. OutboxInv'
  BY <1>a, <1>c DEF ClaimCommit, OutboxInv, RelayInv, TypeOK
<1>5. RelayInv'
  BY <1>a, <1>c DEF ClaimCommit, OutboxInv, RelayInv, TypeOK
<1>6. NoEventLost'
  BY <1>a DEF ClaimCommit, NoEventLost, OutboxInv, RelayInv, TypeOK
<1> QED
  BY <1>1, <1>2, <1>3, <1>4, <1>5, <1>6 DEF IInv

\* A successful publication keeps the invariant.
LEMMA PublishOkIInv ==
    ASSUME IInv, NEW r \in Relays, PublishOk(r)
    PROVE  IInv'
<1> USE PipelineAssumption, TimeAssumption, RetentionFacts
<1>a. TypeOK /\ InboxInv /\ TransactionInv /\ OutboxInv /\ RelayInv /\ NoEventLost
  BY DEF IInv
<1>b. \A o \in Ops : Executed(o)' <=> Executed(o)
  BY DEF PublishOk, Executed
<1>c. \A x : FromExecuted(x)' <=> FromExecuted(x)
  BY <1>b DEF FromExecuted
<1>1. TypeOK'
  BY <1>a DEF PublishOk, TypeOK, Statuses, RelayInv
<1>2. InboxInv'
  BY <1>a, <1>b DEF PublishOk, InboxInv, TypeOK
<1>3. TransactionInv'
  BY <1>a, <1>b DEF PublishOk, TransactionInv, InboxInv, TypeOK
<1>4. OutboxInv'
  BY <1>a, <1>c DEF PublishOk, OutboxInv, RelayInv, TypeOK
<1>5. RelayInv'
  BY <1>a, <1>c DEF PublishOk, OutboxInv, RelayInv, TypeOK
<1>6. NoEventLost'
  BY <1>a DEF PublishOk, NoEventLost, OutboxInv, RelayInv, TypeOK
<1> QED
  BY <1>1, <1>2, <1>3, <1>4, <1>5, <1>6 DEF IInv

\* A failed publication keeps the invariant.
LEMMA PublishErrorIInv ==
    ASSUME IInv, NEW r \in Relays, PublishError(r)
    PROVE  IInv'
<1> USE PipelineAssumption, TimeAssumption, RetentionFacts
<1>a. TypeOK /\ InboxInv /\ TransactionInv /\ OutboxInv /\ RelayInv /\ NoEventLost
  BY DEF IInv
<1>b. \A o \in Ops : Executed(o)' <=> Executed(o)
  BY DEF PublishError, Executed
<1>c. \A x : FromExecuted(x)' <=> FromExecuted(x)
  BY <1>b DEF FromExecuted
<1>1. TypeOK'
  BY <1>a DEF PublishError, TypeOK, Statuses, RelayInv
<1>2. InboxInv'
  BY <1>a, <1>b DEF PublishError, InboxInv, TypeOK
<1>3. TransactionInv'
  BY <1>a, <1>b DEF PublishError, TransactionInv, InboxInv, TypeOK
<1>4. OutboxInv'
  BY <1>a, <1>c DEF PublishError, OutboxInv, RelayInv, TypeOK
<1>5. RelayInv'
  BY <1>a, <1>c DEF PublishError, OutboxInv, RelayInv, TypeOK
<1>6. NoEventLost'
  BY <1>a DEF PublishError, NoEventLost, OutboxInv, RelayInv, TypeOK
<1> QED
  BY <1>1, <1>2, <1>3, <1>4, <1>5, <1>6 DEF IInv

\* markPublished keeps the invariant: only a record Kafka has is marked, and a row
\* being claimed is not touched.
LEMMA MarkPublishedIInv ==
    ASSUME IInv, NEW r \in Relays, MarkPublished(r)
    PROVE  IInv'
<1> USE PipelineAssumption, TimeAssumption, RetentionFacts
<1>a. TypeOK /\ InboxInv /\ TransactionInv /\ OutboxInv /\ RelayInv /\ NoEventLost
  BY DEF IInv
<1>b. \A o \in Ops : Executed(o)' <=> Executed(o)
  BY DEF MarkPublished, Executed
<1>c. \A x : FromExecuted(x)' <=> FromExecuted(x)
  BY <1>b DEF FromExecuted
<1>1. TypeOK'
  BY SMTT(60), <1>a DEF MarkPublished, Holds, Locked, TypeOK, Statuses, RelayInv
<1>2. InboxInv'
  BY <1>a, <1>b DEF MarkPublished, Holds, Locked, InboxInv, TypeOK
<1>3. TransactionInv'
  BY <1>a, <1>b DEF MarkPublished, Holds, Locked, TransactionInv, InboxInv, TypeOK
<1>4. OutboxInv'
  BY <1>a, <1>c DEF MarkPublished, Holds, Locked, OutboxInv, RelayInv, TypeOK
<1>5. RelayInv'
  BY <1>a, <1>c DEF MarkPublished, Holds, Locked, OutboxInv, RelayInv, TypeOK
<1>6. NoEventLost'
  BY <1>a DEF MarkPublished, Holds, Locked, NoEventLost, OutboxInv, RelayInv, TypeOK
<1> QED
  BY <1>1, <1>2, <1>3, <1>4, <1>5, <1>6 DEF IInv

\* markFailure keeps the invariant.
LEMMA MarkFailureIInv ==
    ASSUME IInv, NEW r \in Relays, MarkFailure(r)
    PROVE  IInv'
<1> USE PipelineAssumption, TimeAssumption, RetentionFacts
<1>a. TypeOK /\ InboxInv /\ TransactionInv /\ OutboxInv /\ RelayInv /\ NoEventLost
  BY DEF IInv
<1>b. \A o \in Ops : Executed(o)' <=> Executed(o)
  BY DEF MarkFailure, Executed
<1>c. \A x : FromExecuted(x)' <=> FromExecuted(x)
  BY <1>b DEF FromExecuted
<1>1. TypeOK'
  <2>1. rev[r] \in Ops
    BY <1>a DEF MarkFailure, RelayInv
  <2>2. Backoff(attempt[rev[r]]) \in 0..MaxBackoff
    BY BackoffBounded
  <2>3. wait' \in [Ops -> 0..MaxBackoff]
    BY <1>a, <2>1, <2>2 DEF MarkFailure, TypeOK
  <2> QED
    BY <1>a, <2>1, <2>3 DEF MarkFailure, TypeOK, Statuses
<1>2. InboxInv'
  BY <1>a, <1>b, ClockTypes, BackoffBounded DEF MarkFailure, Holds, Locked, InboxInv, TypeOK
<1>3. TransactionInv'
  BY <1>a, <1>b DEF MarkFailure, Holds, Locked, TransactionInv, InboxInv, TypeOK
<1>4. OutboxInv'
  BY <1>a, <1>c DEF MarkFailure, Holds, Locked, OutboxInv, RelayInv, TypeOK
<1>5. RelayInv'
  BY <1>a, <1>c DEF MarkFailure, Holds, Locked, OutboxInv, RelayInv, TypeOK
<1>6. NoEventLost'
  BY <1>a DEF MarkFailure, Holds, Locked, NoEventLost, OutboxInv, RelayInv, TypeOK
<1> QED
  BY <1>1, <1>2, <1>3, <1>4, <1>5, <1>6 DEF IInv

\* A relay crash keeps the invariant.
LEMMA RelayCrashIInv ==
    ASSUME IInv, NEW r \in Relays, RelayCrash(r)
    PROVE  IInv'
<1> USE PipelineAssumption, TimeAssumption, RetentionFacts
<1>a. TypeOK /\ InboxInv /\ TransactionInv /\ OutboxInv /\ RelayInv /\ NoEventLost
  BY DEF IInv
<1>b. \A o \in Ops : Executed(o)' <=> Executed(o)
  BY DEF RelayCrash, Executed
<1>c. \A x : FromExecuted(x)' <=> FromExecuted(x)
  BY <1>b DEF FromExecuted
<1>1. TypeOK'
  BY <1>a DEF RelayCrash, TypeOK, Statuses, RelayInv
<1>2. InboxInv'
  BY <1>a, <1>b DEF RelayCrash, InboxInv, TypeOK
<1>3. TransactionInv'
  BY <1>a, <1>b DEF RelayCrash, TransactionInv, InboxInv, TypeOK
<1>4. OutboxInv'
  BY <1>a, <1>c DEF RelayCrash, OutboxInv, RelayInv, TypeOK
<1>5. RelayInv'
  BY <1>a, <1>c DEF RelayCrash, OutboxInv, RelayInv, TypeOK
<1>6. NoEventLost'
  BY <1>a DEF RelayCrash, NoEventLost, OutboxInv, RelayInv, TypeOK
<1> QED
  BY <1>1, <1>2, <1>3, <1>4, <1>5, <1>6 DEF IInv

\* Retention keeps the invariant: it removes published rows, and inbox rows that are
\* older than any replay.
LEMMA CleanupIInv ==
    ASSUME IInv, Cleanup
    PROVE  IInv'
<1> USE PipelineAssumption, TimeAssumption, RetentionFacts
<1>a. TypeOK /\ InboxInv /\ TransactionInv /\ OutboxInv /\ RelayInv /\ NoEventLost
  BY DEF IInv
<1>b. \A o \in Ops : Executed(o)' <=> Executed(o)
  BY DEF Cleanup, Executed
<1>c. \A x : FromExecuted(x)' <=> FromExecuted(x)
  BY <1>b DEF FromExecuted
<1>1. TypeOK'
  BY <1>a DEF Cleanup, ExpiredInbox, ExpiredOutbox, TypeOK, Statuses, RelayInv
<1>2. InboxInv'
  BY <1>a, <1>b DEF Cleanup, ExpiredInbox, ExpiredOutbox, InboxInv, TypeOK
<1>3. TransactionInv'
  BY <1>a, <1>b DEF Cleanup, ExpiredInbox, ExpiredOutbox, TransactionInv, InboxInv, TypeOK
<1>4. OutboxInv'
  BY <1>a, <1>c DEF Cleanup, ExpiredInbox, ExpiredOutbox, OutboxInv, RelayInv, TypeOK
<1>5. RelayInv'
  BY <1>a, <1>c DEF Cleanup, ExpiredInbox, ExpiredOutbox, OutboxInv, RelayInv, TypeOK
<1>6. NoEventLost'
  BY <1>a DEF Cleanup, ExpiredInbox, ExpiredOutbox, NoEventLost, OutboxInv, RelayInv, TypeOK
<1> QED
  BY <1>1, <1>2, <1>3, <1>4, <1>5, <1>6 DEF IInv

\* The passage of time keeps the invariant: ages never shrink.
LEMMA TickIInv ==
    ASSUME IInv, Tick
    PROVE  IInv'
<1> USE PipelineAssumption, TimeAssumption, RetentionFacts
<1>a. TypeOK /\ InboxInv /\ TransactionInv /\ OutboxInv /\ RelayInv /\ NoEventLost
  BY DEF IInv
<1>b. \A o \in Ops : Executed(o)' <=> Executed(o)
  BY DEF Tick, Executed
<1>c. \A x : FromExecuted(x)' <=> FromExecuted(x)
  BY <1>b DEF FromExecuted
<1>1. TypeOK'
  BY <1>a, ClockTypes DEF Tick, TypeOK, Statuses, RelayInv
<1>2. InboxInv'
  <2>1. \A op \in Ops : inboxAge[op] \in 0..MaxAge
    BY <1>a DEF TypeOK
  <2>2. \A op \in Ops : inboxAge[op] > ReplayWindow
                            => Older(inboxAge[op], MaxAge) > ReplayWindow
    BY <2>1 DEF Older
  <2>3. \A op \in Ops : inboxAge'[op] \in
                            {inboxAge[op], Older(inboxAge[op], MaxAge)}
    BY DEF Tick
  <2> QED
    BY <1>a, <1>b, <2>2, <2>3 DEF Tick, InboxInv
<1>3. TransactionInv'
  BY <1>a, <1>b DEF Tick, TransactionInv, InboxInv, TypeOK
<1>4. OutboxInv'
  BY <1>a, <1>c DEF Tick, OutboxInv, RelayInv, TypeOK
<1>5. RelayInv'
  BY <1>a, <1>c DEF Tick, OutboxInv, RelayInv, TypeOK
<1>6. NoEventLost'
  BY <1>a DEF Tick, NoEventLost, OutboxInv, RelayInv, TypeOK
<1> QED
  BY <1>1, <1>2, <1>3, <1>4, <1>5, <1>6 DEF IInv

\* What a commit does to the counts of executions: the operation, which had
\* not been executed, now has been, and no other one changes.
LEMMA CommitExecutes ==
    ASSUME IInv, NEW w \in Workers, Commit(w)
    PROVE  /\ wop[w] \in Ops /\ wop[w] \in topic
           /\ effects[wop[w]] = 0
           /\ effects' = [effects EXCEPT ![wop[w]] = 1]
           /\ \A o \in Ops : Executed(o)' <=> Executed(o) \/ o = wop[w]
<1>1. wop[w] \in Ops /\ wop[w] \in topic /\ ~Executed(wop[w])
  BY DEF IInv, TypeOK, TransactionInv, Commit
<1>2. effects[wop[w]] = 0
  BY <1>1 DEF IInv, InboxInv, Executed
<1>3. effects' = [effects EXCEPT ![wop[w]] = 1]
  BY <1>2 DEF Commit, CompleteInbox
<1>4. \A o \in Ops : Executed(o)' <=> Executed(o) \/ o = wop[w]
  <2> SUFFICES ASSUME NEW o \in Ops
               PROVE  Executed(o)' <=> Executed(o) \/ o = wop[w]
    OBVIOUS
  <2>1. effects'[o] = IF o = wop[w] THEN 1 ELSE effects[o]
    BY <1>3 DEF IInv, TypeOK
  <2> QED
    BY <2>1 DEF Executed
<1> QED
  BY <1>1, <1>2, <1>3, <1>4

\* A commit keeps the invariant: it writes the effect, the events and the
\* completed inbox row together.
LEMMA CommitIInv ==
    ASSUME IInv, NEW w \in Workers, Commit(w)
    PROVE  IInv'
<1> DEFINE op == wop[w]
<1> USE PipelineAssumption, TimeAssumption, RetentionFacts
<1>a. TypeOK /\ InboxInv /\ TransactionInv /\ OutboxInv /\ RelayInv /\ NoEventLost
  BY DEF IInv
<1>b. /\ op \in Ops /\ op \in topic
      /\ effects' = [effects EXCEPT ![op] = 1]
      /\ \A o \in Ops : Executed(o)' <=> Executed(o) \/ o = op
  BY CommitExecutes
<1>c. \A x : FromExecuted(x) => FromExecuted(x)'
  BY <1>b, FromExecutedStable
<1>d. \A x \in Emits[op] : FromExecuted(x)'
  BY <1>b DEF FromExecuted
<1> HIDE DEF op
<1>e. /\ inbox' = [inbox EXCEPT ![op] = "completed"]
      /\ inboxAge' = [inboxAge EXCEPT ![op] = 0]
      /\ commits' = commits + 1
      /\ acked' \in {acked, acked \cup {op}}
      /\ wop' = [wop EXCEPT ![w] = None]
      /\ UNCHANGED <<rpc, rev, topic, token, lease, outboxAge>>
  BY DEF Commit, CompleteInbox, WriteOutbox, op
<1>f. /\ \A x \in Emits[op] : status[x] = "none"
      /\ status'  = [x \in Ops |-> IF x \in Emits[op] THEN "pending" ELSE status[x]]
      /\ created' = [x \in Ops |-> IF x \in Emits[op] THEN commits ELSE created[x]]
      /\ wait'    = [x \in Ops |-> IF x \in Emits[op] THEN 0 ELSE wait[x]]
      /\ attempt' = [x \in Ops |-> IF x \in Emits[op] THEN 0 ELSE attempt[x]]
  BY DEF Commit, WriteOutbox, op
<1>1. TypeOK'
  <2>1. effects' \in [Ops -> Nat] /\ inboxAge' \in [Ops -> 0..MaxAge]
    BY <1>a, <1>b, <1>e DEF TypeOK
  <2>2. wait' \in [Ops -> 0..MaxBackoff] /\ attempt' \in [Ops -> 0..MaxAttempt]
    BY <1>a, <1>f DEF TypeOK
  <2>3. created' \in [Ops -> Nat] /\ commits' \in Nat
    BY <1>a, <1>e, <1>f DEF TypeOK
  <2>4. status' \in [Ops -> Statuses]
    BY <1>a, <1>f DEF TypeOK, Statuses
  <2> QED
    BY <1>a, <1>b, <1>e, <2>1, <2>2, <2>3, <2>4 DEF TypeOK
<1>2. InboxInv'
  <2> SUFFICES ASSUME NEW o \in Ops
               PROVE  (/\ effects[o] \in {0, 1}
                       /\ inbox[o] = "completed" => Executed(o)
                       /\ Executed(o) /\ inbox[o] = "absent"
                             => inboxAge[o] > ReplayWindow
                       /\ Executed(o) => o \in topic
                       /\ o \in acked => Executed(o))'
    BY DEF InboxInv
  <2>1. CASE o = op
    <3>1. effects'[o] = 1 /\ inbox'[o] = "completed"
      BY <1>a, <1>b, <1>e, <2>1 DEF TypeOK
    <3> QED
      BY <3>1, <1>b, <1>e, <2>1 DEF Executed
  <2>2. CASE o # op
    <3>1. /\ effects'[o] = effects[o] /\ inbox'[o] = inbox[o]
          /\ inboxAge'[o] = inboxAge[o] /\ topic' = topic
          /\ o \in acked' <=> o \in acked
          /\ Executed(o)' <=> Executed(o)
      BY <1>a, <1>b, <1>e, <2>2 DEF TypeOK
    <3> QED
      BY <3>1, <1>a DEF InboxInv
  <2> QED
    BY <2>1, <2>2
<1>3. TransactionInv'
  <2>1. \A v \in Workers : wop'[v] = IF v = w THEN None ELSE wop[v]
    BY <1>a, <1>e DEF TypeOK
  <2>2. \A v \in Workers : v # w => wop[v] # op
    BY <1>a, <1>b DEF TransactionInv, op
  <2>3. \A v \in Workers : wop[v] \in Ops \cup {None}
    BY <1>a DEF TypeOK
  <2> QED
    BY <1>a, <1>b, <1>e, <2>1, <2>2, <2>3 DEF TransactionInv
<1>4. OutboxInv'
  BY <1>a, <1>c, <1>d, <1>e, <1>f DEF OutboxInv
<1>5. RelayInv'
  <2> SUFFICES ASSUME NEW r \in Relays, rpc[r] # "idle"
               PROVE  (/\ rev[r] \in Ops
                       /\ FromExecuted(rev[r])
                       /\ rpc[r] = "claiming" =>
                            status[rev[r]] \in {"pending", "retryable", "claimed"}
                       /\ rpc[r] = "published" => rev[r] \in topic)'
    BY <1>e DEF RelayInv
  <2>1. rev[r] \in Ops /\ FromExecuted(rev[r])
    BY <1>a DEF RelayInv
  <2>2. FromExecuted(rev[r])'
    BY <1>e, <2>1, FromExecutedStable, <1>b
  <2>3. rpc[r] = "claiming" => status'[rev[r]] \in {"pending", "retryable", "claimed"}
    BY <1>a, <1>f, <2>1 DEF RelayInv
  <2> QED
    BY <1>a, <1>e, <2>1, <2>2, <2>3 DEF RelayInv
<1>6. NoEventLost'
  <2> SUFFICES ASSUME NEW o \in Ops, NEW x \in Emits[o], effects'[o] > 0
               PROVE  \/ x \in topic'
                      \/ status'[x] \in {"pending", "claimed", "retryable"}
    BY DEF NoEventLost
  <2>1. x \in Ops
    OBVIOUS
  <2>2. CASE o = op
    BY <1>f, <2>1, <2>2
  <2>3. CASE o # op
    <3>1. effects'[o] = effects[o]
      BY <1>a, <1>b, <2>3 DEF TypeOK
    <3>2. x \in topic \/ status[x] \in {"pending", "claimed", "retryable"}
      BY <3>1, <1>a DEF NoEventLost
    <3> QED
      BY <3>2, <1>e, <1>f, <2>1
  <2> QED
    BY <2>2, <2>3
<1> QED
  BY <1>1, <1>2, <1>3, <1>4, <1>5, <1>6 DEF IInv

\* Steps that change none of the variables keep the invariant.
LEMMA StutterIInv ==
    ASSUME IInv, UNCHANGED vars
    PROVE  IInv'
BY DEF vars, IInv, TypeOK, InboxInv, TransactionInv, OutboxInv, RelayInv,
       NoEventLost, Executed, FromExecuted

\* The invariant is inductive: every action keeps it.
LEMMA StepIInv ==
    ASSUME IInv, [Next]_vars
    PROVE  IInv'
<1>1. CASE \E w \in Workers : Worker(w)
  BY <1>1, BeginIInv, ReplayIInv, CommitIInv, RollbackIInv DEF Worker
<1>2. CASE \E r \in Relays : RunOnce(r)
  BY <1>2, ClaimSelectIInv, ClaimCommitIInv, PublishOkIInv, PublishErrorIInv,
     MarkPublishedIInv, MarkFailureIInv, RelayCrashIInv DEF RunOnce
<1>3. CASE Cleanup
  BY <1>3, CleanupIInv
<1>4. CASE Tick
  BY <1>4, TickIInv
<1>5. CASE UNCHANGED vars
  BY <1>5, StutterIInv
<1> QED
  BY <1>1, <1>2, <1>3, <1>4, <1>5 DEF Next

\* Every state of the pipeline satisfies the inductive invariant.
LEMMA Inductive == Spec => []IInv
<1>1. Init => IInv
  BY InitIInv
<1>2. IInv /\ [Next]_vars => IInv'
  BY StepIInv
<1> QED
  BY <1>1, <1>2, PTL DEF Spec

-----------------------------------------------------------------------------
(* The theorems.                                                           *)

\* The state of the inbox, the outbox and the relays is well typed; in
\* particular the backoff, the lease and the ages stay within their limits.
THEOREM PipelineTypeCorrect == Spec => []TypeOK
<1>1. IInv => TypeOK
  BY DEF IInv
<1> QED
  BY <1>1, Inductive, PTL

\* No event of a committed operation is lost, whatever crashes between claim,
\* publication and mark, and whatever retention removes.
THEOREM EventsNeverLost == Spec => []NoEventLost
<1>1. IInv => NoEventLost
  BY DEF IInv
<1> QED
  BY <1>1, Inductive, PTL

\* The fences of markPublished and markFailure keep a published row published
\* until retention removes it.
THEOREM PublishedStaysPublished == Spec => PublishedIsFinal
<1> DEFINE Final == \A e \in Ops : status[e] = "published"
                                      => status'[e] \in {"published", "none"}
<1>1. ASSUME IInv, [Next]_vars
      PROVE  [Final]_vars
  <2> SUFFICES ASSUME NEW e \in Ops, status[e] = "published", Next
               PROVE  status'[e] \in {"published", "none"}
    BY <1>1
  <2>t. status \in [Ops -> Statuses]
    BY <1>1 DEF IInv, TypeOK
  <2>1. ASSUME NEW w \in Workers, Worker(w)
        PROVE  status'[e] \in {"published", "none"}
    BY <2>1 DEF Worker, Begin, Replay, Commit, WriteOutbox, Rollback
  <2>2. ASSUME NEW r \in Relays, RunOnce(r)
        PROVE  status'[e] \in {"published", "none"}
    <3>1. CASE ClaimCommit(r)
      <4>1. rev[r] # e
        BY <1>1, <3>1 DEF ClaimCommit, IInv, RelayInv
      <4> QED
        BY <2>t, <3>1, <4>1 DEF ClaimCommit
    <3>2. CASE MarkPublished(r) \/ MarkFailure(r)
      BY <2>t, <3>2 DEF MarkPublished, MarkFailure, Holds
    <3> QED
      BY <2>2, <3>1, <3>2 DEF RunOnce, ClaimSelect, PublishOk, PublishError,
                              RelayCrash
  <2>3. CASE Cleanup \/ Tick
    BY <2>3 DEF Cleanup, Tick
  <2> QED
    BY <2>1, <2>2, <2>3 DEF Next
<1>2. Spec => [][Final]_vars
  BY <1>1, Inductive, PTL DEF Spec
<1> QED
  BY <1>2 DEF PublishedIsFinal

-----------------------------------------------------------------------------
(* The lease.                                                              *)

\* A claim transaction has its row for itself, and has selected a claimed row
\* only after its lease.
LockInv ==
    \A r \in Relays : rpc[r] = "claiming" =>
        /\ status[rev[r]] = "claimed" => lease[rev[r]] = 0
        /\ \A s \in Relays : rpc[s] = "claiming" /\ rev[s] = rev[r] => s = r

\* Selecting a row FOR UPDATE SKIP LOCKED.
LEMMA ClaimSelectLocks ==
    ASSUME IInv, LockInv, NEW q \in Relays, NEW e \in Ops, ClaimSelect(q, e)
    PROVE  LockInv'
<1>1. rpc \in [Relays -> {"idle", "claiming", "publishing", "published", "failed"}]
      /\ rev \in [Relays -> Ops \cup {None}]
  BY DEF IInv, TypeOK
<1>2. /\ rpc'[q] = "claiming" /\ rev'[q] = e
      /\ \A r \in Relays : r # q => rpc'[r] = rpc[r] /\ rev'[r] = rev[r]
  BY <1>1 DEF ClaimSelect
<1>3. /\ status[e] = "claimed" => lease[e] = 0
      /\ \A r \in Relays : rpc[r] = "claiming" => rev[r] # e
  BY DEF ClaimSelect, Due, Locked
<1>4. status' = status /\ lease' = lease
  BY DEF ClaimSelect
<1> QED
  BY <1>2, <1>3, <1>4 DEF LockInv

\* Steps after which every claim transaction that is open was open before, on a
\* row that is not claimed anew.
LEMMA LocksKept ==
    ASSUME LockInv,
           \A r \in Relays : rpc'[r] = "claiming" =>
             /\ rpc[r] = "claiming" /\ rev'[r] = rev[r]
             /\ status'[rev[r]] = "claimed" => /\ status[rev[r]] = "claimed"
                                               /\ lease[rev[r]] = 0 => lease'[rev[r]] = 0
    PROVE  LockInv'
BY DEF LockInv

LEMMA StepLockInv ==
    ASSUME IInv, LockInv, [Next]_vars
    PROVE  LockInv'
<1>1. /\ rpc \in [Relays -> {"idle", "claiming", "publishing", "published", "failed"}]
      /\ rev \in [Relays -> Ops \cup {None}]
      /\ status \in [Ops -> Statuses] /\ lease \in [Ops -> 0 .. Lease]
      /\ \A r \in Relays : rpc[r] = "claiming" => rev[r] \in Ops
  BY DEF IInv, TypeOK, RelayInv
<1>2. ASSUME NEW w \in Workers, Worker(w) PROVE LockInv'
  <2>1. UNCHANGED <<rpc, rev, lease>>
    BY <1>2 DEF Worker, Begin, Replay, Commit, WriteOutbox, Rollback
  <2>2. \A e \in Ops : status'[e] = "claimed" => status[e] = "claimed"
    BY <1>1, <1>2 DEF Worker, Begin, Replay, Commit, WriteOutbox, Rollback
  <2> QED
    BY <1>1, <2>1, <2>2, LocksKept
<1>3. ASSUME NEW q \in Relays, ClaimCommit(q) PROVE LockInv'
  <2>1. PICK e \in Ops : e = rev[q]
    BY <1>1, <1>3 DEF ClaimCommit
  <2>2. /\ rpc[q] = "claiming" /\ rpc'[q] = "publishing" /\ rev' = rev
        /\ \A r \in Relays : r # q => rpc'[r] = rpc[r]
        /\ \A f \in Ops : f # e => status'[f] = status[f] /\ lease'[f] = lease[f]
    BY <1>1, <1>3, <2>1 DEF ClaimCommit
  <2>3. \A r \in Relays : rpc'[r] = "claiming" => rpc[r] = "claiming" /\ rev[r] # e
    BY <2>1, <2>2 DEF LockInv
  <2> QED
    BY <1>1, <2>2, <2>3, LocksKept
<1>4. ASSUME NEW q \in Relays,
             \/ PublishOk(q) \/ PublishError(q) \/ RelayCrash(q)
             \/ MarkPublished(q) \/ MarkFailure(q)
      PROVE  LockInv'
  <2>1. \A r \in Relays : rpc'[r] = "claiming" => rpc[r] = "claiming" /\ rev'[r] = rev[r]
    BY <1>1, <1>4 DEF PublishOk, PublishError, RelayCrash, MarkPublished, MarkFailure
  <2>2. CASE PublishOk(q) \/ PublishError(q) \/ RelayCrash(q)
    <3>1. status' = status /\ lease' = lease
      BY <2>2 DEF PublishOk, PublishError, RelayCrash
    <3> QED
      BY <2>1, <3>1, LocksKept
  <2>3. CASE MarkPublished(q) \/ MarkFailure(q)
    <3>1. \A e \in Ops : \/ status'[e] # "claimed"
                         \/ status'[e] = status[e] /\ lease'[e] = lease[e]
      BY <1>1, <2>3 DEF MarkPublished, MarkFailure
    <3> QED
      BY <1>1, <2>1, <3>1, LocksKept
  <2> QED
    BY <1>4, <2>2, <2>3
<1>5. CASE Cleanup \/ UNCHANGED vars
  <2>1. UNCHANGED <<rpc, rev, lease>>
    BY <1>5 DEF Cleanup, vars
  <2>2. \A e \in Ops : status'[e] = "claimed" => status[e] = "claimed"
    BY <1>1, <1>5 DEF Cleanup, vars
  <2> QED
    BY <1>1, <2>1, <2>2, LocksKept
<1>6. CASE Tick
  <2>1. UNCHANGED <<rpc, rev, status>>
    BY <1>6 DEF Tick
  <2>2. \A e \in Ops : lease[e] = 0 => lease'[e] = 0
    BY <1>6 DEF Tick, Less
  <2> QED
    BY <1>1, <2>1, <2>2, LocksKept
<1> QED
  BY <1>2, <1>3, <1>4, <1>5, <1>6, ClaimSelectLocks DEF Next, RunOnce

\* ClaimExclusive: while the lease of a claim runs, only the relay that made the
\* claim changes the row, with markPublished or markFailure.
THEOREM ClaimsExclude == Spec => ClaimExclusive
<1> DEFINE Excl == \A e \in Ops :
                     /\ status[e] = "claimed" /\ lease[e] > 0
                     /\ <<status[e], token[e]>>' # <<status[e], token[e]>>
                     => \E r \in Relays : token[e] = r /\ rev[r] = e /\ rev'[r] = None
<1>1. ASSUME IInv, LockInv, [Next]_vars
      PROVE  [Excl]_vars
  <2> SUFFICES ASSUME NEW e \in Ops, status[e] = "claimed", lease[e] > 0, Next,
                      status'[e] # status[e] \/ token'[e] # token[e]
               PROVE  \E r \in Relays : token[e] = r /\ rev[r] = e /\ rev'[r] = None
    BY <1>1
  <2>t. /\ status \in [Ops -> Statuses] /\ token \in [Ops -> Relays \cup {None}]
        /\ rev \in [Relays -> Ops \cup {None}]
    BY <1>1 DEF IInv, TypeOK
  <2>1. ~ \E w \in Workers : Worker(w)
    BY <2>t DEF Worker, Begin, Replay, Commit, WriteOutbox, Rollback
  <2>2. ~(Cleanup \/ Tick)
    BY <2>t DEF Cleanup, Tick, ExpiredOutbox
  <2>3. PICK q \in Relays : RunOnce(q)
    BY <2>1, <2>2 DEF Next
  <2>4. ~ClaimCommit(q)
    <3>1. ClaimCommit(q) => rev[q] # e
      BY <1>1 DEF ClaimCommit, LockInv
    <3> QED
      BY <2>t, <3>1 DEF ClaimCommit
  <2>5. MarkPublished(q) \/ MarkFailure(q)
    BY <2>3, <2>4 DEF RunOnce, ClaimSelect, PublishOk, PublishError, RelayCrash
  <2>6. token[e] = q /\ rev[q] = e
    BY <2>t, <2>5 DEF MarkPublished, MarkFailure, Holds
  <2>7. rev'[q] = None
    BY <2>t, <2>5 DEF MarkPublished, MarkFailure
  <2> QED
    BY <2>6, <2>7
<1>2. Init => LockInv
  BY DEF Init, LockInv
<1>3. IInv /\ LockInv /\ [Next]_vars => LockInv'
  BY StepLockInv
<1>4. Spec => [](IInv /\ LockInv)
  BY <1>2, <1>3, Inductive, PTL DEF Spec
<1>5. Spec => [][Excl]_vars
  BY <1>1, <1>4, PTL DEF Spec
<1> QED
  BY <1>5 DEF ClaimExclusive

\* The workers, relays, leases and retention implement ExactlyOnce: every step
\* of the pipeline is a step of the abstract specification or none.
THEOREM ImplementsExactlyOnce == Spec => Implements
<1>1. Init => EO!Init
  BY DEF Init, EO!Init
<1>2. ASSUME IInv, [Next]_vars
      PROVE  [EO!Next]_<<topic, effects, acked>>
  <2>1. ASSUME NEW w \in Workers, Worker(w)
        PROVE  [EO!Next]_<<topic, effects, acked>>
    <3>1. ASSUME NEW op \in Ops, Replay(w, op)
          PROVE  EO!Next
      <4>1. effects[op] = 1
        BY <1>2, <3>1 DEF Replay, IInv, InboxInv, Executed
      <4>2. EO!Acknowledge(op)
        BY <3>1, <4>1 DEF Replay, EO!Acknowledge
      <4> QED
        BY <4>2 DEF EO!Next
    <3>2. CASE Commit(w)
      <4>1. EO!TakeEffect(wop[w])
        BY <1>2, <3>2, CommitExecutes DEF Commit, EO!TakeEffect
      <4> QED
        BY <1>2, <3>2, <4>1, CommitExecutes DEF EO!Next
    <3> QED
      BY <2>1, <3>1, <3>2 DEF Worker, Begin, Rollback
  <2>2. ASSUME NEW r \in Relays, RunOnce(r)
        PROVE  [EO!Next]_<<topic, effects, acked>>
    <3>1. CASE PublishOk(r) \/ PublishError(r)
      <4>1. /\ rev[r] \in Ops /\ FromExecuted(rev[r])
            /\ topic' = topic \/ topic' = topic \cup {rev[r]}
            /\ UNCHANGED <<effects, acked>>
        BY <1>2, <3>1 DEF PublishOk, PublishError, IInv, RelayInv
      <4>2. PICK op \in Ops : rev[r] \in Emits[op] /\ effects[op] = 1
        BY <4>1 DEF FromExecuted, Executed
      <4>3. topic' = topic \/ EO!MakeAvailable(op, rev[r])
        BY <4>1, <4>2 DEF EO!MakeAvailable
      <4> QED
        BY <4>1, <4>3 DEF EO!Next
    <3> QED
      BY <2>2, <3>1 DEF RunOnce, ClaimSelect, ClaimCommit, MarkPublished,
                        MarkFailure, RelayCrash
  <2>3. CASE Cleanup \/ Tick \/ UNCHANGED vars
    BY <2>3 DEF Cleanup, Tick, vars
  <2> QED
    BY <1>2, <2>1, <2>2, <2>3 DEF Next
<1> QED
  BY <1>1, <1>2, Inductive, PTL DEF Spec, Implements, EO!Spec

=============================================================================
