------------------------ MODULE KafkaConsumerProofs ------------------------
(***************************************************************************)
(* Proofs about the reliable consumer, for every group, log, retry limit,  *)
(* set of poison messages and number of faults.  IInv is inductive; the    *)
(* properties follow from it.                                              *)
(***************************************************************************)
EXTENDS KafkaConsumer, TLAPS

USE DEF Offsets, States, Classes, session

\* Handling is never undone: done and dlq only grow.
LEMMA HandledStable ==
    ASSUME NEW o, done \subseteq done', dlq \subseteq dlq', Handled(o)
    PROVE  Handled(o)'
BY DEF Handled, DeadLettered

\* The initial state satisfies the inductive invariant.
LEMMA InitIInv == Init => IInv
<1> SUFFICES ASSUME Init PROVE IInv
  OBVIOUS
<1>1. TypeOK
  BY ConsumerAssumption DEF Init, TypeOK
<1>2. ASSUME NEW m \in Members PROVE SessionInv(m)
  <2>1. pc[m] = "idle" /\ marked[m] = 0
    BY DEF Init
  <2> QED
    BY <2>1, ConsumerAssumption DEF SessionInv, Working
<1>3. CommittedHandled /\ DeadLetterJustified
  BY ConsumerAssumption DEF Init, CommittedHandled, DeadLetterJustified
<1> QED
  BY <1>1, <1>2, <1>3 DEF Init, IInv

\* A session starts at an offset below which everything is handled.
LEMMA StartHandled ==
    ASSUME SafeStart, IInv
    PROVE  /\ StartOffset \in 1..(MaxOffset + 1)
           /\ \A o \in Offsets : o < StartOffset => Handled(o)
BY ConsumerAssumption DEF SafeStart, IInv, TypeOK, StartOffset, CommittedHandled

-----------------------------------------------------------------------------
(* One step per action; under it, the conjuncts the action can disturb.     *)

\* Every step of a member keeps the inductive invariant.
LEMMA MemberIInv ==
    ASSUME SafeStart, IInv, NEW m \in Members,
           ConsumeClaim(m) \/ Broker(m) \/ Fault(m)
    PROVE  IInv'
<1> USE ConsumerAssumption
<1>a. /\ done \subseteq done' /\ dlq \subseteq dlq'
      /\ logEnd' = logEnd
  BY DEF ConsumeClaim, ProcessWithRetry, Broker, Fault, Fetch, StopOnCancel, ProcessSuccess, ProcessFailure, Retry, PublishDeadLetter, PublishDeadLetterFails, Mark, Assign, AutoCommit, EndSession, Revoke, CancelContext, Crash, SessionOver
<1>b. \A o : Handled(o) => Handled(o)'
  BY <1>a, HandledStable
<1>t. TypeOK /\ CommittedHandled /\ DeadLetterJustified /\ SessionInv(m)
  BY DEF IInv
<1>o. \A n \in Members \ {m} : SessionInv(n)
  BY DEF IInv
<1>1. CASE Fetch(m)
  <2>1. TypeOK'
    BY <1>1, <1>t DEF Fetch, TypeOK, SessionInv, Working
  <2>2. SessionInv(m)'
    BY <1>1, <1>t, <1>b DEF Fetch, TypeOK, SessionInv, Working, GivesUp
  <2>3. \A n \in Members \ {m} : SessionInv(n)'
    BY <1>1, <1>t, <1>o, <1>b DEF Fetch, TypeOK, SessionInv, GivesUp
  <2>4. CommittedHandled' /\ DeadLetterJustified'
    BY <1>1, <1>t, <1>b DEF Fetch, TypeOK, SessionInv, CommittedHandled, DeadLetterJustified, GivesUp
  <2>5. (EverCommitted => committed # 0)'
    BY <1>1, <1>t DEF Fetch, IInv, TypeOK
  <2> QED
    BY <2>1, <2>2, <2>3, <2>4, <2>5 DEF IInv
<1>2. CASE StopOnCancel(m)
  <2>1. TypeOK'
    BY <1>2, <1>t DEF StopOnCancel, TypeOK, SessionInv, Working
  <2>2. SessionInv(m)'
    BY <1>2, <1>t, <1>b DEF StopOnCancel, TypeOK, SessionInv, Working, GivesUp
  <2>3. \A n \in Members \ {m} : SessionInv(n)'
    BY <1>2, <1>t, <1>o, <1>b DEF StopOnCancel, TypeOK, SessionInv, GivesUp
  <2>4. CommittedHandled' /\ DeadLetterJustified'
    BY <1>2, <1>t, <1>b DEF StopOnCancel, TypeOK, SessionInv, CommittedHandled, DeadLetterJustified, GivesUp
  <2>5. (EverCommitted => committed # 0)'
    BY <1>2, <1>t DEF StopOnCancel, IInv, TypeOK
  <2> QED
    BY <2>1, <2>2, <2>3, <2>4, <2>5 DEF IInv
<1>3. CASE ProcessSuccess(m)
  <2>0. next[m] \in Offsets
    BY <1>3, <1>t DEF ProcessSuccess, TypeOK, SessionInv, Working
  <2>1. TypeOK'
    BY <1>3, <1>t, <2>0 DEF ProcessSuccess, TypeOK
  <2>2. SessionInv(m)'
    <3>1. Handled(next[m])'
      BY <1>3, <2>0 DEF ProcessSuccess, Handled, DeadLettered
    <3> QED
      BY <1>3, <1>t, <1>b, <2>0, <3>1 DEF ProcessSuccess, TypeOK, SessionInv, Working
  <2>3. \A n \in Members \ {m} : SessionInv(n)'
    BY <1>3, <1>t, <1>o, <1>b DEF ProcessSuccess, TypeOK, SessionInv, GivesUp
  <2>4. CommittedHandled' /\ DeadLetterJustified'
    BY <1>3, <1>t, <1>b DEF ProcessSuccess, TypeOK, SessionInv, CommittedHandled, DeadLetterJustified, GivesUp
  <2>5. (EverCommitted => committed # 0)'
    BY <1>3, <1>t DEF ProcessSuccess, IInv, TypeOK
  <2> QED
    BY <2>1, <2>2, <2>3, <2>4, <2>5 DEF IInv
<1>4. CASE ProcessFailure(m)
  <2>0. PICK outcome \in Failures :
            /\ pc' = [pc EXCEPT ![m] =
                        IF GivesUp(m, outcome) /\ ~cancelled[m] THEN "deadletter"
                        ELSE IF GivesUp(m, outcome) THEN "closing" ELSE "backoff"]
            /\ class' = [class EXCEPT ![m] =
                        IF GivesUp(m, outcome) /\ ~cancelled[m] THEN outcome ELSE "none"]
    BY <1>4 DEF ProcessFailure
  <2>a. /\ pc[m] = "process"
        /\ UNCHANGED <<logEnd, committed, owner, next, marked, attempt, cancelled, done,
                       dlq, refused, faults>>
    BY <1>4 DEF ProcessFailure
  <2>1. TypeOK'
    BY <2>0, <2>a, <1>t DEF Failures, Classes, States, TypeOK
  <2>2. SessionInv(m)'
    BY <2>0, <2>a, <1>t, <1>b DEF Failures, TypeOK, SessionInv, Working, GivesUp
  <2>3. \A n \in Members \ {m} : SessionInv(n)'
    BY <2>0, <2>a, <1>t, <1>o, <1>b DEF TypeOK, SessionInv, GivesUp
  <2>4. CommittedHandled' /\ DeadLetterJustified'
    BY <2>a, <1>t, <1>b DEF TypeOK, CommittedHandled, DeadLetterJustified
  <2>5. (EverCommitted => committed # 0)'
    BY <2>a DEF IInv
  <2> QED
    BY <2>1, <2>2, <2>3, <2>4, <2>5 DEF IInv
<1>6. CASE Retry(m)
  <2>1. TypeOK'
    BY <1>6, <1>t DEF Retry, TypeOK, SessionInv, Working
  <2>2. SessionInv(m)'
    BY <1>6, <1>t, <1>b DEF Retry, TypeOK, SessionInv, Working, GivesUp
  <2>3. \A n \in Members \ {m} : SessionInv(n)'
    BY <1>6, <1>t, <1>o, <1>b DEF Retry, TypeOK, SessionInv, GivesUp
  <2>4. CommittedHandled' /\ DeadLetterJustified'
    BY <1>6, <1>t, <1>b DEF Retry, TypeOK, SessionInv, CommittedHandled, DeadLetterJustified, GivesUp
  <2>5. (EverCommitted => committed # 0)'
    BY <1>6, <1>t DEF Retry, IInv, TypeOK
  <2> QED
    BY <2>1, <2>2, <2>3, <2>4, <2>5 DEF IInv
<1>7. CASE PublishDeadLetter(m)
  <2>0. next[m] \in Offsets /\ DeadLetter(m) \in DeadLetters
    BY <1>7, <1>t DEF PublishDeadLetter, DeadLetter, DeadLetters, TypeOK, SessionInv, Working
  <2>1. TypeOK'
    BY <1>7, <1>t, <2>0 DEF PublishDeadLetter, TypeOK
  <2>2. SessionInv(m)'
    <3>1. Handled(next[m])'
      BY <1>7, <2>0 DEF PublishDeadLetter, DeadLetter, Handled, DeadLettered
    <3> QED
      BY <1>7, <1>t, <1>b, <2>0, <3>1 DEF PublishDeadLetter, TypeOK, SessionInv, Working
  <2>3. \A n \in Members \ {m} : SessionInv(n)'
    BY <1>7, <1>t, <1>o, <1>b DEF PublishDeadLetter, DeadLetter, DeadLetters, TypeOK, SessionInv, GivesUp
  <2>4. CommittedHandled' /\ DeadLetterJustified'
    BY <1>7, <1>t, <1>b DEF PublishDeadLetter, DeadLetter, DeadLetters, TypeOK, SessionInv, CommittedHandled, DeadLetterJustified, GivesUp
  <2>5. (EverCommitted => committed # 0)'
    BY <1>7, <1>t DEF PublishDeadLetter, DeadLetter, DeadLetters, IInv, TypeOK
  <2> QED
    BY <2>1, <2>2, <2>3, <2>4, <2>5 DEF IInv
<1>8. CASE PublishDeadLetterFails(m)
  <2>0. next[m] \in Offsets /\ DeadLetter(m) \in DeadLetters
    BY <1>8, <1>t DEF PublishDeadLetterFails, DeadLetter, DeadLetters, TypeOK, SessionInv, Working
  <2>1. TypeOK'
    BY <1>8, <1>t, <2>0 DEF PublishDeadLetterFails, TypeOK
  <2>2. SessionInv(m)'
    BY <1>8, <1>t, <1>b, <2>0 DEF PublishDeadLetterFails, TypeOK, SessionInv, Working
  <2>3. \A n \in Members \ {m} : SessionInv(n)'
    BY <1>8, <1>t, <1>o, <1>b DEF PublishDeadLetterFails, DeadLetter, DeadLetters, TypeOK, SessionInv, GivesUp
  <2>4. CommittedHandled' /\ DeadLetterJustified'
    BY <1>8, <1>t, <1>b DEF PublishDeadLetterFails, DeadLetter, DeadLetters, TypeOK, SessionInv, CommittedHandled, DeadLetterJustified, GivesUp
  <2>5. (EverCommitted => committed # 0)'
    BY <1>8, <1>t DEF PublishDeadLetterFails, DeadLetter, DeadLetters, IInv, TypeOK
  <2> QED
    BY <2>1, <2>2, <2>3, <2>4, <2>5 DEF IInv
<1>9. CASE Mark(m)
  <2>1. TypeOK'
    BY <1>9, <1>t DEF Mark, TypeOK, SessionInv, Working
  <2>2. SessionInv(m)'
    BY <1>9, <1>t, <1>b DEF Mark, TypeOK, SessionInv, Working, GivesUp
  <2>3. \A n \in Members \ {m} : SessionInv(n)'
    BY <1>9, <1>t, <1>o, <1>b DEF Mark, TypeOK, SessionInv, GivesUp
  <2>4. CommittedHandled' /\ DeadLetterJustified'
    BY <1>9, <1>t, <1>b DEF Mark, TypeOK, SessionInv, CommittedHandled, DeadLetterJustified, GivesUp
  <2>5. (EverCommitted => committed # 0)'
    BY <1>9, <1>t DEF Mark, IInv, TypeOK
  <2> QED
    BY <2>1, <2>2, <2>3, <2>4, <2>5 DEF IInv
<1>10. CASE Assign(m)
  <2>1. TypeOK'
    BY <1>10, <1>t, StartHandled DEF Assign, TypeOK, SessionInv, Working
  <2>2. SessionInv(m)'
    BY <1>10, <1>t, <1>b, StartHandled DEF Assign, TypeOK, SessionInv, Working, GivesUp
  <2>3. \A n \in Members \ {m} : SessionInv(n)'
    BY <1>10, <1>t, <1>o, <1>b DEF Assign, TypeOK, SessionInv, GivesUp
  <2>4. CommittedHandled' /\ DeadLetterJustified'
    BY <1>10, <1>t, <1>b DEF Assign, TypeOK, SessionInv, CommittedHandled, DeadLetterJustified, GivesUp
  <2>5. (EverCommitted => committed # 0)'
    BY <1>10, <1>t DEF Assign, IInv, TypeOK
  <2> QED
    BY <2>1, <2>2, <2>3, <2>4, <2>5 DEF IInv
<1>11. CASE AutoCommit(m)
  <2>1. TypeOK'
    BY <1>11, <1>t DEF AutoCommit, CanCommit, TypeOK, SessionInv, Working
  <2>2. SessionInv(m)'
    BY <1>11, <1>t, <1>b DEF AutoCommit, CanCommit, TypeOK, SessionInv, Working, GivesUp
  <2>3. \A n \in Members \ {m} : SessionInv(n)'
    BY <1>11, <1>t, <1>o, <1>b DEF AutoCommit, CanCommit, TypeOK, SessionInv, GivesUp
  <2>4. CommittedHandled' /\ DeadLetterJustified'
    BY <1>11, <1>t, <1>b DEF AutoCommit, CanCommit, TypeOK, SessionInv, CommittedHandled, DeadLetterJustified, GivesUp
  <2>5. (EverCommitted => committed # 0)'
    BY <1>11, <1>t DEF AutoCommit, CanCommit, IInv, TypeOK
  <2> QED
    BY <2>1, <2>2, <2>3, <2>4, <2>5 DEF IInv
<1>12. CASE EndSession(m)
  <2>1. TypeOK'
    BY <1>12, <1>t DEF EndSession, SessionOver, CanCommit, TypeOK, SessionInv, Working
  <2>2. SessionInv(m)'
    BY <1>12, <1>t, <1>b DEF EndSession, SessionOver, CanCommit, TypeOK, SessionInv, Working, GivesUp
  <2>3. \A n \in Members \ {m} : SessionInv(n)'
    BY <1>12, <1>t, <1>o, <1>b DEF EndSession, SessionOver, CanCommit, TypeOK, SessionInv, GivesUp
  <2>4. CommittedHandled' /\ DeadLetterJustified'
    BY <1>12, <1>t, <1>b DEF EndSession, SessionOver, CanCommit, TypeOK, SessionInv, CommittedHandled, DeadLetterJustified, GivesUp
  <2>5. (EverCommitted => committed # 0)'
    BY <1>12, <1>t DEF EndSession, SessionOver, CanCommit, IInv, TypeOK
  <2> QED
    BY <2>1, <2>2, <2>3, <2>4, <2>5 DEF IInv
<1>13. CASE Revoke(m)
  <2>1. TypeOK'
    BY <1>13, <1>t DEF Revoke, TypeOK, SessionInv, Working
  <2>2. SessionInv(m)'
    BY <1>13, <1>t, <1>b DEF Revoke, TypeOK, SessionInv, Working, GivesUp
  <2>3. \A n \in Members \ {m} : SessionInv(n)'
    BY <1>13, <1>t, <1>o, <1>b DEF Revoke, TypeOK, SessionInv, GivesUp
  <2>4. CommittedHandled' /\ DeadLetterJustified'
    BY <1>13, <1>t, <1>b DEF Revoke, TypeOK, SessionInv, CommittedHandled, DeadLetterJustified, GivesUp
  <2>5. (EverCommitted => committed # 0)'
    BY <1>13, <1>t DEF Revoke, IInv, TypeOK
  <2> QED
    BY <2>1, <2>2, <2>3, <2>4, <2>5 DEF IInv
<1>14. CASE CancelContext(m)
  <2>1. TypeOK'
    BY <1>14, <1>t DEF CancelContext, TypeOK, SessionInv, Working
  <2>2. SessionInv(m)'
    BY <1>14, <1>t, <1>b DEF CancelContext, TypeOK, SessionInv, Working, GivesUp
  <2>3. \A n \in Members \ {m} : SessionInv(n)'
    BY <1>14, <1>t, <1>o, <1>b DEF CancelContext, TypeOK, SessionInv, GivesUp
  <2>4. CommittedHandled' /\ DeadLetterJustified'
    BY <1>14, <1>t, <1>b DEF CancelContext, TypeOK, SessionInv, CommittedHandled, DeadLetterJustified, GivesUp
  <2>5. (EverCommitted => committed # 0)'
    BY <1>14, <1>t DEF CancelContext, IInv, TypeOK
  <2> QED
    BY <2>1, <2>2, <2>3, <2>4, <2>5 DEF IInv
<1>15. CASE Crash(m)
  <2>1. TypeOK'
    BY <1>15, <1>t DEF Crash, SessionOver, TypeOK, SessionInv, Working
  <2>2. SessionInv(m)'
    BY <1>15, <1>t, <1>b DEF Crash, SessionOver, TypeOK, SessionInv, Working, GivesUp
  <2>3. \A n \in Members \ {m} : SessionInv(n)'
    BY <1>15, <1>t, <1>o, <1>b DEF Crash, SessionOver, TypeOK, SessionInv, GivesUp
  <2>4. CommittedHandled' /\ DeadLetterJustified'
    BY <1>15, <1>t, <1>b DEF Crash, SessionOver, TypeOK, SessionInv, CommittedHandled, DeadLetterJustified, GivesUp
  <2>5. (EverCommitted => committed # 0)'
    BY <1>15, <1>t DEF Crash, SessionOver, IInv, TypeOK
  <2> QED
    BY <2>1, <2>2, <2>3, <2>4, <2>5 DEF IInv
<1> QED
  BY <1>1, <1>2, <1>3, <1>4, <1>6, <1>7, <1>8, <1>9, <1>10, <1>11, <1>12, <1>13, <1>14, <1>15 DEF ConsumeClaim, ProcessWithRetry, Broker, Fault

\* Producing a message keeps the inductive invariant.
LEMMA ProduceIInv ==
    ASSUME IInv, Produce
    PROVE  IInv'
<1>1. \A o : Handled(o)' <=> Handled(o)
  BY DEF Produce, Handled, DeadLettered
<1> QED
  BY <1>1, ConsumerAssumption DEF Produce, IInv, TypeOK, CommittedHandled,
     DeadLetterJustified, SessionInv, GivesUp, Working

\* A stuttering step keeps the inductive invariant.
LEMMA StutterIInv ==
    ASSUME IInv, UNCHANGED vars
    PROVE  IInv'
<1>1. \A o : Handled(o)' <=> Handled(o)
  BY DEF vars, Handled, DeadLettered
<1> QED
  BY <1>1 DEF vars, IInv, TypeOK, CommittedHandled, DeadLetterJustified,
     SessionInv, GivesUp, Working

\* The inductive invariant holds throughout, when the group starts reading from
\* a known place.
LEMMA Inductive ==
    ASSUME SafeStart
    PROVE  Spec => []IInv
<1>1. IInv /\ [Next]_vars => IInv'
  <2> SUFFICES ASSUME IInv, [Next]_vars PROVE IInv'
    OBVIOUS
  <2> QED
    BY MemberIInv, ProduceIInv, StutterIInv DEF Next
<1> QED
  BY <1>1, InitIInv, PTL DEF Spec

\* The consumer's variables keep their types: attempts stay within MaxRetries
\* and offsets within the log.
THEOREM ConsumerTypeCorrect ==
    ASSUME SafeStart
    PROVE  Spec => []TypeOK
<1>1. IInv => TypeOK
  BY DEF IInv
<1> QED
  BY <1>1, Inductive, PTL

\* No committed offset was skipped: whatever crashes, rebalances, zombies and
\* failed dead letters occur, everything below the committed offset has been
\* processed or dead-lettered.
THEOREM NoMessageSkipped ==
    ASSUME SafeStart
    PROVE  Spec => []CommittedHandled
<1>1. IInv => CommittedHandled
  BY DEF IInv
<1> QED
  BY <1>1, Inductive, PTL

\* Partition order: no session works on a message before all earlier ones are
\* handled.
THEOREM OrderKept ==
    ASSUME SafeStart
    PROVE  Spec => []PartitionOrder
<1>1. IInv => PartitionOrder
  BY DEF IInv, SessionInv, PartitionOrder
<1> QED
  BY <1>1, Inductive, PTL

\* Only permanent or exhausted messages are dead-lettered.
THEOREM DeadLettersJustified ==
    ASSUME SafeStart
    PROVE  Spec => []DeadLetterJustified
<1>1. IInv => DeadLetterJustified
  BY DEF IInv
<1> QED
  BY <1>1, Inductive, PTL

=============================================================================
