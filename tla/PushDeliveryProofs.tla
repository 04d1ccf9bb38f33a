------------------------- MODULE PushDeliveryProofs -------------------------
(***************************************************************************)
(* Proofs about push delivery, for every set of requests, tokens and pods. *)
(*                                                                         *)
(* IInv is inductive.  To the properties it adds what the locks are for: a *)
(* row that a transaction has locked is what that transaction has read, at *)
(* most one transaction has a job, and the count a finalize has made is    *)
(* still right when it commits.                                            *)
(***************************************************************************)
EXTENDS PushDelivery, TLAPS

\* The row d of the job r is outstanding, or sent.
Out(r, d) == rows[d] # NoRow /\ rows[d].job = r /\ rows[d].status \in Outstanding
SentRow(r, d) == rows[d] # NoRow /\ rows[d].job = r /\ rows[d].status = "sent"

Types ==
    /\ tokens \in [TokenIds -> TokenRows \cup {NoRow}]
    /\ recalled \subseteq Subjects /\ expired \subseteq Subjects
    /\ inbox \subseteq Requests
    /\ workload \in [requests : SUBSET Requests, commands : SUBSET Commands,
                     faults : Nat]

TableTypes ==
    /\ jobs \in [Requests -> {"none", "pending", "completed", "deleted"}]
    /\ rows \in [Keys -> Deliveries \cup {NoRow}]
    /\ result \in [Requests -> {"none", "accepted", "refused"}]

ClaimTypes ==
    /\ tasks \subseteq Tasks
    /\ held \in [Loops -> SUBSET Keys]

\* A row belongs to a job of its kind and subject that there is.
RowsOK ==
    \A d \in Keys : rows[d] # NoRow =>
        /\ rows[d].job.kind = d.kind
        /\ rows[d].job.subject = d.subject
        /\ jobs[rows[d].job] \in {"pending", "completed"}

\* A request that is still to come has no job, nor was the job of another
\* request for its subject cleaned up.
FutureOK ==
    \A r \in workload.requests :
        /\ jobs[r] = "none"
        /\ \A q \in Requests : q.subject = r.subject => jobs[q] # "deleted"

\* A recall is enqueued after the message was marked.
RecallsOK ==
    \A r \in Requests : r.kind = "message_recall" /\ jobs[r] # "none" =>
        r.subject \in recalled

\* The rows of an open claim are outstanding, and nobody else's.
HeldOK ==
    /\ \A l \in Loops : \A d \in held[l] :
         /\ rows[d] # NoRow /\ rows[d].status \in {"claimed", "retryable"}
         /\ \A t \in tasks : t.phase = "written" => t.key # d
    /\ \A k, l \in Loops : held[k] \cap held[l] # {} => k = l

\* No row of the task's job but its own is outstanding, nor will its own be.
Alone(t) ==
    /\ t.outcome \notin Outstanding
    /\ \A d \in Keys : d # t.key => ~Out(t.job, d)

\* What a finalize has read is still so.
WrittenOK ==
    \A t \in tasks : t.phase = "written" =>
        MayFinalize(t) /\ (t.completes <=> Alone(t))

\* At most one finalize has a job.
JobLocksOK ==
    \A t, u \in tasks :
        /\ t.phase \in {"locked", "written"}
        /\ u.phase \in {"locked", "written"}
        /\ t.job = u.job
        => t = u

\* Only calls have results.
ResultsOK == \A r \in Requests : result[r] # "none" => r.kind = "voip"

TablesOK ==
    /\ TableTypes
    /\ RowsOK
    /\ FutureOK
    /\ RecallsOK
    /\ ResultsOK
    /\ RecallIsQuiet
    /\ ResultIsTrue
    /\ JobTracksRows

LocksOK ==
    /\ ClaimTypes
    /\ HeldOK
    /\ WrittenOK
    /\ JobLocksOK

IInv == Types /\ TablesOK /\ LocksOK

-----------------------------------------------------------------------------
USE PushAssumption

\* The parts of the invariant that the tables are about, in terms of rows.
LEMMA Rephrased ==
    ASSUME TableTypes
    PROVE  /\ JobTracksRows <=>
                \A r \in Requests : jobs[r] = "pending" <=> \E d \in Keys : Out(r, d)
           /\ \A r \in Requests : Sent(r, rows) <=> \E d \in Keys : SentRow(r, d)
BY DEF JobTracksRows, RowsOf, Out, Sent, SentRow

\* The initial state satisfies the invariant.
LEMMA InitIInv == Init => IInv
<1> SUFFICES ASSUME Init PROVE IInv
  OBVIOUS
<1>1. Types
  BY DEF Init, Types
<1>2. TableTypes /\ RowsOK /\ FutureOK /\ RecallsOK /\ ResultsOK
  BY DEF Init, TableTypes, RowsOK, FutureOK, RecallsOK, ResultsOK
<1>3. RecallIsQuiet /\ ResultIsTrue /\ JobTracksRows
  BY DEF Init, RecallIsQuiet, ResultIsTrue, JobTracksRows, RowsOf, Sent
<1>4. LocksOK
  BY DEF Init, LocksOK, ClaimTypes, HeldOK, WrittenOK, JobLocksOK
<1> QED
  BY <1>1, <1>2, <1>3, <1>4 DEF IInv, TablesOK

-----------------------------------------------------------------------------
(* Steps that leave the tables alone.                                      *)

\* The tables are in order after a step that leaves them alone.
LEMMA TablesKept ==
    ASSUME TablesOK, UNCHANGED <<jobs, rows, result>>,
           workload'.requests \subseteq workload.requests,
           recalled \subseteq recalled'
    PROVE  TablesOK'
<1>1. TableTypes' /\ RowsOK' /\ FutureOK' /\ RecallsOK' /\ ResultsOK'
  BY DEF TablesOK, TableTypes, RowsOK, FutureOK, RecallsOK, ResultsOK
<1>2. RecallIsQuiet' /\ ResultIsTrue' /\ JobTracksRows'
  BY DEF TablesOK, RecallIsQuiet, ResultIsTrue, JobTracksRows, RowsOf, Sent
<1> QED
  BY <1>1, <1>2 DEF TablesOK

\* Senders and claims that are gone leave the locks in order.
LEMMA LocksDropped ==
    ASSUME LocksOK, UNCHANGED rows, tasks' \subseteq tasks,
           held' \in [Loops -> SUBSET Keys],
           \A l \in Loops : held'[l] \subseteq held[l]
    PROVE  LocksOK'
<1>1. ClaimTypes' /\ JobLocksOK'
  BY DEF LocksOK, ClaimTypes, JobLocksOK
<1>2. HeldOK'
  BY DEF LocksOK, HeldOK
<1>3. WrittenOK'
  BY DEF LocksOK, WrittenOK, MayFinalize, Alone, Out
<1> QED
  BY <1>1, <1>2, <1>3 DEF LocksOK

\* A client registers or unregisters a token.
LEMMA CommandIInv ==
    ASSUME IInv, NEW c \in workload.commands, PersistClientCommand(c)
    PROVE  IInv'
<1>1. /\ c \in Commands /\ Handled(c)
  BY DEF IInv, Types, PersistClientCommand, RegisterToken, UnregisterToken
<1>2. [user |-> c.user, device |-> c.device, type |-> c.type, value |-> c.value,
       active |-> TRUE] \in TokenRows
  BY <1>1 DEF Commands, TokenRows
<1>3. tokens' \in [TokenIds -> TokenRows \cup {NoRow}]
  <2>1. CASE UnregisterToken(c)
    BY <2>1 DEF UnregisterToken, IInv, Types
  <2>2. CASE RegisterToken(c)
    <3> DEFINE new == [user |-> c.user, device |-> c.device, type |-> c.type,
                       value |-> c.value, active |-> TRUE]
    <3>1. new \in TokenRows
      BY <1>2
    <3>2. \/ \E i : tokens' = [j \in TokenIds |-> IF j = i THEN new
                     ELSE IF j \in Holding(c.value, c.type) THEN NoRow ELSE tokens[j]]
          \/ \E i : tokens' = [tokens EXCEPT ![i] = new]
      BY <2>2 DEF RegisterToken
    <3> HIDE DEF new
    <3> QED
      BY <3>1, <3>2 DEF IInv, Types
  <2> QED
    BY <2>1, <2>2 DEF PersistClientCommand
<1>4. /\ workload' = [workload EXCEPT !.commands = @ \ {c}]
      /\ UNCHANGED <<recalled, expired, inbox, jobs, rows, tasks, held, result>>
  BY <1>1 DEF Handled
<1>5. Types' /\ workload'.requests = workload.requests
  BY <1>3, <1>4 DEF IInv, Types
<1>6. TablesOK'
  BY <1>4, <1>5, TablesKept DEF IInv
<1>7. LocksOK'
  BY <1>4, LocksDropped DEF IInv, LocksOK, ClaimTypes
<1> QED
  BY <1>5, <1>6, <1>7 DEF IInv

\* Storage marks a message recalled, or a call expires.
LEMMA ClockIInv ==
    ASSUME IInv, NEW m \in Subjects, RecallMessage(m) \/ CallExpires(m)
    PROVE  IInv'
<1>1. /\ UNCHANGED <<tokens, jobs, rows, result, inbox, workload, tasks, held>>
      /\ recalled \subseteq recalled' /\ recalled' \subseteq Subjects
      /\ expired' \subseteq Subjects
  BY DEF RecallMessage, CallExpires, durable, IInv, Types
<1>2. Types'
  BY <1>1 DEF IInv, Types
<1>3. TablesOK'
  BY <1>1, TablesKept DEF IInv
<1>4. LocksOK'
  BY <1>1, LocksDropped DEF IInv, LocksOK, ClaimTypes
<1> QED
  BY <1>2, <1>3, <1>4 DEF IInv

\* A finalize or a claim fails, a pod crashes, a deadlock is broken.
LEMMA FaultIInv ==
    ASSUME IInv,
           \/ \E t \in tasks : FinalizeFails(t)
           \/ \E l \in Loops : ClaimFails(l)
           \/ \E p \in Pods : Crash(p)
           \/ BreakDeadlock
    PROVE  IInv'
<1>a. held \in [Loops -> SUBSET Keys]
  BY DEF IInv, LocksOK, ClaimTypes
<1>1. /\ UNCHANGED <<tokens, jobs, rows, result, recalled, expired, inbox>>
      /\ tasks' \subseteq tasks
      /\ workload' = workload \/ Fault
  BY DEF FinalizeFails, ClaimFails, Crash, BreakDeadlock, Fault, durable, requests
<1>2. held' \in [Loops -> SUBSET Keys] /\ \A l \in Loops : held'[l] \subseteq held[l]
  BY <1>a DEF FinalizeFails, ClaimFails, Crash, BreakDeadlock
<1>3. Types' /\ workload'.requests = workload.requests
  BY <1>1 DEF IInv, Types, Fault
<1>4. TablesOK'
  BY <1>1, <1>3, TablesKept DEF IInv
<1>5. LocksOK'
  BY <1>1, <1>2, LocksDropped DEF IInv
<1> QED
  BY <1>3, <1>4, <1>5 DEF IInv

\* A claim locks exhausted rows that nobody else has locked.
LEMMA ExpireIInv ==
    ASSUME IInv, NEW l \in Loops, ExpireExhaustedDeliveries(l)
    PROVE  IInv'
<1> DEFINE E == Exhausted(l.table)
<1>1. /\ held' = [held EXCEPT ![l] = E]
      /\ \A d \in E : ~RowLocked(d)
      /\ UNCHANGED <<tokens, jobs, rows, result, recalled, expired, inbox,
                     workload, tasks>>
  BY DEF ExpireExhaustedDeliveries, durable, requests
<1>2. /\ E \subseteq Keys
      /\ \A d \in E : rows[d] # NoRow /\ rows[d].status \in {"claimed", "retryable"}
  BY DEF Exhausted, InTable
<1> HIDE DEF E
<1>3. Types' /\ TablesOK'
  BY <1>1, TablesKept DEF IInv, Types
<1>4. ClaimTypes' /\ WrittenOK' /\ JobLocksOK'
  BY <1>1, <1>2 DEF IInv, LocksOK, ClaimTypes, WrittenOK, JobLocksOK, MayFinalize,
                    Alone, Out
<1>5. HeldOK'
  <2>1. \A k \in Loops : held'[k] = IF k = l THEN E ELSE held[k]
    BY <1>1 DEF IInv, LocksOK, ClaimTypes
  <2>2. ASSUME NEW k \in Loops, NEW d \in held'[k]
        PROVE  /\ rows'[d] # NoRow /\ rows'[d].status \in {"claimed", "retryable"}
               /\ \A t \in tasks' : t.phase = "written" => t.key # d
    <3>1. CASE k = l
      BY <1>1, <1>2, <2>1, <2>2, <3>1 DEF RowLocked
    <3>2. CASE k # l
      BY <1>1, <2>1, <2>2, <3>2 DEF IInv, LocksOK, HeldOK
    <3> QED
      BY <3>1, <3>2
  <2>3. ASSUME NEW j \in Loops, NEW k \in Loops, held'[j] \cap held'[k] # {}
        PROVE  j = k
    BY <1>1, <2>1, <2>3 DEF IInv, LocksOK, HeldOK, RowLocked
  <2> QED
    BY <2>2, <2>3 DEF HeldOK
<1> QED
  BY <1>3, <1>4, <1>5 DEF IInv, LocksOK

-----------------------------------------------------------------------------
(* The senders.                                                            *)

\* A sender goes on to its next phase.
LEMMA TaskMoves ==
    ASSUME LocksOK, NEW t \in tasks, NEW u \in Tasks,
           tasks' = (tasks \ {t}) \cup {u}, UNCHANGED <<rows, held>>,
           u.job = t.job,
           u.phase = "written" => /\ ~RowLocked(u.key)
                                  /\ MayFinalize(u)
                                  /\ u.completes <=> Alone(u),
           u.phase \in {"locked", "written"} =>
             t.phase \in {"locked", "written"} \/ ~JobLocked(t.job)
    PROVE  LocksOK'
<1>1. ClaimTypes'
  BY DEF LocksOK, ClaimTypes
<1>2. HeldOK'
  BY DEF LocksOK, HeldOK, RowLocked
<1>3. WrittenOK'
  BY DEF LocksOK, WrittenOK, MayFinalize, Alone, Out
<1>4. JobLocksOK'
  <2> SUFFICES ASSUME NEW x \in tasks', NEW y \in tasks',
                      x.phase \in {"locked", "written"},
                      y.phase \in {"locked", "written"}, x.job = y.job
               PROVE  x = y
    BY DEF JobLocksOK
  <2>1. ASSUME NEW z \in tasks, z # t, z.phase \in {"locked", "written"},
               u.phase \in {"locked", "written"}, z.job = u.job
        PROVE  FALSE
    BY <2>1 DEF LocksOK, JobLocksOK, JobLocked
  <2> QED
    BY <2>1 DEF LocksOK, JobLocksOK
<1> QED
  BY <1>1, <1>2, <1>3, <1>4 DEF LocksOK

\* APNs answers, or does not.
LEMMA SendIInv ==
    ASSUME IInv, NEW t \in tasks, SendDurableDelivery(t)
    PROVE  IInv'
<1>1. t \in Tasks
  BY DEF IInv, LocksOK, ClaimTypes
<1>2. PICK u \in Updates(t) : tasks' = (tasks \ {t}) \cup {u}
  BY DEF SendDurableDelivery
<1>3. PICK o \in Outcomes, b \in BOOLEAN : u = Update(t, o, b)
  BY DEF Updates, RetryableUpdate, Outcomes
<1>4. u \in Tasks
  BY <1>1, <1>3 DEF Update, Tasks
<1>5. u.phase = "sent" /\ u.job = t.job
  BY <1>1, <1>3 DEF Update, Tasks
<1>6. UNCHANGED <<tokens, jobs, rows, result, recalled, expired, inbox, workload,
                 held>>
  BY DEF SendDurableDelivery, durable, requests
<1>7. LocksOK'
  BY <1>2, <1>4, <1>5, <1>6, TaskMoves DEF IInv
<1>8. Types' /\ TablesOK'
  BY <1>6, TablesKept DEF IInv, Types
<1> QED
  BY <1>7, <1>8 DEF IInv

\* The finalize takes the job.
LEMMA LockJobIInv ==
    ASSUME IInv, NEW t \in tasks, LockPushJob(t)
    PROVE  IInv'
<1> DEFINE u == [t EXCEPT !.phase = "locked"]
<1>1. t \in Tasks
  BY DEF IInv, LocksOK, ClaimTypes
<1>2. u \in Tasks /\ u.phase = "locked" /\ u.job = t.job
  BY <1>1 DEF Tasks
<1>3. /\ tasks' = (tasks \ {t}) \cup {u} /\ ~JobLocked(t.job)
      /\ UNCHANGED <<tokens, jobs, rows, result, recalled, expired, inbox, workload,
                     held>>
  BY DEF LockPushJob, durable, requests
<1> HIDE DEF u
<1>4. LocksOK'
  BY <1>2, <1>3, TaskMoves DEF IInv
<1>5. Types' /\ TablesOK'
  BY <1>3, TablesKept DEF IInv, Types
<1> QED
  BY <1>4, <1>5 DEF IInv

\* The count that the finalize makes, with its own row written.
LEMMA FinalizedCount ==
    ASSUME TableTypes, NEW t \in Tasks, MayFinalize(t)
    PROVE  /\ NoneOutstanding(t.job, Finalized(t)) <=> Alone(t)
           /\ \A d \in Keys : d # t.key => Finalized(t)[d] = rows[d]
           /\ Finalized(t)[t.key] \in Deliveries
           /\ Finalized(t)[t.key].job = t.job
           /\ Finalized(t)[t.key].status = t.outcome
           /\ Finalized(t) \in [Keys -> Deliveries \cup {NoRow}]
           /\ t.key \in Keys
<1> DEFINE k == t.key
           x == [rows[k] EXCEPT !.status = t.outcome, !.due = FALSE]
           f == Finalized(t)
<1>1. k \in Keys /\ t.outcome \in Outstanding \cup Terminal
  BY DEF Tasks, Outcomes, Outstanding, Terminal
<1>2. rows[k] \in Deliveries /\ rows[k].job = t.job
  BY <1>1 DEF TableTypes, MayFinalize
<1>3. x \in Deliveries /\ x.job = t.job /\ x.status = t.outcome
  <2> DEFINE r == rows[k]
  <2>1. r \in Deliveries
    BY <1>2
  <2> HIDE DEF r, k
  <2>2. /\ [r EXCEPT !.status = t.outcome, !.due = FALSE] \in Deliveries
        /\ [r EXCEPT !.status = t.outcome, !.due = FALSE].job = r.job
        /\ [r EXCEPT !.status = t.outcome, !.due = FALSE].status = t.outcome
    BY <1>1, <2>1 DEF Deliveries
  <2> QED
    BY <1>2, <2>2 DEF r, k
<1>4. f = [rows EXCEPT ![k] = x]
  BY DEF Finalized
<1> HIDE DEF x, f, k
<1>5. /\ f \in [Keys -> Deliveries \cup {NoRow}] /\ f[k] = x
      /\ \A d \in Keys : d # k => f[d] = rows[d]
  BY <1>1, <1>3, <1>4 DEF TableTypes
<1>6. x # NoRow
  BY <1>3
<1>7. NoneOutstanding(t.job, f) <=> Alone(t)
  BY <1>1, <1>3, <1>5, <1>6 DEF NoneOutstanding, Alone, Out, k
<1> QED
  BY <1>1, <1>3, <1>5, <1>7 DEF f, k

\* The fenced update, in its transaction.
LEMMA FinalizeIInv ==
    ASSUME IInv, NEW t \in tasks, FinalizeClaimedDelivery(t)
    PROVE  IInv'
<1>1. t \in Tasks
  BY DEF IInv, LocksOK, ClaimTypes
<1>2. UNCHANGED <<tokens, jobs, rows, result, recalled, expired, inbox, workload,
                 held>>
  BY DEF FinalizeClaimedDelivery, durable, requests
<1>3. Types' /\ TablesOK'
  BY <1>2, TablesKept DEF IInv, Types
<1>4. CASE ~MayFinalize(t)
  <2>1. tasks' \subseteq tasks
    BY <1>4 DEF FinalizeClaimedDelivery
  <2>2. LocksOK'
    BY <1>2, <2>1, LocksDropped DEF IInv, LocksOK, ClaimTypes
  <2> QED
    BY <1>3, <2>2 DEF IInv
<1>5. CASE MayFinalize(t)
  <2> DEFINE n == NoneOutstanding(t.job, Finalized(t))
             u == [t EXCEPT !.phase = "written", !.completes = n]
  <2>1. n \in BOOLEAN
    BY DEF NoneOutstanding
  <2>2. tasks' = (tasks \ {t}) \cup {u} /\ t.phase = "locked" /\ ~RowLocked(t.key)
    BY <1>5 DEF FinalizeClaimedDelivery
  <2>3. n <=> Alone(t)
    BY <1>1, <1>5, FinalizedCount DEF IInv, TablesOK
  <2> HIDE DEF n
  <2>4. /\ u \in Tasks /\ u.phase = "written" /\ u.job = t.job /\ u.key = t.key
        /\ u.attempt = t.attempt /\ u.outcome = t.outcome /\ u.completes = n
    BY <1>1, <2>1 DEF Tasks
  <2> HIDE DEF u
  <2>5. MayFinalize(u) /\ (u.completes <=> Alone(u))
    BY <1>5, <2>3, <2>4 DEF MayFinalize, Alone
  <2>6. LocksOK'
    BY <1>2, <2>2, <2>4, <2>5, TaskMoves DEF IInv
  <2> QED
    BY <1>3, <2>6 DEF IInv
<1> QED
  BY <1>4, <1>5

-----------------------------------------------------------------------------
(* Steps that change rows.                                                 *)

\* What a finalize has read is still so when its row is the same and the rows
\* of its job are outstanding as before.
LEMMA WrittenStable ==
    ASSUME NEW t, MayFinalize(t), t.completes <=> Alone(t),
           rows'[t.key] = rows[t.key],
           \A d \in Keys : d # t.key => (Out(t.job, d)' <=> Out(t.job, d))
    PROVE  MayFinalize(t)' /\ (t.completes <=> Alone(t)')
BY DEF MayFinalize, Alone

\* A row that is outstanding belongs to a pending job without a result, and to
\* no message whose recall is a job.
LEMMA OutRow ==
    ASSUME TablesOK, NEW d \in Keys, rows[d] # NoRow, rows[d].status \in Outstanding
    PROVE  /\ rows[d] \in Deliveries /\ rows[d].job \in Requests
           /\ jobs[rows[d].job] = "pending" /\ result[rows[d].job] = "none"
           /\ rows[d].job.kind = d.kind /\ rows[d].job.subject = d.subject
           /\ \A r \in Requests : d.kind = "message" /\ r.subject = d.subject
                 /\ r.kind = "message_recall" => jobs[r] = "none"
<1>1. rows[d] \in Deliveries
  BY DEF TablesOK, TableTypes
<1>2. rows[d].job \in Requests
  BY <1>1 DEF Deliveries
<1>3. jobs[rows[d].job] = "pending"
  BY <1>2 DEF TablesOK, JobTracksRows, RowsOf
<1>4. result[rows[d].job] = "none"
  BY <1>2, <1>3 DEF TablesOK, ResultIsTrue, ResultsOK
<1>5. rows[d].job.kind = d.kind /\ rows[d].job.subject = d.subject
  BY DEF TablesOK, RowsOK
<1>6. \A r \in Requests : d.kind = "message" /\ r.subject = d.subject
                 /\ r.kind = "message_recall" => jobs[r] = "none"
  BY DEF TablesOK, RecallIsQuiet, Outstanding, Terminal
<1> QED
  BY <1>1, <1>2, <1>3, <1>4, <1>5, <1>6

\* A lease runs out, or the time of a retry comes.
LEMMA DueIInv ==
    ASSUME IInv, NEW d \in Keys, BecomesDue(d)
    PROVE  IInv'
<1> DEFINE r == rows[d]
           x == [r EXCEPT !.due = TRUE]
<1>1. /\ rows' = [rows EXCEPT ![d] = x] /\ r \in Deliveries /\ ~RowLocked(d)
      /\ UNCHANGED <<tokens, recalled, expired, inbox, workload, jobs, tasks, held,
                     result>>
  BY DEF BecomesDue, IInv, TablesOK, TableTypes, requests
<1>2. x \in Deliveries /\ x.job = r.job /\ x.status = r.status
  <2> HIDE DEF r
  <2> QED
    BY <1>1 DEF Deliveries
<1> HIDE DEF x, r
<1>3. /\ rows'[d] = x /\ \A k \in Keys : k # d => rows'[k] = rows[k]
      /\ rows' \in [Keys -> Deliveries \cup {NoRow}]
  BY <1>1, <1>2 DEF IInv, TablesOK, TableTypes
<1>4. \A k \in Keys : /\ rows'[k] = NoRow <=> rows[k] = NoRow
                      /\ rows[k] # NoRow => /\ rows'[k].job = rows[k].job
                                            /\ rows'[k].status = rows[k].status
  BY <1>1, <1>2, <1>3 DEF r
<1>5. /\ \A q, k : k \in Keys => (Out(q, k)' <=> Out(q, k))
      /\ \A q, k : k \in Keys => (SentRow(q, k)' <=> SentRow(q, k))
      /\ \A q : RowsOf(q)' = RowsOf(q)
  BY <1>4 DEF Out, SentRow, RowsOf
<1>6. TableTypes' /\ RowsOK' /\ FutureOK' /\ RecallsOK' /\ ResultsOK' /\ RecallIsQuiet'
  BY <1>1, <1>3, <1>4 DEF IInv, TablesOK, TableTypes, RowsOK, FutureOK, RecallsOK,
                          ResultsOK, RecallIsQuiet
<1>7. JobTracksRows'
  <2>1. \A q \in Requests : jobs[q] = "pending" <=> \E k \in Keys : Out(q, k)
    BY Rephrased DEF IInv, TablesOK
  <2>2. \A q \in Requests : jobs'[q] = "pending" <=> \E k \in Keys : Out(q, k)'
    BY <1>1, <1>5, <2>1
  <2> QED
    BY <2>2 DEF JobTracksRows, RowsOf, Out
<1>8. ResultIsTrue'
  <2>1. \A q \in Requests : Sent(q, rows)' <=> Sent(q, rows)
    BY <1>5 DEF Sent, SentRow
  <2> QED
    BY <1>1, <1>5, <2>1 DEF IInv, TablesOK, ResultIsTrue
<1>9. Types'
  BY <1>1 DEF IInv, Types
<1>10. ClaimTypes' /\ JobLocksOK'
  BY <1>1 DEF IInv, LocksOK, ClaimTypes, JobLocksOK
<1>11. HeldOK'
  <2>1. \A l \in Loops : held[l] \subseteq Keys
    BY DEF IInv, LocksOK, ClaimTypes
  <2> QED
    BY <1>1, <1>4, <2>1 DEF IInv, LocksOK, HeldOK
<1>12. WrittenOK'
  <2> SUFFICES ASSUME NEW t \in tasks, t.phase = "written"
               PROVE  MayFinalize(t)' /\ (t.completes <=> Alone(t)')
    BY <1>1 DEF WrittenOK
  <2>1. t.key # d /\ t.key \in Keys
    BY <1>1 DEF RowLocked, IInv, LocksOK, ClaimTypes, Tasks
  <2>2. MayFinalize(t) /\ (t.completes <=> Alone(t))
    BY DEF IInv, LocksOK, WrittenOK
  <2> QED
    BY <1>3, <1>5, <2>1, <2>2, WrittenStable
<1> QED
  BY <1>6, <1>7, <1>8, <1>9, <1>10, <1>11, <1>12 DEF IInv, TablesOK, LocksOK

\* A finalize commits: it writes its row and completes its job if, and only
\* if, that was the last outstanding row.
LEMMA CommitIInv ==
    ASSUME IInv, NEW t \in tasks, CommitFinalize(t)
    PROVE  IInv'
<1> DEFINE k == t.key
           j == t.job
<1>1. /\ t \in Tasks /\ t.phase = "written" /\ k \in Keys /\ j \in Requests
  BY DEF CommitFinalize, IInv, LocksOK, ClaimTypes, Tasks
<1>2. /\ rows' = Finalized(t)
      /\ CompleteJobs(IF t.completes THEN {j} ELSE {}, rows')
      /\ tasks' = tasks \ {t}
      /\ UNCHANGED <<recalled, expired, inbox, workload, held>>
  BY DEF CommitFinalize, requests
<1>3. MayFinalize(t) /\ (t.completes <=> Alone(t))
  BY <1>1 DEF IInv, LocksOK, WrittenOK
<1>4. /\ \A d \in Keys : d # k => rows'[d] = rows[d]
      /\ rows'[k] \in Deliveries /\ rows'[k].job = j /\ rows'[k].status = t.outcome
      /\ rows' \in [Keys -> Deliveries \cup {NoRow}]
  BY <1>1, <1>2, <1>3, FinalizedCount DEF IInv, TablesOK
<1>5. rows[k] # NoRow /\ rows[k].job = j /\ rows[k].status = "claimed"
  BY <1>3 DEF MayFinalize
<1>6. /\ jobs[j] = "pending" /\ result[j] = "none"
      /\ j.kind = k.kind /\ j.subject = k.subject
      /\ \A r \in Requests : k.kind = "message" /\ r.subject = k.subject
                 /\ r.kind = "message_recall" => jobs[r] = "none"
  BY <1>1, <1>5, OutRow DEF IInv, Outstanding
<1>7. rows'[k] # NoRow
  BY <1>4
<1> HIDE DEF k, j
<1>8. /\ jobs' = [r \in Requests |-> IF t.completes /\ r = j THEN "completed"
                                     ELSE jobs[r]]
      /\ result' = [r \in Requests |->
                      IF t.completes /\ r = j /\ r.kind = "voip"
                      THEN IF Sent(r, rows') THEN "accepted" ELSE "refused"
                      ELSE result[r]]
  BY <1>2, <1>6 DEF CompleteJobs
<1>9. /\ \A r \in Requests : r # j => jobs'[r] = jobs[r] /\ result'[r] = result[r]
      /\ jobs'[j] = IF t.completes THEN "completed" ELSE "pending"
      /\ result'[j] = IF t.completes /\ j.kind = "voip"
                      THEN IF Sent(j, rows') THEN "accepted" ELSE "refused"
                      ELSE "none"
  BY <1>1, <1>6, <1>8 DEF j
<1>a. j \in Requests /\ k \in Keys
  BY <1>1 DEF j, k
<1>10. TableTypes'
  <2>1. jobs' \in [Requests -> {"none", "pending", "completed", "deleted"}]
    BY <1>8 DEF IInv, TablesOK, TableTypes
  <2>2. result' \in [Requests -> {"none", "accepted", "refused"}]
    BY <1>8 DEF IInv, TablesOK, TableTypes
  <2> QED
    BY <1>4, <2>1, <2>2 DEF TableTypes
<1>11. RowsOK'
  <2> SUFFICES ASSUME NEW d \in Keys, rows'[d] # NoRow
               PROVE  /\ rows'[d].job.kind = d.kind /\ rows'[d].job.subject = d.subject
                      /\ jobs'[rows'[d].job] \in {"pending", "completed"}
    BY DEF RowsOK
  <2>1. CASE d = k
    BY <1>4, <1>6, <1>9, <2>1
  <2>2. CASE d # k
    <3>1. rows'[d] = rows[d] /\ rows[d].job \in Requests
      BY <1>4, <2>2 DEF IInv, TablesOK, TableTypes, Deliveries
    <3> QED
      BY <1>9, <3>1 DEF IInv, TablesOK, RowsOK
  <2> QED
    BY <2>1, <2>2
<1>12. FutureOK'
  <2>1. workload.requests \subseteq Requests
    BY DEF IInv, Types
  <2>2. j \notin workload.requests
    BY <1>6 DEF IInv, TablesOK, FutureOK
  <2> QED
    BY <1>2, <1>9, <2>1, <2>2 DEF IInv, TablesOK, FutureOK
<1>13. RecallsOK' /\ ResultsOK'
  BY <1>2, <1>6, <1>9 DEF IInv, TablesOK, RecallsOK, ResultsOK
<1>14. RecallIsQuiet'
  <2> SUFFICES ASSUME NEW r \in Requests, r.kind = "message_recall", jobs'[r] # "none",
                      NEW d \in Keys, d.kind = "message", d.subject = r.subject,
                      rows'[d] # NoRow
               PROVE  rows'[d].status \in Terminal
    BY DEF RecallIsQuiet
  <2>1. jobs[r] # "none"
    BY <1>6, <1>9
  <2>2. d # k
    BY <1>6, <2>1
  <2> QED
    BY <1>4, <2>1, <2>2 DEF IInv, TablesOK, RecallIsQuiet
<1>15. ASSUME NEW r \in Requests, r # j, NEW d \in Keys
       PROVE  /\ Out(r, d)' <=> Out(r, d)
              /\ SentRow(r, d)' <=> SentRow(r, d)
              /\ d \in RowsOf(r)' <=> d \in RowsOf(r)
  <2>1. CASE d = k
    BY <1>4, <1>5, <1>15, <2>1 DEF Out, SentRow, RowsOf, k, j
  <2>2. CASE d # k
    BY <1>4, <2>2 DEF Out, SentRow, RowsOf
  <2> QED
    BY <2>1, <2>2
<1>16. JobTracksRows'
  <2>1. \A r \in Requests : jobs[r] = "pending" <=> \E d \in Keys : Out(r, d)
    BY Rephrased DEF IInv, TablesOK
  <2>2. \A d \in Keys : Out(j, d)' <=> IF d = k THEN t.outcome \in Outstanding
                                       ELSE Out(j, d)
    BY <1>4, <1>7 DEF Out
  <2>3. (\E d \in Keys : Out(j, d)') <=> ~t.completes
    BY <1>3, <1>a, <2>2 DEF Alone, k, j
  <2>4. jobs'[j] = "pending" <=> \E d \in Keys : Out(j, d)'
    BY <1>9, <2>3
  <2>5. \A r \in Requests : r # j => (jobs'[r] = "pending" <=> \E d \in Keys : Out(r, d)')
    BY <1>9, <1>15, <2>1
  <2>6. \A r \in Requests : jobs'[r] = "pending" <=> \E d \in Keys : Out(r, d)'
    BY <2>4, <2>5
  <2> QED
    BY <2>6 DEF JobTracksRows, RowsOf, Out
<1>17. ResultIsTrue'
  <2> SUFFICES ASSUME NEW r \in Requests
               PROVE  /\ r.kind = "voip" =>
                           (result'[r] = "none" <=> jobs'[r] \in {"none", "pending"})
                      /\ result'[r] = "refused" => ~Sent(r, rows')
                      /\ result'[r] = "accepted" => Sent(r, rows') \/ RowsOf(r)' = {}
    BY DEF ResultIsTrue
  <2>1. CASE r = j
    BY <1>9, <2>1
  <2>2. CASE r # j
    <3>1. Sent(r, rows') <=> Sent(r, rows)
      BY <1>15, <2>2 DEF Sent, SentRow
    <3>2. RowsOf(r)' = RowsOf(r)
      BY <1>15, <2>2 DEF RowsOf
    <3> QED
      BY <1>9, <2>2, <3>1, <3>2 DEF IInv, TablesOK, ResultIsTrue
  <2> QED
    BY <2>1, <2>2
<1>18. Types'
  <2>1. tokens' \in [TokenIds -> TokenRows \cup {NoRow}]
    <3>1. CASE tokens' = tokens
      BY <3>1 DEF IInv, Types
    <3>2. CASE /\ tokens[t.key.token] # NoRow
               /\ tokens' = [tokens EXCEPT ![t.key.token].active = FALSE]
      <4>1. t.key.token \in TokenIds
        BY <1>a DEF Keys, k
      <4> DEFINE o == tokens[t.key.token]
      <4>2. o \in TokenRows
        BY <3>2, <4>1 DEF IInv, Types
      <4> HIDE DEF o
      <4>3. [o EXCEPT !.active = FALSE] \in TokenRows
        BY <4>2 DEF TokenRows
      <4>4. tokens' = [tokens EXCEPT ![t.key.token] = [o EXCEPT !.active = FALSE]]
        BY <3>2 DEF o
      <4> QED
        BY <4>3, <4>4 DEF IInv, Types
    <3> QED
      BY <3>1, <3>2 DEF CommitFinalize
  <2> QED
    BY <1>2, <2>1 DEF IInv, Types
<1>19. ClaimTypes' /\ JobLocksOK'
  BY <1>2 DEF IInv, LocksOK, ClaimTypes, JobLocksOK
<1>20. HeldOK'
  <2>1. \A l \in Loops : held[l] \subseteq Keys /\ k \notin held[l]
    BY <1>1 DEF IInv, LocksOK, ClaimTypes, HeldOK, k
  <2> QED
    BY <1>2, <1>4, <2>1 DEF IInv, LocksOK, HeldOK
<1>21. WrittenOK'
  <2> SUFFICES ASSUME NEW u \in tasks, u # t, u.phase = "written"
               PROVE  MayFinalize(u)' /\ (u.completes <=> Alone(u)')
    BY <1>2 DEF WrittenOK
  <2>1. u.job \in Requests /\ u.key \in Keys
    BY DEF IInv, LocksOK, ClaimTypes, Tasks
  <2>2. u.job # j
    BY <1>1 DEF IInv, LocksOK, JobLocksOK, j
  <2>3. MayFinalize(u) /\ (u.completes <=> Alone(u))
    BY DEF IInv, LocksOK, WrittenOK
  <2>4. u.key # k
    BY <1>5, <2>2, <2>3 DEF MayFinalize
  <2> QED
    BY <1>4, <1>15, <2>1, <2>2, <2>3, <2>4, WrittenStable
<1> QED
  BY <1>10, <1>11, <1>12, <1>13, <1>14, <1>16, <1>17, <1>18, <1>19, <1>20, <1>21
  DEF IInv, TablesOK, LocksOK

\* The row of an exhausted delivery, and of one that is claimed.
LEMMA RowUpdates ==
    ASSUME NEW x \in Deliveries
    PROVE  /\ [x EXCEPT !.status = "failed", !.due = FALSE] \in Deliveries
           /\ [x EXCEPT !.status = "failed", !.due = FALSE].job = x.job
           /\ [x EXCEPT !.status = "failed", !.due = FALSE].status = "failed"
           /\ [x EXCEPT !.status = "permanent", !.due = FALSE] \in Deliveries
           /\ [x EXCEPT !.status = "permanent", !.due = FALSE].job = x.job
           /\ [x EXCEPT !.status = "permanent", !.due = FALSE].status = "permanent"
           /\ x.attempt < MaxAttempts =>
                [x EXCEPT !.status = "claimed", !.due = FALSE, !.attempt = @ + 1]
                  \in Deliveries
           /\ [x EXCEPT !.status = "claimed", !.due = FALSE, !.attempt = @ + 1].job
                = x.job
           /\ [x EXCEPT !.status = "claimed", !.due = FALSE, !.attempt = @ + 1].status
                = "claimed"
<1>1. /\ [x EXCEPT !.status = "failed", !.due = FALSE] \in Deliveries
      /\ [x EXCEPT !.status = "failed", !.due = FALSE].job = x.job
      /\ [x EXCEPT !.status = "failed", !.due = FALSE].status = "failed"
  BY DEF Deliveries, Terminal
<1>2. /\ [x EXCEPT !.status = "permanent", !.due = FALSE] \in Deliveries
      /\ [x EXCEPT !.status = "permanent", !.due = FALSE].job = x.job
      /\ [x EXCEPT !.status = "permanent", !.due = FALSE].status = "permanent"
  BY DEF Deliveries, Terminal
<1>3. /\ x.attempt < MaxAttempts =>
           [x EXCEPT !.status = "claimed", !.due = FALSE, !.attempt = @ + 1]
             \in Deliveries
      /\ [x EXCEPT !.status = "claimed", !.due = FALSE, !.attempt = @ + 1].job = x.job
      /\ [x EXCEPT !.status = "claimed", !.due = FALSE, !.attempt = @ + 1].status
           = "claimed"
  <2>1. x.attempt \in 0 .. MaxAttempts
    BY DEF Deliveries
  <2>2. x.attempt < MaxAttempts => x.attempt + 1 \in 0 .. MaxAttempts
    BY <2>1
  <2> DEFINE n == x.attempt + 1
  <2>3. x.attempt < MaxAttempts => n \in 0 .. MaxAttempts
    BY <2>2
  <2> HIDE DEF n
  <2>4. /\ n \in 0 .. MaxAttempts =>
             [x EXCEPT !.status = "claimed", !.due = FALSE, !.attempt = n]
               \in Deliveries
        /\ [x EXCEPT !.status = "claimed", !.due = FALSE, !.attempt = n].job = x.job
        /\ [x EXCEPT !.status = "claimed", !.due = FALSE, !.attempt = n].status
             = "claimed"
    BY DEF Deliveries, Outstanding
  <2> QED
    BY <2>3, <2>4 DEF n
<1> QED
  BY <1>1, <1>2, <1>3

\* The rows that a claim may take.
ClaimSet(l) ==
    {d \in InTable(l.table) \ held[l] :
        /\ jobs[rows[d].job] = "pending"
        /\ AttemptsLeft(d)
        /\ Claimable(d)
        /\ ~RowLocked(d)}

DoneSet(l) ==
    {r \in {rows[d].job : d \in held[l]} : NoneOutstanding(r, Failed(held[l]))}

\* A claim commits: its exhausted rows have failed, their jobs are completed
\* where nothing else is outstanding, and the rows that are due have senders.
LEMMA ClaimBatchIInv ==
    ASSUME IInv, NEW l \in Loops, ClaimDeliveryBatch(l)
    PROVE  IInv'
<1> DEFINE E == held[l]
           S == ClaimSet(l)
           D == DoneSet(l)
           T == {Task(l, d) : d \in S}
<1>1. /\ CompleteJobs(D, Failed(E))
      /\ rows' = [d \in Keys |->
           IF d \in S THEN [rows[d] EXCEPT !.status = "claimed", !.due = FALSE,
                                           !.attempt = @ + 1]
                      ELSE Failed(E)[d]]
      /\ tasks' = tasks \cup T
      /\ held' = [held EXCEPT ![l] = {}]
      /\ \A d \in E : ~JobLocked(rows[d].job)
      /\ UNCHANGED <<tokens, recalled, expired, inbox, workload>>
  BY DEF ClaimDeliveryBatch, ClaimSet, DoneSet, requests
<1>2. /\ E \subseteq Keys
      /\ \A d \in E : rows[d] # NoRow /\ rows[d].status \in Outstanding
                      /\ rows[d].status # "sent"
  BY DEF IInv, LocksOK, ClaimTypes, HeldOK, Outstanding
<1>3. /\ S \subseteq Keys
      /\ \A d \in S : /\ rows[d] # NoRow /\ rows[d].status \in Outstanding
                      /\ rows[d].status # "sent" /\ d \notin E
                      /\ rows[d].attempt < MaxAttempts /\ ~RowLocked(d)
  BY DEF ClaimSet, InTable, AttemptsLeft, Claimable, Outstanding
<1>4. rows \in [Keys -> Deliveries \cup {NoRow}]
  BY DEF IInv, TablesOK, TableTypes
<1>5. ASSUME NEW d \in E
      PROVE  /\ Failed(E)[d] = [rows[d] EXCEPT !.status = "failed", !.due = FALSE]
             /\ rows'[d] = Failed(E)[d] /\ rows'[d] \in Deliveries
             /\ rows'[d].job = rows[d].job /\ rows'[d].status = "failed"
             /\ rows'[d] # NoRow
  <2>1. Failed(E)[d] = [rows[d] EXCEPT !.status = "failed", !.due = FALSE]
    BY <1>2 DEF Failed
  <2>2. rows'[d] = Failed(E)[d]
    BY <1>1, <1>2, <1>3
  <2> DEFINE x == rows[d]
  <2>3. x \in Deliveries /\ rows'[d] = [x EXCEPT !.status = "failed", !.due = FALSE]
    BY <1>2, <1>4, <2>1, <2>2
  <2> HIDE DEF x
  <2>4. /\ rows'[d] \in Deliveries /\ rows'[d].job = x.job
        /\ rows'[d].status = "failed"
    BY <2>3, RowUpdates
  <2> QED
    BY <2>1, <2>2, <2>4 DEF x
<1>6. ASSUME NEW d \in S
      PROVE  /\ Failed(E)[d] = rows[d] /\ rows'[d] \in Deliveries
             /\ rows'[d].job = rows[d].job /\ rows'[d].status = "claimed"
             /\ rows'[d] # NoRow
  <2>1. rows'[d] = [rows[d] EXCEPT !.status = "claimed", !.due = FALSE,
                                   !.attempt = @ + 1]
    BY <1>1, <1>3
  <2>2. Failed(E)[d] = rows[d]
    BY <1>3 DEF Failed
  <2> DEFINE x == rows[d]
  <2>3. /\ x \in Deliveries /\ x.attempt < MaxAttempts
        /\ rows'[d] = [x EXCEPT !.status = "claimed", !.due = FALSE, !.attempt = @ + 1]
    BY <1>3, <1>4, <2>1
  <2> HIDE DEF x
  <2>4. /\ rows'[d] \in Deliveries /\ rows'[d].job = x.job
        /\ rows'[d].status = "claimed"
    BY <2>3, RowUpdates
  <2> QED
    BY <2>2, <2>4 DEF x
<1>7. ASSUME NEW d \in Keys, d \notin E, d \notin S
      PROVE  rows'[d] = rows[d] /\ Failed(E)[d] = rows[d]
  BY <1>1, <1>7 DEF Failed
<1> HIDE DEF E, S, D, T
<1>8. \A d \in Keys : /\ rows'[d] = NoRow <=> rows[d] = NoRow
                      /\ rows[d] # NoRow => rows'[d].job = rows[d].job
  BY <1>2, <1>3, <1>5, <1>6, <1>7
<1>9. ASSUME NEW d \in Keys, NEW r
      PROVE  /\ Out(r, d)' <=> (Out(r, d) /\ d \notin E)
             /\ SentRow(r, d)' <=> SentRow(r, d)
             /\ d \in RowsOf(r)' <=> d \in RowsOf(r)
  <2>1. CASE d \in E
    BY <1>2, <1>5, <2>1 DEF Out, SentRow, RowsOf, Outstanding
  <2>2. CASE d \in S
    BY <1>3, <1>6, <2>2 DEF Out, SentRow, RowsOf, Outstanding
  <2>3. CASE d \notin E /\ d \notin S
    BY <1>7, <2>3 DEF Out, SentRow, RowsOf
  <2> QED
    BY <2>1, <2>2, <2>3
<1>10. ASSUME NEW r
       PROVE  /\ NoneOutstanding(r, Failed(E)) <=> \A d \in Keys : ~Out(r, d)'
              /\ Sent(r, Failed(E)) <=> Sent(r, rows')
  <2>1. ASSUME NEW d \in Keys
        PROVE  /\ (Failed(E)[d] # NoRow /\ Failed(E)[d].job = r
                   /\ Failed(E)[d].status \in Outstanding) <=> Out(r, d)'
               /\ (Failed(E)[d] # NoRow /\ Failed(E)[d].job = r
                   /\ Failed(E)[d].status = "sent") <=> SentRow(r, d)'
    <3>1. CASE d \in E
      BY <1>5, <3>1 DEF Out, SentRow
    <3>2. CASE d \in S
      BY <1>3, <1>6, <3>2 DEF Out, SentRow, Outstanding
    <3>3. CASE d \notin E /\ d \notin S
      BY <1>7, <3>3 DEF Out, SentRow
    <3> QED
      BY <3>1, <3>2, <3>3
  <2> QED
    BY <2>1 DEF NoneOutstanding, Sent, SentRow
<1>11. \A d \in E : rows[d].job \in Requests /\ jobs[rows[d].job] = "pending"
  BY <1>2, OutRow DEF IInv
<1>12. /\ D \subseteq Requests
       /\ \A r \in D : jobs[r] = "pending" /\ \A d \in Keys : ~Out(r, d)'
       /\ \A r \in Requests : (\E d \in E : rows[d].job = r)
                              /\ (\A d \in Keys : ~Out(r, d)') => r \in D
  BY <1>10, <1>11 DEF D, DoneSet, E
<1>13. /\ jobs' = [r \in Requests |-> IF r \in D THEN "completed" ELSE jobs[r]]
       /\ result' = [r \in Requests |->
                       IF r \in D /\ r.kind = "voip"
                       THEN IF Sent(r, rows') THEN "accepted" ELSE "refused"
                       ELSE result[r]]
  <2>1. {r \in D : jobs[r] = "pending"} = D
    BY <1>12
  <2> QED
    BY <1>1, <1>10, <2>1 DEF CompleteJobs
<1>14. ASSUME NEW r \in Requests
       PROVE  /\ jobs'[r] = IF r \in D THEN "completed" ELSE jobs[r]
              /\ result'[r] = IF r \in D /\ r.kind = "voip"
                       THEN IF Sent(r, rows') THEN "accepted" ELSE "refused"
                       ELSE result[r]
  BY <1>13
<1>15. TableTypes'
  <2>1. jobs' \in [Requests -> {"none", "pending", "completed", "deleted"}]
    BY <1>13 DEF IInv, TablesOK, TableTypes
  <2>2. result' \in [Requests -> {"none", "accepted", "refused"}]
    BY <1>13 DEF IInv, TablesOK, TableTypes
  <2>3. \A d \in Keys : rows'[d] \in Deliveries \cup {NoRow}
    BY <1>4, <1>5, <1>6, <1>7
  <2>4. rows' \in [Keys -> Deliveries \cup {NoRow}]
    BY <1>1, <2>3
  <2> QED
    BY <2>1, <2>2, <2>4 DEF TableTypes
<1>16. RowsOK'
  <2> SUFFICES ASSUME NEW d \in Keys, rows'[d] # NoRow
               PROVE  /\ rows'[d].job.kind = d.kind /\ rows'[d].job.subject = d.subject
                      /\ jobs'[rows'[d].job] \in {"pending", "completed"}
    BY DEF RowsOK
  <2>1. rows[d] # NoRow /\ rows'[d].job = rows[d].job
    BY <1>8
  <2>2. rows[d].job \in Requests
    BY <1>4, <2>1 DEF Deliveries
  <2> QED
    BY <1>14, <2>1, <2>2 DEF IInv, TablesOK, RowsOK
<1>17. FutureOK'
  <2>1. workload.requests \subseteq Requests
    BY DEF IInv, Types
  <2>2. \A r \in D : r \notin workload.requests
    BY <1>12 DEF IInv, TablesOK, FutureOK
  <2> QED
    BY <1>1, <1>14, <2>1, <2>2 DEF IInv, TablesOK, FutureOK
<1>18. RecallsOK' /\ ResultsOK'
  BY <1>1, <1>12, <1>14 DEF IInv, TablesOK, RecallsOK, ResultsOK
<1>19. RecallIsQuiet'
  <2> SUFFICES ASSUME NEW r \in Requests, r.kind = "message_recall", jobs'[r] # "none",
                      NEW d \in Keys, d.kind = "message", d.subject = r.subject,
                      rows'[d] # NoRow
               PROVE  rows'[d].status \in Terminal
    BY DEF RecallIsQuiet
  <2>1. jobs[r] # "none"
    BY <1>12, <1>14
  <2>2. d \notin S
    BY <1>3, <2>1, OutRow DEF IInv
  <2>3. CASE d \in E
    BY <1>5, <2>3 DEF Terminal
  <2>4. CASE d \notin E
    BY <1>7, <2>1, <2>2, <2>4 DEF IInv, TablesOK, RecallIsQuiet
  <2> QED
    BY <2>3, <2>4
<1>20. JobTracksRows'
  <2>1. \A r \in Requests : jobs[r] = "pending" <=> \E d \in Keys : Out(r, d)
    BY Rephrased DEF IInv, TablesOK
  <2>2. ASSUME NEW r \in Requests
        PROVE  jobs'[r] = "pending" <=> \E d \in Keys : Out(r, d)'
    <3>1. CASE r \in D
      BY <1>12, <1>14, <3>1
    <3>2. CASE r \notin D /\ \E d \in E : rows[d].job = r
      <4>1. jobs[r] = "pending"
        BY <1>11, <3>2
      <4> QED
        BY <1>12, <1>14, <3>2, <4>1
    <3>3. CASE r \notin D /\ ~\E d \in E : rows[d].job = r
      <4>1. \A d \in Keys : Out(r, d)' <=> Out(r, d)
        BY <1>9, <3>3 DEF Out
      <4> QED
        BY <1>14, <2>1, <3>3, <4>1
    <3> QED
      BY <3>1, <3>2, <3>3
  <2> QED
    BY <2>2 DEF JobTracksRows, RowsOf, Out
<1>21. ResultIsTrue'
  <2> SUFFICES ASSUME NEW r \in Requests
               PROVE  /\ r.kind = "voip" =>
                           (result'[r] = "none" <=> jobs'[r] \in {"none", "pending"})
                      /\ result'[r] = "refused" => ~Sent(r, rows')
                      /\ result'[r] = "accepted" => Sent(r, rows') \/ RowsOf(r)' = {}
    BY DEF ResultIsTrue
  <2>1. Sent(r, rows') <=> Sent(r, rows)
    BY <1>9 DEF Sent, SentRow
  <2>2. RowsOf(r)' = RowsOf(r)
    BY <1>9 DEF RowsOf
  <2>3. CASE r \in D
    <3>1. r.kind # "voip" => result[r] = "none"
      BY DEF IInv, TablesOK, ResultsOK
    <3> QED
      BY <1>14, <2>3, <3>1
  <2>4. CASE r \notin D
    BY <1>14, <2>1, <2>2, <2>4 DEF IInv, TablesOK, ResultIsTrue
  <2> QED
    BY <2>3, <2>4
<1>22. Types'
  BY <1>1 DEF IInv, Types
<1>23. T \subseteq Tasks /\ \A t \in T : t.phase = "claimed"
  <2> SUFFICES ASSUME NEW d \in S
               PROVE  Task(l, d) \in Tasks /\ Task(l, d).phase = "claimed"
    BY DEF T
  <2>1. d \in Keys /\ rows[d] \in Deliveries /\ rows[d].attempt < MaxAttempts
    BY <1>3, <1>4
  <2>2. /\ rows[d].job \in Requests /\ rows[d].attempt + 1 \in 1 .. MaxAttempts
    BY <2>1 DEF Deliveries
  <2>3. (tokens[d.token] # NoRow /\ tokens[d.token].active) \in BOOLEAN
    BY <2>1 DEF IInv, Types, TokenRows, Keys
  <2> QED
    BY <2>1, <2>2, <2>3 DEF Task, Tasks, Outcomes
<1>24. ClaimTypes' /\ JobLocksOK'
  BY <1>1, <1>23 DEF IInv, LocksOK, ClaimTypes, JobLocksOK
<1>25. HeldOK'
  <2>1. \A k \in Loops : held'[k] = IF k = l THEN {} ELSE held[k]
    BY <1>1 DEF IInv, LocksOK, ClaimTypes
  <2>2. ASSUME NEW k \in Loops, NEW d \in held'[k]
        PROVE  /\ rows'[d] # NoRow /\ rows'[d].status \in {"claimed", "retryable"}
               /\ \A t \in tasks' : t.phase = "written" => t.key # d
    <3>1. k # l /\ d \in held[k] /\ d \in Keys
      BY <2>1, <2>2 DEF IInv, LocksOK, ClaimTypes
    <3>2. d \notin E /\ d \notin S
      BY <1>3, <3>1 DEF IInv, LocksOK, HeldOK, RowLocked, E
    <3> QED
      BY <1>1, <1>7, <1>23, <3>1, <3>2 DEF IInv, LocksOK, HeldOK
  <2>3. ASSUME NEW j \in Loops, NEW k \in Loops, held'[j] \cap held'[k] # {}
        PROVE  j = k
    BY <2>1, <2>3 DEF IInv, LocksOK, HeldOK
  <2> QED
    BY <2>2, <2>3 DEF HeldOK
<1>26. WrittenOK'
  <2> SUFFICES ASSUME NEW t \in tasks, t.phase = "written"
               PROVE  MayFinalize(t)' /\ (t.completes <=> Alone(t)')
    BY <1>1, <1>23 DEF WrittenOK
  <2>1. t.key \in Keys /\ t.key \notin E /\ t.key \notin S
    BY <1>3 DEF IInv, LocksOK, ClaimTypes, HeldOK, Tasks, RowLocked, E
  <2>2. MayFinalize(t) /\ (t.completes <=> Alone(t))
    BY DEF IInv, LocksOK, WrittenOK
  <2>3. \A d \in E : rows[d].job # t.job
    BY <1>1 DEF JobLocked
  <2>4. \A d \in Keys : Out(t.job, d)' <=> Out(t.job, d)
    BY <1>9, <2>3 DEF Out
  <2> QED
    BY <1>7, <2>1, <2>2, <2>4, WrittenStable
<1> QED
  BY <1>15, <1>16, <1>17, <1>18, <1>19, <1>20, <1>21, <1>22, <1>24, <1>25, <1>26
  DEF IInv, TablesOK, LocksOK

\* A new job r with the rows F, which cancels the rows C and ends their jobs J.
NewJob(r, F, C, J) ==
    /\ F \subseteq Keys
    /\ \A d \in F : d.kind = r.kind /\ d.subject = r.subject /\ rows[d] = NoRow
    /\ C \subseteq Keys
    /\ \A d \in C : /\ rows[d] # NoRow /\ rows[d].status \in Outstanding
                    /\ rows[d].job \in J /\ ~RowLocked(d)
    /\ J \subseteq Requests /\ r \notin J
    /\ \A q \in J : /\ q.kind = "message" /\ jobs[q] \in {"pending", "completed"}
                    /\ ~JobLocked(q)
                    /\ \A d \in Keys : Out(q, d) => d \in C
    /\ r.kind = "message" => r.subject \notin recalled
    /\ r.kind = "message_recall" =>
         /\ r.subject \in recalled
         /\ \A d \in Keys : /\ d.kind = "message" /\ d.subject = r.subject
                            /\ rows[d] # NoRow /\ rows[d].status \in Outstanding
                            => d \in C
    /\ rows' = [d \in Keys |->
         IF d \in C THEN [rows[d] EXCEPT !.status = "permanent", !.due = FALSE]
         ELSE IF d \in F THEN Row(r) ELSE rows[d]]
    /\ jobs' = [q \in Requests |->
         IF q = r THEN IF F = {} THEN "completed" ELSE "pending"
         ELSE IF q \in J THEN "completed" ELSE jobs[q]]
    /\ result' = [q \in Requests |->
         IF q = r /\ r.kind = "voip" /\ F = {} THEN "refused" ELSE result[q]]

\* The row of a new delivery.
LEMMA NewRow ==
    ASSUME NEW r \in Requests
    PROVE  Row(r) \in Deliveries /\ Row(r).job = r /\ Row(r).status = "pending"
<1>1. 0 \in 0 .. MaxAttempts
  OBVIOUS
<1> QED
  BY <1>1 DEF Row, Deliveries, Outstanding

\* A request is committed with its job, rows and cancellations.
LEMMA NewJobIInv ==
    ASSUME IInv, NEW r \in Requests, Accept(r),
           NEW F, NEW C, NEW J, NewJob(r, F, C, J)
    PROVE  IInv'
<1> USE DEF NewJob
<1>1. /\ r \in workload.requests /\ workload.requests \subseteq Requests
      /\ workload' \in [requests : SUBSET Requests, commands : SUBSET Commands,
                        faults : Nat]
      /\ workload'.requests = workload.requests \ {r}
      /\ inbox' = inbox \cup {r}
      /\ UNCHANGED <<tokens, recalled, expired, tasks, held>>
  BY DEF Accept, IInv, Types
<1>2. rows \in [Keys -> Deliveries \cup {NoRow}]
  BY DEF IInv, TablesOK, TableTypes
<1>3. /\ jobs[r] = "none" /\ result[r] = "none"
      /\ \A d \in Keys : rows[d] # NoRow => rows[d].job # r
  <2>1. jobs[r] = "none"
    BY <1>1 DEF IInv, TablesOK, FutureOK
  <2>2. result[r] = "none"
    BY <2>1 DEF IInv, TablesOK, ResultIsTrue, ResultsOK
  <2>3. \A d \in Keys : rows[d] # NoRow => rows[d].job # r
    BY <2>1 DEF IInv, TablesOK, RowsOK
  <2> QED
    BY <2>1, <2>2, <2>3
<1>4. ASSUME NEW d \in C
      PROVE  /\ rows'[d] \in Deliveries /\ rows'[d].job = rows[d].job
             /\ rows'[d].status = "permanent" /\ rows'[d] # NoRow
  <2> DEFINE x == rows[d]
  <2>1. /\ x \in Deliveries
        /\ rows'[d] = [x EXCEPT !.status = "permanent", !.due = FALSE]
    BY <1>2
  <2> HIDE DEF x
  <2>2. rows'[d] \in Deliveries /\ rows'[d].job = x.job /\ rows'[d].status = "permanent"
    BY ZenonT(90), <2>1, RowUpdates
  <2> QED
    BY <2>2 DEF x
<1>5. ASSUME NEW d \in F
      PROVE  /\ rows'[d] \in Deliveries /\ rows'[d].job = r
             /\ rows'[d].status = "pending" /\ rows'[d] # NoRow /\ d \notin C
  <2>1. rows'[d] = Row(r) /\ d \notin C
    OBVIOUS
  <2>2. Row(r) \in Deliveries /\ Row(r).job = r /\ Row(r).status = "pending"
    BY NewRow
  <2> QED
    BY <2>1, <2>2
<1>6. ASSUME NEW d \in Keys, d \notin C, d \notin F
      PROVE  rows'[d] = rows[d]
  BY <1>6
<1>7. ASSUME NEW q \in Requests
      PROVE  /\ jobs'[q] = IF q = r THEN IF F = {} THEN "completed" ELSE "pending"
                           ELSE IF q \in J THEN "completed" ELSE jobs[q]
             /\ result'[q] = IF q = r /\ r.kind = "voip" /\ F = {} THEN "refused"
                             ELSE result[q]
  OBVIOUS
<1>8. TableTypes'
  <2>1. jobs' \in [Requests -> {"none", "pending", "completed", "deleted"}]
    BY DEF IInv, TablesOK, TableTypes
  <2>2. result' \in [Requests -> {"none", "accepted", "refused"}]
    BY DEF IInv, TablesOK, TableTypes
  <2>3. \A d \in Keys : rows'[d] \in Deliveries \cup {NoRow}
    BY <1>2, <1>4, <1>5, <1>6
  <2>4. rows' \in [Keys -> Deliveries \cup {NoRow}]
    BY <2>3
  <2> QED
    BY <2>1, <2>2, <2>4 DEF TableTypes
<1>9. /\ F \subseteq Keys /\ C \subseteq Keys /\ J \subseteq Requests /\ r \notin J
      /\ \A d \in F : d.kind = r.kind /\ d.subject = r.subject /\ rows[d] = NoRow
      /\ \A d \in C : /\ rows[d] # NoRow /\ rows[d].status \in Outstanding
                      /\ rows[d].job \in J /\ ~RowLocked(d)
      /\ \A q \in J : /\ q.kind = "message" /\ jobs[q] \in {"pending", "completed"}
                      /\ ~JobLocked(q)
                      /\ \A d \in Keys : Out(q, d) => d \in C
      /\ r.kind = "message" => r.subject \notin recalled
      /\ r.kind = "message_recall" =>
           /\ r.subject \in recalled
           /\ \A d \in Keys : /\ d.kind = "message" /\ d.subject = r.subject
                              /\ rows[d] # NoRow /\ rows[d].status \in Outstanding
                              => d \in C
  OBVIOUS
<1> HIDE DEF NewJob
<1>10. ASSUME NEW d \in Keys, NEW q, q # r
       PROVE  /\ Out(q, d)' <=> (Out(q, d) /\ d \notin C)
              /\ SentRow(q, d)' <=> SentRow(q, d)
              /\ d \in RowsOf(q)' <=> d \in RowsOf(q)
  <2>1. CASE d \in C
    BY <1>4, <1>9, <2>1 DEF Out, SentRow, RowsOf, Outstanding
  <2>2. CASE d \in F
    BY <1>5, <1>9, <1>10, <2>2 DEF Out, SentRow, RowsOf
  <2>3. CASE d \notin C /\ d \notin F
    BY <1>6, <2>3 DEF Out, SentRow, RowsOf
  <2> QED
    BY <2>1, <2>2, <2>3
<1>11. ASSUME NEW d \in Keys
       PROVE  /\ Out(r, d)' <=> d \in F
              /\ d \in RowsOf(r)' <=> d \in F
  <2>1. CASE d \in C
    BY <1>3, <1>4, <1>5, <1>9, <2>1 DEF Out, RowsOf
  <2>2. CASE d \in F
    BY <1>5, <2>2 DEF Out, RowsOf, Outstanding
  <2>3. CASE d \notin C /\ d \notin F
    BY <1>3, <1>6, <2>3 DEF Out, RowsOf
  <2> QED
    BY <2>1, <2>2, <2>3
<1>12. RowsOK'
  <2> SUFFICES ASSUME NEW d \in Keys, rows'[d] # NoRow
               PROVE  /\ rows'[d].job.kind = d.kind /\ rows'[d].job.subject = d.subject
                      /\ jobs'[rows'[d].job] \in {"pending", "completed"}
    BY DEF RowsOK
  <2>1. CASE d \in F
    BY <1>5, <1>7, <1>9, <2>1
  <2>2. CASE d \notin F
    <3>1. rows[d] # NoRow /\ rows'[d].job = rows[d].job
      BY <1>4, <1>6, <1>9, <2>2
    <3>2. rows[d].job \in Requests /\ rows[d].job # r
      BY <1>2, <1>3, <3>1 DEF Deliveries
    <3> QED
      BY <1>7, <3>1, <3>2 DEF IInv, TablesOK, RowsOK
  <2> QED
    BY <2>1, <2>2
<1>13. FutureOK'
  <2>1. \A q \in J : q \notin workload.requests
    BY <1>9 DEF IInv, TablesOK, FutureOK
  <2> QED
    BY <1>1, <1>7, <2>1 DEF IInv, TablesOK, FutureOK
<1>14. RecallsOK' /\ ResultsOK'
  BY <1>1, <1>7, <1>9 DEF IInv, TablesOK, RecallsOK, ResultsOK
<1>15. RecallIsQuiet'
  <2> SUFFICES ASSUME NEW q \in Requests, q.kind = "message_recall", jobs'[q] # "none",
                      NEW d \in Keys, d.kind = "message", d.subject = q.subject,
                      rows'[d] # NoRow
               PROVE  rows'[d].status \in Terminal
    BY DEF RecallIsQuiet
  <2>1. CASE d \in C
    BY <1>4, <2>1 DEF Terminal
  <2>2. CASE d \in F
    <3>1. r.kind = "message" /\ r.subject = q.subject /\ q # r
      BY <1>9, <2>2
    <3>2. jobs[q] # "none"
      BY <1>7, <1>9, <3>1
    <3> QED
      BY <1>9, <3>1, <3>2 DEF IInv, TablesOK, RecallsOK
  <2>3. CASE d \notin C /\ d \notin F
    <3>1. rows'[d] = rows[d]
      BY <1>6, <2>3
    <3>2. CASE q = r
      <4>1. rows[d].status \notin Outstanding
        BY <1>9, <2>3, <3>1, <3>2
      <4>2. rows[d].status \in Outstanding \cup Terminal
        BY <1>2, <3>1 DEF Deliveries
      <4> QED
        BY <3>1, <4>1, <4>2
    <3>3. CASE q # r
      BY <1>7, <1>9, <3>1, <3>3 DEF IInv, TablesOK, RecallIsQuiet
    <3> QED
      BY <3>2, <3>3
  <2> QED
    BY <2>1, <2>2, <2>3
<1>16. JobTracksRows'
  <2>1. \A q \in Requests : jobs[q] = "pending" <=> \E d \in Keys : Out(q, d)
    BY Rephrased DEF IInv, TablesOK
  <2>2. ASSUME NEW q \in Requests
        PROVE  jobs'[q] = "pending" <=> \E d \in Keys : Out(q, d)'
    <3>1. CASE q = r
      BY <1>7, <1>9, <1>11, <3>1
    <3>2. CASE q \in J
      BY <1>7, <1>9, <1>10, <3>2
    <3>3. CASE q # r /\ q \notin J
      <4>1. \A d \in Keys : Out(q, d)' <=> Out(q, d)
        BY <1>9, <1>10, <3>3 DEF Out
      <4> QED
        BY <1>7, <2>1, <3>3, <4>1
    <3> QED
      BY <3>1, <3>2, <3>3
  <2> QED
    BY <2>2 DEF JobTracksRows, RowsOf, Out
<1>17. ResultIsTrue'
  <2> SUFFICES ASSUME NEW q \in Requests
               PROVE  /\ q.kind = "voip" =>
                           (result'[q] = "none" <=> jobs'[q] \in {"none", "pending"})
                      /\ result'[q] = "refused" => ~Sent(q, rows')
                      /\ result'[q] = "accepted" => Sent(q, rows') \/ RowsOf(q)' = {}
    BY DEF ResultIsTrue
  <2>1. CASE q = r
    <3>1. F = {} => ~Sent(r, rows')
      BY <1>11 DEF Sent, RowsOf
    <3> QED
      BY <1>3, <1>7, <2>1, <3>1
  <2>2. CASE q # r
    <3>1. Sent(q, rows') <=> Sent(q, rows)
      BY <1>10, <2>2 DEF Sent, SentRow
    <3>2. RowsOf(q)' = RowsOf(q)
      BY <1>10, <2>2 DEF RowsOf
    <3>3. result'[q] = result[q] /\ (q.kind = "voip" => jobs'[q] = jobs[q])
      BY <1>7, <1>9, <2>2
    <3> QED
      BY <3>1, <3>2, <3>3 DEF IInv, TablesOK, ResultIsTrue
  <2> QED
    BY <2>1, <2>2
<1>18. Types'
  BY <1>1 DEF IInv, Types
<1>19. ClaimTypes' /\ JobLocksOK'
  BY <1>1 DEF IInv, LocksOK, ClaimTypes, JobLocksOK
<1>20. HeldOK'
  <2>1. \A l \in Loops : \A d \in held[l] :
          d \in Keys /\ d \notin C /\ d \notin F
    BY <1>9 DEF IInv, LocksOK, ClaimTypes, HeldOK, RowLocked
  <2> QED
    BY <1>1, <1>6, <2>1 DEF IInv, LocksOK, HeldOK
<1>21. WrittenOK'
  <2> SUFFICES ASSUME NEW t \in tasks, t.phase = "written"
               PROVE  MayFinalize(t)' /\ (t.completes <=> Alone(t)')
    BY <1>1 DEF WrittenOK
  <2>1. MayFinalize(t) /\ (t.completes <=> Alone(t))
    BY DEF IInv, LocksOK, WrittenOK
  <2>2. t.key \in Keys /\ t.key \notin C /\ t.key \notin F /\ t.job # r
    BY <1>3, <1>9, <2>1 DEF IInv, LocksOK, ClaimTypes, Tasks, RowLocked, MayFinalize
  <2>3. \A d \in C : rows[d].job # t.job
    BY <1>9 DEF JobLocked
  <2>4. \A d \in Keys : Out(t.job, d)' <=> Out(t.job, d)
    BY <1>10, <2>2, <2>3 DEF Out
  <2> QED
    BY <1>6, <2>1, <2>2, <2>4, WrittenStable
<1> QED
  BY <1>8, <1>12, <1>13, <1>14, <1>15, <1>16, <1>17, <1>18, <1>19, <1>20, <1>21
  DEF IInv, TablesOK, LocksOK

\* A request that changes no job is committed.
LEMMA NoJobIInv ==
    ASSUME IInv, NEW r \in Requests, Accept(r), UNCHANGED <<jobs, rows, result>>
    PROVE  IInv'
<1>1. /\ workload' \in [requests : SUBSET Requests, commands : SUBSET Commands,
                        faults : Nat]
      /\ workload'.requests \subseteq workload.requests
      /\ inbox' = inbox \cup {r}
      /\ UNCHANGED <<tokens, recalled, expired, tasks, held>>
  BY DEF Accept, IInv, Types
<1>2. Types'
  BY <1>1 DEF IInv, Types
<1>3. TablesOK'
  BY <1>1, TablesKept DEF IInv
<1>4. LocksOK'
  BY <1>1, LocksDropped DEF IInv, LocksOK, ClaimTypes
<1> QED
  BY <1>2, <1>3, <1>4 DEF IInv

\* A message, a recall or a call is enqueued.
LEMMA EnqueueIInv ==
    ASSUME IInv, NEW r \in Requests, EnqueueRequest(r)
    PROVE  IInv'
<1>1. Accept(r)
  BY DEF EnqueueRequest, PersistMessageJob, PersistMessageRecallJob, PersistVoIPJob
<1>2. CASE UNCHANGED <<jobs, rows, result>>
  BY <1>1, <1>2, NoJobIInv
<1>3. /\ FanOut(r) \subseteq Keys
      /\ \A d \in FanOut(r) : /\ d.kind = r.kind /\ d.subject = r.subject
                              /\ r.kind # "message_recall" => rows[d] = NoRow
  BY DEF FanOut
<1>4. result \in [Requests -> {"none", "accepted", "refused"}]
      /\ jobs \in [Requests -> {"none", "pending", "completed", "deleted"}]
      /\ rows \in [Keys -> Deliveries \cup {NoRow}]
  BY DEF IInv, TablesOK, TableTypes
<1>5. CASE PersistMessageJob(r) /\ ~UNCHANGED <<jobs, rows, result>>
  <2>1. /\ r.kind = "message" /\ r.subject \notin recalled
        /\ CreateJob(r)
        /\ rows' = [d \in Keys |-> IF d \in FanOut(r) THEN Row(r) ELSE rows[d]]
        /\ UNCHANGED result
    BY <1>5 DEF PersistMessageJob
  <2>2. NewJob(r, FanOut(r), {}, {})
    BY <1>3, <1>4, <2>1 DEF NewJob, CreateJob
  <2> QED
    BY <1>1, <2>2, NewJobIInv
<1>6. CASE PersistVoIPJob(r)
  <2>1. CASE r.subject \in expired \/ FanOut(r) = {}
    <3>1. /\ r.kind = "voip"
          /\ jobs' = [jobs EXCEPT ![r] = "completed"]
          /\ result' = [result EXCEPT ![r] = "refused"]
          /\ UNCHANGED rows
      BY <1>6, <2>1 DEF PersistVoIPJob
    <3>2. NewJob(r, {}, {}, {})
      BY <1>4, <3>1 DEF NewJob
    <3> QED
      BY <1>1, <3>2, NewJobIInv
  <2>2. CASE ~(r.subject \in expired \/ FanOut(r) = {})
    <3>1. /\ r.kind = "voip" /\ FanOut(r) # {}
          /\ CreateJob(r)
          /\ rows' = [d \in Keys |-> IF d \in FanOut(r) THEN Row(r) ELSE rows[d]]
          /\ UNCHANGED result
      BY <1>6, <2>2 DEF PersistVoIPJob
    <3>2. NewJob(r, FanOut(r), {}, {})
      BY <1>3, <1>4, <3>1 DEF NewJob, CreateJob
    <3> QED
      BY <1>1, <3>2, NewJobIInv
  <2> QED
    BY <2>1, <2>2
<1>7. CASE PersistMessageRecallJob(r) /\ ~UNCHANGED <<jobs, rows, result>>
  <2> DEFINE C == Cancelled(r)
             J == CancelledJobs(r)
             F == FanOut(r)
  <2>1. /\ r.kind = "message_recall" /\ r.subject \in recalled
        /\ ~\E q \in Requests : /\ q.kind = r.kind /\ q.subject = r.subject
                                /\ jobs[q] \in {"pending", "completed"}
        /\ \A d \in C : ~RowLocked(d)
        /\ \A q \in J : ~JobLocked(q)
        /\ rows' = [d \in Keys |->
             IF d \in C THEN [rows[d] EXCEPT !.status = "permanent", !.due = FALSE]
             ELSE IF d \in F THEN Row(r) ELSE rows[d]]
        /\ jobs' = [q \in Requests |->
             IF q = r THEN IF F = {} THEN "completed" ELSE "pending"
             ELSE IF q \in J THEN "completed" ELSE jobs[q]]
        /\ UNCHANGED result
    BY <1>7 DEF PersistMessageRecallJob
  <2>2. \A d \in Keys : rows[d] # NoRow =>
          /\ rows[d].job \in Requests
          /\ rows[d].job.kind = d.kind /\ rows[d].job.subject = d.subject
          /\ jobs[rows[d].job] \in {"pending", "completed"}
    BY <1>4 DEF IInv, TablesOK, RowsOK, Deliveries
  <2>3. \A d \in F : rows[d] = NoRow
    BY <1>3, <2>1, <2>2
  <2>4. /\ C \subseteq Keys
        /\ \A d \in C : /\ rows[d] # NoRow /\ rows[d].status \in Outstanding
                        /\ rows[d].job \in J
    BY <2>2 DEF Cancelled, CancelledJobs
  <2>5. J \subseteq Requests /\ \A q \in J : q.kind = "message"
    BY DEF CancelledJobs
  <2>6. ASSUME NEW q \in J
        PROVE  /\ jobs[q] \in {"pending", "completed"}
               /\ \A d \in Keys : Out(q, d) => d \in C
    <3>1. PICK k \in Keys : rows[k] # NoRow /\ rows[k].job = q /\ k.kind = "message"
                            /\ k.subject = r.subject
      BY DEF CancelledJobs
    <3>2. q.subject = r.subject /\ jobs[q] \in {"pending", "completed"}
      BY <2>2, <3>1
    <3> QED
      BY <2>2, <2>5, <3>2 DEF Out, Cancelled
  <2>7. \A d \in Keys : /\ d.kind = "message" /\ d.subject = r.subject
                        /\ rows[d] # NoRow /\ rows[d].status \in Outstanding
                        => d \in C
    BY DEF Cancelled
  <2> HIDE DEF C, J, F
  <2>8. result' = [q \in Requests |->
          IF q = r /\ r.kind = "voip" /\ F = {} THEN "refused" ELSE result[q]]
    BY <1>4, <2>1
  <2>9. F \subseteq Keys /\ \A d \in F : d.kind = r.kind /\ d.subject = r.subject
    BY <1>3 DEF F
  <2>10. NewJob(r, F, C, J)
    BY <2>1, <2>3, <2>4, <2>5, <2>6, <2>7, <2>8, <2>9 DEF NewJob
  <2> QED
    BY <1>1, <2>10, NewJobIInv
<1> QED
  BY <1>2, <1>5, <1>6, <1>7 DEF EnqueueRequest

\* Retention deletes the rows of a completed job, or the job.
LEMMA CleanupIInv ==
    ASSUME IInv, NEW r \in Requests, CleanupCompletedDeliveries(r)
    PROVE  IInv'
<1>1. /\ jobs[r] = "completed" /\ PastRetention(r)
      /\ UNCHANGED <<tokens, recalled, expired, inbox, workload, tasks, held, result>>
  BY DEF CleanupCompletedDeliveries, requests
<1>2. rows \in [Keys -> Deliveries \cup {NoRow}]
      /\ jobs \in [Requests -> {"none", "pending", "completed", "deleted"}]
  BY DEF IInv, TablesOK, TableTypes
<1>3. Types'
  BY <1>1 DEF IInv, Types
<1>4. CASE RowsOf(r) = {}
  <2>1. jobs' = [jobs EXCEPT ![r] = "deleted"] /\ UNCHANGED rows
    BY <1>4 DEF CleanupCompletedDeliveries
  <2>2. jobs'[r] = "deleted" /\ \A q \in Requests : q # r => jobs'[q] = jobs[q]
    BY <1>2, <2>1
  <2>3. TableTypes'
    BY <1>1, <2>1 DEF IInv, TablesOK, TableTypes
  <2>4. RowsOK'
    <3> SUFFICES ASSUME NEW d \in Keys, rows[d] # NoRow
                 PROVE  /\ rows[d].job.kind = d.kind /\ rows[d].job.subject = d.subject
                        /\ jobs'[rows[d].job] \in {"pending", "completed"}
      BY <2>1 DEF RowsOK
    <3>1. rows[d].job \in Requests /\ rows[d].job # r
      BY <1>2, <1>4 DEF Deliveries, RowsOf
    <3> QED
      BY <2>2, <3>1 DEF IInv, TablesOK, RowsOK
  <2>5. FutureOK'
    <3>1. workload.requests \subseteq Requests
      BY DEF IInv, Types
    <3> QED
      BY <1>1, <2>2, <3>1 DEF IInv, TablesOK, FutureOK, PastRetention
  <2>6. RecallsOK' /\ ResultsOK'
    BY <1>1, <2>2 DEF IInv, TablesOK, RecallsOK, ResultsOK
  <2>7. RecallIsQuiet'
    BY <1>1, <2>1, <2>2 DEF IInv, TablesOK, RecallIsQuiet
  <2>8. JobTracksRows'
    BY <1>1, <2>1, <2>2 DEF IInv, TablesOK, JobTracksRows, RowsOf
  <2>9. ResultIsTrue'
    BY <1>1, <2>1, <2>2 DEF IInv, TablesOK, ResultIsTrue, RowsOf, Sent
  <2>10. LocksOK'
    BY <1>1, <2>1, LocksDropped DEF IInv, LocksOK, ClaimTypes
  <2> QED
    BY <1>3, <2>3, <2>4, <2>5, <2>6, <2>7, <2>8, <2>9, <2>10 DEF IInv, TablesOK
<1>5. CASE RowsOf(r) # {}
  <2>1. /\ rows' = [d \in Keys |-> IF d \in RowsOf(r) THEN NoRow ELSE rows[d]]
        /\ UNCHANGED jobs
    BY <1>5 DEF CleanupCompletedDeliveries
  <2>2. \A d \in Keys : ~Out(r, d)
    BY <1>1 DEF IInv, TablesOK, JobTracksRows, RowsOf, Out
  <2>3. \A d \in Keys : /\ d \in RowsOf(r) => rows'[d] = NoRow
                        /\ d \notin RowsOf(r) => rows'[d] = rows[d]
    BY <2>1
  <2>4. TableTypes'
    BY <1>1, <2>1 DEF IInv, TablesOK, TableTypes
  <2>5. RowsOK' /\ FutureOK' /\ RecallsOK' /\ ResultsOK' /\ RecallIsQuiet'
    BY <1>1, <2>1, <2>3 DEF IInv, TablesOK, RowsOK, FutureOK, RecallsOK, ResultsOK,
                            RecallIsQuiet
  <2>6. ASSUME NEW d \in Keys, NEW q
        PROVE  /\ Out(q, d)' <=> Out(q, d)
               /\ q # r => (SentRow(q, d)' <=> SentRow(q, d))
               /\ q # r => (d \in RowsOf(q)' <=> d \in RowsOf(q))
    <3>1. CASE d \in RowsOf(r)
      BY <2>2, <2>3, <3>1 DEF Out, SentRow, RowsOf
    <3>2. CASE d \notin RowsOf(r)
      BY <2>3, <3>2 DEF Out, SentRow, RowsOf
    <3> QED
      BY <3>1, <3>2
  <2>7. JobTracksRows'
    <3>1. \A q \in Requests : jobs[q] = "pending" <=> \E d \in Keys : Out(q, d)
      BY Rephrased DEF IInv, TablesOK
    <3>2. \A q \in Requests : jobs'[q] = "pending" <=> \E d \in Keys : Out(q, d)'
      BY <2>1, <2>6, <3>1
    <3> QED
      BY <3>2 DEF JobTracksRows, RowsOf, Out
  <2>8. ResultIsTrue'
    <3> SUFFICES ASSUME NEW q \in Requests
                 PROVE  /\ q.kind = "voip" =>
                             (result'[q] = "none" <=> jobs'[q] \in {"none", "pending"})
                        /\ result'[q] = "refused" => ~Sent(q, rows')
                        /\ result'[q] = "accepted" => Sent(q, rows') \/ RowsOf(q)' = {}
      BY DEF ResultIsTrue
    <3>1. CASE q = r
      <4>1. RowsOf(r)' = {}
        BY <2>3 DEF RowsOf
      <4>2. ~Sent(r, rows')
        BY <4>1 DEF Sent, RowsOf
      <4> QED
        BY <1>1, <2>1, <3>1, <4>1, <4>2 DEF IInv, TablesOK, ResultIsTrue
    <3>2. CASE q # r
      <4>1. Sent(q, rows') <=> Sent(q, rows)
        BY <2>6, <3>2 DEF Sent, SentRow
      <4>2. RowsOf(q)' = RowsOf(q)
        BY <2>6, <3>2 DEF RowsOf
      <4> QED
        BY <1>1, <2>1, <4>1, <4>2 DEF IInv, TablesOK, ResultIsTrue
    <3> QED
      BY <3>1, <3>2
  <2>9. ClaimTypes' /\ JobLocksOK'
    BY <1>1 DEF IInv, LocksOK, ClaimTypes, JobLocksOK
  <2>10. HeldOK'
    <3>1. \A l \in Loops : \A d \in held[l] : d \in Keys /\ d \notin RowsOf(r)
      BY <2>2 DEF IInv, LocksOK, ClaimTypes, HeldOK, Out, RowsOf, Outstanding
    <3> QED
      BY <1>1, <2>3, <3>1 DEF IInv, LocksOK, HeldOK
  <2>11. WrittenOK'
    <3> SUFFICES ASSUME NEW t \in tasks, t.phase = "written"
                 PROVE  MayFinalize(t)' /\ (t.completes <=> Alone(t)')
      BY <1>1 DEF WrittenOK
    <3>1. MayFinalize(t) /\ (t.completes <=> Alone(t))
      BY DEF IInv, LocksOK, WrittenOK
    <3>2. t.key \in Keys /\ t.key \notin RowsOf(r)
      BY <1>1, <3>1 DEF IInv, LocksOK, ClaimTypes, Tasks, MayFinalize, RowsOf,
                        PastRetention
    <3> QED
      BY <2>3, <2>6, <3>1, <3>2, WrittenStable
  <2> QED
    BY <1>3, <2>4, <2>5, <2>7, <2>8, <2>9, <2>10, <2>11 DEF IInv, TablesOK, LocksOK
<1> QED
  BY <1>4, <1>5

-----------------------------------------------------------------------------
(* The specification.                                                      *)

\* Every step keeps the invariant.
LEMMA NextIInv == IInv /\ [Next]_vars => IInv'
<1> SUFFICES ASSUME IInv, [Next]_vars PROVE IInv'
  OBVIOUS
<1>1. ASSUME NEW r \in Requests, EnqueueRequest(r) \/ CleanupCompletedDeliveries(r)
      PROVE  IInv'
  BY <1>1, EnqueueIInv, CleanupIInv
<1>2. ASSUME NEW c \in workload.commands, PersistClientCommand(c)
      PROVE  IInv'
  BY <1>2, CommandIInv
<1>3. ASSUME NEW l \in Loops, Claim(l) \/ ClaimFails(l)
      PROVE  IInv'
  BY <1>3, ExpireIInv, ClaimBatchIInv, FaultIInv DEF Claim
<1>4. ASSUME NEW t \in tasks, SendDurableDelivery(t) \/ Finalize(t) \/ FinalizeFails(t)
      PROVE  IInv'
  BY <1>4, SendIInv, LockJobIInv, FinalizeIInv, CommitIInv, FaultIInv DEF Finalize
<1>5. CASE (\E p \in Pods : Crash(p)) \/ BreakDeadlock
  BY <1>5, FaultIInv
<1>6. ASSUME NEW d \in Keys, BecomesDue(d)
      PROVE  IInv'
  BY <1>6, DueIInv
<1>7. ASSUME NEW m \in Subjects, RecallMessage(m) \/ CallExpires(m)
      PROVE  IInv'
  BY <1>7, ClockIInv
<1>8. CASE UNCHANGED vars
  <2>1. UNCHANGED <<tokens, recalled, expired, inbox, workload, jobs, rows, tasks, held,
                    result>>
    BY <1>8 DEF vars, requests
  <2>2. Types' /\ TablesOK'
    BY <2>1, TablesKept DEF IInv, Types
  <2>3. LocksOK'
    BY <2>1, LocksDropped DEF IInv, LocksOK, ClaimTypes
  <2> QED
    BY <2>2, <2>3 DEF IInv
<1> QED
  BY <1>1, <1>2, <1>3, <1>4, <1>5, <1>6, <1>7, <1>8 DEF Next

\* The inductive invariant: the tables agree with each other, and every open
\* transaction of a claim or a finalize with what it has read.
THEOREM SpecIInv == Spec => []IInv
BY InitIInv, NextIInv, PTL DEF Spec

\* Tokens, jobs, delivery rows, results, claims and senders have their types.
THEOREM SpecTypeOK == Spec => []TypeOK
<1>1. IInv => TypeOK
  BY DEF IInv, Types, TablesOK, TableTypes, LocksOK, ClaimTypes, TypeOK
<1> QED
  BY <1>1, SpecIInv, PTL

\* persistMessageRecallJob, persistMessageJob: once the recall of a message is a
\* job, no delivery of the message waits or can be taken up again.
THEOREM SpecRecallIsQuiet == Spec => []RecallIsQuiet
<1>1. IInv => RecallIsQuiet
  BY DEF IInv, TablesOK
<1> QED
  BY <1>1, SpecIInv, PTL

\* completeVoIPJobIfTerminalLocked: a VoIP job has its result from the moment it
\* is completed, and the result is true.
THEOREM SpecResultIsTrue == Spec => []ResultIsTrue
<1>1. IInv => ResultIsTrue
  BY DEF IInv, TablesOK
<1> QED
  BY <1>1, SpecIInv, PTL

\* lockPushJob and the completions: a job is pending exactly while one of its
\* rows is outstanding, whichever senders and claims of the pods meet.
THEOREM SpecJobTracksRows == Spec => []JobTracksRows
<1>1. IInv => JobTracksRows
  BY DEF IInv, TablesOK
<1> QED
  BY <1>1, SpecIInv, PTL

\* A row that is over is not written by any step but the retention's.
LEMMA StepStaysOver == IInv /\ [Next]_vars => StaysOver
<1> SUFFICES ASSUME IInv, [Next]_vars, NEW d \in Keys, rows[d] # NoRow,
                    rows[d].status \in Terminal
             PROVE  rows'[d] \in {rows[d], NoRow}
  BY DEF StaysOver
<1>a. rows[d].status \notin Outstanding
  BY DEF Outstanding, Terminal
<1>b. rows \in [Keys -> Deliveries \cup {NoRow}]
  BY DEF IInv, TablesOK, TableTypes
<1>1. ASSUME NEW r \in Requests, EnqueueRequest(r)
      PROVE  rows'[d] = rows[d]
  <2>1. d \in FanOut(r) => r.kind = "message_recall"
    BY DEF FanOut
  <2>2. CASE PersistMessageJob(r) \/ PersistVoIPJob(r)
    BY <2>1, <2>2 DEF PersistMessageJob, PersistVoIPJob
  <2>3. CASE PersistMessageRecallJob(r) /\ rows' # rows
    <3>1. /\ ~\E q \in Requests : /\ q.kind = r.kind /\ q.subject = r.subject
                                  /\ jobs[q] \in {"pending", "completed"}
          /\ rows'[d] = IF d \in Cancelled(r)
                        THEN [rows[d] EXCEPT !.status = "permanent", !.due = FALSE]
                        ELSE IF d \in FanOut(r) THEN Row(r) ELSE rows[d]
      BY <2>3 DEF PersistMessageRecallJob
    <3>2. d \notin Cancelled(r)
      BY <1>a DEF Cancelled
    <3>3. rows[d].job \in Requests
      BY <1>b DEF Deliveries
    <3>4. d \notin FanOut(r)
      BY <3>1, <3>3 DEF FanOut, IInv, TablesOK, RowsOK
    <3> QED
      BY <3>1, <3>2, <3>4
  <2> QED
    BY <1>1, <2>2, <2>3 DEF EnqueueRequest
<1>2. ASSUME NEW r \in Requests, CleanupCompletedDeliveries(r)
      PROVE  rows'[d] \in {rows[d], NoRow}
  BY <1>2 DEF CleanupCompletedDeliveries
<1>3. ASSUME NEW l \in Loops, ClaimDeliveryBatch(l)
      PROVE  rows'[d] = rows[d]
  <2>1. rows' = [k \in Keys |->
           IF k \in ClaimSet(l)
           THEN [rows[k] EXCEPT !.status = "claimed", !.due = FALSE, !.attempt = @ + 1]
           ELSE Failed(held[l])[k]]
    BY <1>3 DEF ClaimDeliveryBatch, ClaimSet
  <2>2. d \notin ClaimSet(l)
    BY <1>a DEF ClaimSet, Claimable, Outstanding
  <2>3. d \notin held[l]
    BY <1>a DEF IInv, LocksOK, HeldOK, Outstanding
  <2> QED
    BY <2>1, <2>2, <2>3 DEF Failed
<1>4. ASSUME NEW t \in tasks, CommitFinalize(t)
      PROVE  rows'[d] = rows[d]
  <2>1. t \in Tasks /\ MayFinalize(t) /\ rows' = Finalized(t)
    BY <1>4 DEF CommitFinalize, IInv, LocksOK, ClaimTypes, WrittenOK
  <2>2. d # t.key
    BY <1>a, <2>1 DEF MayFinalize, Outstanding
  <2> QED
    BY <2>1, <2>2, FinalizedCount DEF IInv, TablesOK
<1>5. ASSUME NEW k \in Keys, BecomesDue(k)
      PROVE  rows'[d] = rows[d]
  BY <1>a, <1>b, <1>5 DEF BecomesDue, Outstanding
<1>6. ASSUME NEW t \in tasks,
             SendDurableDelivery(t) \/ LockPushJob(t) \/ FinalizeClaimedDelivery(t)
             \/ FinalizeFails(t)
      PROVE  rows' = rows
  BY <1>6 DEF SendDurableDelivery, LockPushJob, FinalizeClaimedDelivery, FinalizeFails,
              durable
<1>7. ASSUME NEW l \in Loops, ExpireExhaustedDeliveries(l) \/ ClaimFails(l)
      PROVE  rows' = rows
  BY <1>7 DEF ExpireExhaustedDeliveries, ClaimFails, durable
<1>8. ASSUME NEW c \in workload.commands, PersistClientCommand(c)
      PROVE  rows' = rows
  BY <1>8 DEF PersistClientCommand, RegisterToken, UnregisterToken, Handled
<1>9. CASE \/ \E p \in Pods : Crash(p)
           \/ BreakDeadlock
           \/ \E m \in Subjects : RecallMessage(m) \/ CallExpires(m)
           \/ UNCHANGED vars
  BY <1>9 DEF Crash, BreakDeadlock, RecallMessage, CallExpires, durable, vars
<1> QED
  BY <1>1, <1>2, <1>3, <1>4, <1>5, <1>6, <1>7, <1>8, <1>9 DEF Next, Claim, Finalize

\* finalizeClaimedDelivery, claim SQL, recall: what became of a delivery is
\* final, whatever senders were paused, replaced or cut off by a recall.
THEOREM SpecTerminalIsFinal == Spec => TerminalIsFinal
BY SpecIInv, StepStaysOver, PTL DEF Spec, TerminalIsFinal
=============================================================================
