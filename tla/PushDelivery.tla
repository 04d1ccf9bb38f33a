---------------------------- MODULE PushDelivery ----------------------------
(***************************************************************************)
(* The durable half of pushService: requests become jobs with one delivery *)
(* row per device token, and the message and VoIP loops of each pod claim  *)
(* rows, send them to APNs and finalize them.                              *)
(*                                                                         *)
(* A transaction is one step where nothing it reads can change before it   *)
(* commits.  The two that meet are split: a claim that holds exhausted     *)
(* rows waits for their jobs, a finalize holds the job and waits for its   *)
(* row, counts what is outstanding in the committed state, and commits.    *)
(* Leases and retry times are not counted: a row's time comes at any       *)
(* moment, so a sender may always be paused past its lease.  The batch     *)
(* limit is above the number of rows.  That a request is applied once is   *)
(* the inbox's promise (InboxOutbox).                                      *)
(***************************************************************************)
EXTENDS Integers, FiniteSets

CONSTANTS
    Requests,     \* records with an op, a kind, a subject, the targets but for the
                  \* operator and, of a direct message, those that muted the sender
    Workloads,    \* bound: the requests, commands and faults of a behaviour
    Users, Devices, Values,
    Registered,   \* the token rows there are at the start
    MaxTokens,    \* bound on the token rows ever created
    MaxAttempts,  \* PUSH_DELIVERY_MAX_ATTEMPTS
    Pods,
    NoRow

Kinds == {"message", "message_recall", "voip"}

\* push_message_deliveries holds messages and, under the negated id, recalls.
Tables == {"message", "voip"}
Table(k) == IF k = "voip" THEN "voip" ELSE "message"
PushType(k) == IF k = "voip" THEN "voip" ELSE "apns"

Loops == [pod : Pods, table : Tables]
TokenIds == 1 .. MaxTokens
TokenRows == [user : Users, device : Devices, type : {"apns", "voip"},
              value : Values, active : BOOLEAN]

\* ClientCommand, with the value of the token to register.
Commands == [user : Users, device : Devices, type : {"apns", "voip"},
             register : BOOLEAN, value : Values]

Outstanding == {"pending", "claimed", "retryable"}
Terminal == {"sent", "permanent", "failed"}

Deliveries == [status : Outstanding \cup Terminal, attempt : 0 .. MaxAttempts,
               job : Requests, due : BOOLEAN]

ASSUME PushAssumption ==
    /\ \A r \in Requests : r.kind \in Kinds /\ r.targets \subseteq Users
                            /\ r.muted \subseteq r.targets
    /\ Workloads \subseteq [requests : SUBSET Requests,
                              commands : SUBSET Commands, faults : Nat]
    /\ MaxAttempts \in Nat \ {0}
    /\ MaxTokens \in Nat
    /\ Registered \in [TokenIds -> TokenRows \cup {NoRow}]
    /\ NoRow \notin TokenRows \cup Deliveries

Subjects == {r.subject : r \in Requests}
Keys == [kind : Kinds, subject : Subjects, token : TokenIds]

VARIABLES
    tokens,    \* push_device_tokens
    recalled,  \* the messages storage has marked recalled
    expired,   \* the calls whose expires_at has passed
    inbox,     \* the requests that are committed
    jobs,      \* push_jobs: status of a request's job
    rows,      \* the delivery rows
    tasks,     \* the sender goroutines, each with its claim
    held,      \* the exhausted rows an open claim transaction holds
    result,    \* the VoIP result in the outbox
    workload   \* what is still to come

requests == <<recalled, expired, inbox, workload>>
durable  == <<tokens, jobs, rows, result>>
vars == <<tokens, requests, jobs, rows, tasks, held, result>>

Outcomes == {"sent", "permanent", "failed", "retryable"}

\* A goroutine of processDurableBatch: what it claimed, what it will write, and
\* whether it will complete the job.
Tasks == [loop : Loops, key : Keys, job : Requests, attempt : 1 .. MaxAttempts,
          active : BOOLEAN, phase : {"claimed", "sent", "locked", "written"},
          outcome : Outcomes, deactivate : BOOLEAN, completes : BOOLEAN]

TypeOK ==
    /\ tokens \in [TokenIds -> TokenRows \cup {NoRow}]
    /\ recalled \subseteq Subjects /\ expired \subseteq Subjects
    /\ inbox \subseteq Requests
    /\ jobs \in [Requests -> {"none", "pending", "completed", "deleted"}]
    /\ rows \in [Keys -> Deliveries \cup {NoRow}]
    /\ tasks \subseteq Tasks
    /\ held \in [Loops -> SUBSET Keys]
    /\ result \in [Requests -> {"none", "accepted", "refused"}]
    /\ workload.requests \subseteq Requests /\ workload.commands \subseteq Commands
    /\ workload.faults \in Nat

Init ==
    /\ tokens = Registered
    /\ recalled = {} /\ expired = {} /\ inbox = {}
    /\ jobs = [r \in Requests |-> "none"]
    /\ rows = [d \in Keys |-> NoRow]
    /\ tasks = {}
    /\ held = [l \in Loops |-> {}]
    /\ result = [r \in Requests |-> "none"]
    /\ workload \in Workloads

-----------------------------------------------------------------------------
(* Locks.                                                                  *)

JobLocked(r) == \E t \in tasks : t.job = r /\ t.phase \in {"locked", "written"}

RowLocked(d) ==
    \/ \E t \in tasks : t.key = d /\ t.phase = "written"
    \/ \E l \in Loops : d \in held[l]

-----------------------------------------------------------------------------
(* EnqueueRequest.                                                         *)

Row(r) == [status |-> "pending", attempt |-> 0, job |-> r, due |-> FALSE]

\* The three fan-outs: active tokens of the targets, of a message only those
\* that have not muted its sender.  INSERT ... ON CONFLICT DO NOTHING leaves rows
\* that exist alone; a recall writes over them.
FanOut(r) ==
    {d \in Keys :
        /\ d.kind = r.kind /\ d.subject = r.subject
        /\ tokens[d.token] # NoRow
        /\ tokens[d.token].active
        /\ tokens[d.token].type = PushType(r.kind)
        /\ tokens[d.token].user \in r.targets
        /\ r.kind = "message" => tokens[d.token].user \notin r.muted
        /\ r.kind # "message_recall" => rows[d] = NoRow}

\* A job with rows waits for them; one without is completed at once.
CreateJob(r) ==
    jobs' = [jobs EXCEPT ![r] = IF FanOut(r) = {} THEN "completed" ELSE "pending"]

Accept(r) ==
    /\ r \in workload.requests
    /\ workload' = [workload EXCEPT !.requests = @ \ {r}]
    /\ inbox' = inbox \cup {r}
    /\ UNCHANGED <<tokens, recalled, expired, tasks, held>>

\* Mutant: the message is not checked for a recall.
PersistMessageJobAnyway(r) ==
    /\ r.kind = "message"
    /\ Accept(r)
    /\ CreateJob(r)
    /\ rows' = [d \in Keys |-> IF d \in FanOut(r) THEN Row(r) ELSE rows[d]]
    /\ UNCHANGED result

\* persistMessageJob: a recalled message gets no job.
PersistMessageJob(r) ==
    /\ r.kind = "message"
    /\ Accept(r)
    /\ IF r.subject \in recalled
       THEN UNCHANGED <<jobs, rows>>
       ELSE /\ CreateJob(r)
            /\ rows' = [d \in Keys |-> IF d \in FanOut(r) THEN Row(r)
                                                          ELSE rows[d]]
    /\ UNCHANGED result

Cancelled(r) ==
    {d \in Keys : /\ d.kind = "message" /\ d.subject = r.subject
                  /\ rows[d] # NoRow /\ rows[d].status \in Outstanding}

CancelledJobs(r) ==
    {q \in Requests : /\ q.kind = "message"
                      /\ \E d \in Keys : /\ rows[d] # NoRow /\ rows[d].job = q
                                         /\ d.kind = "message"
                                         /\ d.subject = r.subject}

\* persistMessageRecallJob: a recall that nobody but the operator is to be told of
\* makes no job and cancels nothing.  The job's id is the message's, so that a
\* second recall of a message changes nothing.  The updates wait for locks.
PersistMessageRecallJob(r) ==
    /\ r.kind = "message_recall"
    /\ r.subject \in recalled
    /\ Accept(r)
    /\ IF \/ r.targets = {}
          \/ \E q \in Requests : /\ q.kind = r.kind /\ q.subject = r.subject
                                 /\ jobs[q] \in {"pending", "completed"}
       THEN UNCHANGED <<jobs, rows>>
       ELSE /\ \A d \in Cancelled(r) : ~ RowLocked(d)
            /\ \A q \in CancelledJobs(r) : ~ JobLocked(q)
            /\ rows' = [d \in Keys |->
                 IF d \in Cancelled(r)
                 THEN [rows[d] EXCEPT !.status = "permanent", !.due = FALSE]
                 ELSE IF d \in FanOut(r) THEN Row(r) ELSE rows[d]]
            /\ jobs' = [q \in Requests |->
                 IF q = r THEN IF FanOut(r) = {} THEN "completed" ELSE "pending"
                 ELSE IF q \in CancelledJobs(r) THEN "completed" ELSE jobs[q]]
    /\ UNCHANGED result

\* persistVoIPJob: an expired call, or a callee without a token, is answered in
\* the same transaction.
PersistVoIPJob(r) ==
    /\ r.kind = "voip"
    /\ Accept(r)
    /\ IF r.subject \in expired \/ FanOut(r) = {}
       THEN /\ jobs' = [jobs EXCEPT ![r] = "completed"]
            /\ result' = [result EXCEPT ![r] = "refused"]
            /\ UNCHANGED rows
       ELSE /\ CreateJob(r)
            /\ rows' = [d \in Keys |-> IF d \in FanOut(r) THEN Row(r)
                                                          ELSE rows[d]]
            /\ UNCHANGED result

EnqueueRequest(r) ==
    PersistMessageJob(r) \/ PersistMessageRecallJob(r) \/ PersistVoIPJob(r)

-----------------------------------------------------------------------------
(* Client commands.                                                        *)

Slot(u, v, k) ==
    {i \in TokenIds : /\ tokens[i] # NoRow /\ tokens[i].user = u
                      /\ tokens[i].device = v /\ tokens[i].type = k}

Holding(x, k) ==
    {i \in TokenIds : tokens[i] # NoRow /\ tokens[i].type = k /\ tokens[i].value = x}

\* An id that nothing refers to stands for a new one.
Fresh == {i \in TokenIds : /\ tokens[i] = NoRow
                           /\ \A d \in Keys : d.token = i => rows[d] = NoRow
                           /\ \A t \in tasks : t.key.token # i}

Handled(c) ==
    /\ workload' = [workload EXCEPT !.commands = @ \ {c}]
    /\ UNCHANGED <<recalled, expired, inbox, jobs, rows, tasks, held, result>>

\* registerTokenWithDB: the row of the user's device takes the token and other
\* rows of the token go; or the token's row moves to the user's device; or a row
\* is made.
RegisterToken(c) ==
    LET k == c.type
        mine == Slot(c.user, c.device, k)
        new == [user |-> c.user, device |-> c.device, type |-> k, value |-> c.value,
                active |-> TRUE]
    IN  /\ c.register
        /\ Handled(c)
        /\ \/ \E i \in mine :
                tokens' = [j \in TokenIds |-> IF j = i THEN new
                             ELSE IF j \in Holding(c.value, k) THEN NoRow ELSE tokens[j]]
           \/ /\ mine = {}
              /\ \E i \in Holding(c.value, k) : tokens' = [tokens EXCEPT ![i] = new]
           \/ /\ mine = {} /\ Holding(c.value, k) = {}
              /\ \E i \in Fresh : tokens' = [tokens EXCEPT ![i] = new]

\* persistUnregisterToken
UnregisterToken(c) ==
    LET mine == Slot(c.user, c.device, c.type)
    IN  /\ ~ c.register
        /\ Handled(c)
        /\ tokens' = [i \in TokenIds |-> IF i \in mine THEN NoRow ELSE tokens[i]]

PersistClientCommand(c) == RegisterToken(c) \/ UnregisterToken(c)

-----------------------------------------------------------------------------
(* claimDeliveryBatch.                                                     *)

InTable(tb) == {d \in Keys : Table(d.kind) = tb /\ rows[d] # NoRow}

Exhausted(tb) ==
    {d \in InTable(tb) : /\ rows[d].attempt >= MaxAttempts
                         /\ rows[d].status \in {"claimed", "retryable"}
                         /\ rows[d].due}

\* Mutant: rows that wait for a retry are not outstanding.
NoneOutstandingButRetries(r, f) ==
    \A d \in Keys : f[d] # NoRow /\ f[d].job = r =>
        f[d].status \notin {"pending", "claimed"}

\* The count in completeMessageJobIfTerminalLocked and its VoIP counterpart,
\* over the rows f that the transaction sees.
NoneOutstanding(r, f) ==
    \A d \in Keys : f[d] # NoRow /\ f[d].job = r => f[d].status \notin Outstanding

Sent(r, f) == \E d \in Keys : f[d] # NoRow /\ f[d].job = r /\ f[d].status = "sent"

\* The jobs in J that are pending become completed, and a VoIP job gets its
\* result.  J has no job with an outstanding row.
CompleteJobs(J, f) ==
    LET done == {r \in J : jobs[r] = "pending"}
    IN  /\ jobs' = [r \in Requests |-> IF r \in done THEN "completed" ELSE jobs[r]]
        /\ result' = [r \in Requests |->
             IF r \in done /\ r.kind = "voip"
             THEN IF Sent(r, f) THEN "accepted" ELSE "refused" ELSE result[r]]

\* A loop claims when its last batch is done.
Idle(l) == \A t \in tasks : t.loop # l

\* expireExhaustedDeliveries: the transaction now holds the rows.
ExpireExhaustedDeliveries(l) ==
    /\ Idle(l) /\ held[l] = {}
    /\ Exhausted(l.table) # {}
    /\ \A d \in Exhausted(l.table) : ~ RowLocked(d)
    /\ held' = [held EXCEPT ![l] = Exhausted(l.table)]
    /\ UNCHANGED <<durable, requests, tasks>>

Failed(E) ==
    [d \in Keys |-> IF d \in E THEN [rows[d] EXCEPT !.status = "failed", !.due = FALSE]
                               ELSE rows[d]]

\* Mutant: off by one.
OneAttemptMore(d) == rows[d].attempt <= MaxAttempts

AttemptsLeft(d) == rows[d].attempt < MaxAttempts

\* The WHERE clause of the claim SQL.
Claimable(d) ==
    \/ rows[d].status = "pending"
    \/ rows[d].status \in {"retryable", "claimed"} /\ rows[d].due

Task(l, d) ==
    [loop |-> l, key |-> d, job |-> rows[d].job, attempt |-> rows[d].attempt + 1,
     active |-> tokens[d.token] # NoRow /\ tokens[d.token].active,
     phase |-> "claimed", outcome |-> "retryable", deactivate |-> FALSE,
     completes |-> FALSE]

\* The rest of the transaction: the jobs of the exhausted rows are locked and
\* completed, and the rows that are due are claimed; locked ones are skipped.
ClaimDeliveryBatch(l) ==
    LET E == held[l]
        f == Failed(E)
        done == {r \in {rows[d].job : d \in E} : NoneOutstanding(r, f)}
        S == {d \in InTable(l.table) \ E :
                /\ jobs[rows[d].job] = "pending"
                /\ AttemptsLeft(d)
                /\ Claimable(d)
                /\ ~ RowLocked(d)}
    IN  /\ Idle(l)
        /\ E = {} => Exhausted(l.table) = {}
        /\ E \cup S # {}
        /\ \A d \in E : ~ JobLocked(rows[d].job)
        /\ CompleteJobs(done, f)
        /\ rows' = [d \in Keys |->
             IF d \in S THEN [rows[d] EXCEPT !.status = "claimed", !.due = FALSE,
                                             !.attempt = @ + 1]
                        ELSE f[d]]
        /\ tasks' = tasks \cup {Task(l, d) : d \in S}
        /\ held' = [held EXCEPT ![l] = {}]
        /\ UNCHANGED <<tokens, requests>>

-----------------------------------------------------------------------------
(* sendDurableDelivery.                                                    *)

\* retryableDeliveryUpdate
RetryableUpdate(t) == IF t.attempt >= MaxAttempts THEN "failed" ELSE "retryable"

Update(t, outcome, deactivate) ==
    [t EXCEPT !.phase = "sent", !.outcome = outcome, !.deactivate = deactivate]

\* What becomes of a claim: nothing is sent to a token that was gone or inactive
\* when it was claimed, or for a call that is over; APNs accepts, refuses the
\* token, refuses the notification, or cannot be reached.  The last stands for a
\* failed MessagePresentation too.
Updates(t) ==
    IF ~ t.active \/ (t.key.kind = "voip" /\ t.key.subject \in expired)
    THEN {Update(t, "permanent", FALSE)}
    ELSE {Update(t, "sent", FALSE), Update(t, "permanent", TRUE),
          Update(t, "permanent", FALSE), Update(t, RetryableUpdate(t), FALSE)}

SendDurableDelivery(t) ==
    /\ t.phase = "claimed"
    /\ \E u \in Updates(t) : tasks' = (tasks \ {t}) \cup {u}
    /\ UNCHANGED <<durable, requests, held>>

-----------------------------------------------------------------------------
(* FinalizeMessageDelivery and FinalizeVoIPDelivery.                       *)

\* Mutant: the job row is read without a lock.
LockPushJobShared(t) ==
    /\ t.phase = "sent"
    /\ tasks' = (tasks \ {t}) \cup {[t EXCEPT !.phase = "locked"]}
    /\ UNCHANGED <<durable, requests, held>>

\* lockPushJob
LockPushJob(t) ==
    /\ t.phase = "sent"
    /\ ~ JobLocked(t.job)
    /\ tasks' = (tasks \ {t}) \cup {[t EXCEPT !.phase = "locked"]}
    /\ UNCHANGED <<durable, requests, held>>

\* Mutant: the update is not fenced.
MayFinalizeUnfenced(t) == rows[t.key] # NoRow

\* The identity and the fence of finalizeClaimedDelivery.  The attempt stands
\* for the claim token, which is new whenever the attempt is.
MayFinalize(t) ==
    /\ rows[t.key] # NoRow
    /\ rows[t.key].job = t.job
    /\ rows[t.key].status = "claimed"
    /\ rows[t.key].attempt = t.attempt

Finalized(t) ==
    [rows EXCEPT ![t.key].status = t.outcome, ![t.key].due = FALSE]

\* The fenced update, then the count of what is still outstanding.  A fenced
\* sender rolls back.
FinalizeClaimedDelivery(t) ==
    /\ t.phase = "locked"
    /\ ~ RowLocked(t.key)
    /\ IF MayFinalize(t)
       THEN tasks' = (tasks \ {t}) \cup
              {[t EXCEPT !.phase = "written",
                         !.completes = NoneOutstanding(t.job, Finalized(t))]}
       ELSE tasks' = tasks \ {t}
    /\ UNCHANGED <<durable, requests, held>>

CommitFinalize(t) ==
    /\ t.phase = "written"
    /\ rows' = Finalized(t)
    /\ tokens' = IF t.deactivate /\ tokens[t.key.token] # NoRow
                 THEN [tokens EXCEPT ![t.key.token].active = FALSE] ELSE tokens
    /\ CompleteJobs(IF t.completes THEN {t.job} ELSE {}, Finalized(t))
    /\ tasks' = tasks \ {t}
    /\ UNCHANGED <<requests, held>>

-----------------------------------------------------------------------------
(* Failures.                                                               *)

Fault ==
    /\ workload.faults > 0
    /\ workload' = [workload EXCEPT !.faults = @ - 1]
    /\ UNCHANGED <<recalled, expired, inbox>>

\* A finalize that fails is left to the lease.
FinalizeFails(t) ==
    /\ t.phase \in {"sent", "locked", "written"}
    /\ Fault
    /\ tasks' = tasks \ {t}
    /\ UNCHANGED <<durable, held>>

ClaimFails(l) ==
    /\ held[l] # {}
    /\ Fault
    /\ held' = [held EXCEPT ![l] = {}]
    /\ UNCHANGED <<durable, tasks>>

Crash(p) ==
    /\ Fault
    /\ \E t \in tasks : t.loop.pod = p
    /\ tasks' = {t \in tasks : t.loop.pod # p}
    /\ held' = [l \in Loops |-> IF l.pod = p THEN {} ELSE held[l]]
    /\ UNCHANGED durable

\* The claim waits for a job whose finalize waits for a row of the claim:
\* PostgreSQL ends one of the two.
Deadlocked(l, t) ==
    /\ t.phase = "locked" /\ t.key \in held[l]
    /\ \E d \in held[l] : rows[d].job = t.job

BreakDeadlock ==
    \E l \in Loops, t \in tasks :
        /\ Deadlocked(l, t)
        /\ \/ held' = [held EXCEPT ![l] = {}] /\ UNCHANGED tasks
           \/ tasks' = tasks \ {t} /\ UNCHANGED held
        /\ UNCHANGED <<durable, requests>>

-----------------------------------------------------------------------------
(* Time, storage and retention.                                            *)

\* A lease runs out, or the time of a retry comes.
BecomesDue(d) ==
    /\ rows[d] # NoRow /\ rows[d].status \in {"claimed", "retryable"} /\ ~ rows[d].due
    /\ ~ RowLocked(d)
    /\ rows' = [rows EXCEPT ![d].due = TRUE]
    /\ UNCHANGED <<tokens, requests, jobs, tasks, held, result>>

RecallMessage(m) ==
    /\ m \notin recalled
    /\ \E r \in workload.requests : r.subject = m /\ r.kind = "message_recall"
    /\ recalled' = recalled \cup {m}
    /\ UNCHANGED <<durable, expired, inbox, workload, tasks, held>>

CallExpires(c) ==
    /\ c \notin expired
    /\ \E r \in workload.requests \cup inbox : r.subject = c /\ r.kind = "voip"
    /\ expired' = expired \cup {c}
    /\ UNCHANGED <<durable, recalled, inbox, workload, tasks, held>>

RowsOf(r) == {d \in Keys : rows[d] # NoRow /\ rows[d].job = r}

\* LoadCleanupConfig makes the retention longer than the replay window, days
\* against the seconds of a send: nobody works on the job any more and Kafka has
\* no other request for its subject.
PastRetention(r) ==
    /\ \A t \in tasks : t.job # r
    /\ \A q \in workload.requests : q.subject # r.subject

\* CleanupCompletedDeliveries deletes the rows of an old completed job in one
\* statement and the job in a later one.
CleanupCompletedDeliveries(r) ==
    /\ jobs[r] = "completed"
    /\ PastRetention(r)
    /\ IF RowsOf(r) # {}
       THEN rows' = [d \in Keys |-> IF d \in RowsOf(r) THEN NoRow ELSE rows[d]]
            /\ UNCHANGED jobs
       ELSE jobs' = [jobs EXCEPT ![r] = "deleted"] /\ UNCHANGED rows
    /\ UNCHANGED <<tokens, requests, tasks, held, result>>

-----------------------------------------------------------------------------
Claim(l) == ExpireExhaustedDeliveries(l) \/ ClaimDeliveryBatch(l)

Finalize(t) ==
    LockPushJob(t) \/ FinalizeClaimedDelivery(t) \/ CommitFinalize(t)

Next ==
    \/ \E r \in Requests : EnqueueRequest(r) \/ CleanupCompletedDeliveries(r)
    \/ \E c \in workload.commands : PersistClientCommand(c)
    \/ \E l \in Loops : Claim(l) \/ ClaimFails(l)
    \/ \E t \in tasks : SendDurableDelivery(t) \/ Finalize(t) \/ FinalizeFails(t)
    \/ \E p \in Pods : Crash(p)
    \/ BreakDeadlock
    \/ \E d \in Keys : BecomesDue(d)
    \/ \E m \in Subjects : RecallMessage(m) \/ CallExpires(m)

Spec == Init /\ [][Next]_vars

-----------------------------------------------------------------------------
(* Properties.                                                             *)

\* A delivery that is over is the same after this step, or deleted.
StaysOver ==
    \A d \in Keys : rows[d] # NoRow /\ rows[d].status \in Terminal =>
        rows'[d] \in {rows[d], NoRow}

\* finalizeClaimedDelivery, claim SQL, recall: what became of a delivery is
\* final.  Whatever senders were paused, replaced or cut off by a recall, a row
\* that is sent, permanent or failed changes no more until retention deletes it.
TerminalIsFinal == [][StaysOver]_vars

\* persistMessageRecallJob, persistMessageJob: once the recall of a message is a
\* job - a recall without targets never is one - no delivery of the message waits or can be taken up again, whether its
\* push was requested before or after, by one request or two, and whoever is
\* sending it at the time.
RecallIsQuiet ==
    \A r \in Requests :
        r.kind = "message_recall" /\ jobs[r] # "none" =>
            \A d \in Keys : /\ d.kind = "message" /\ d.subject = r.subject
                            /\ rows[d] # NoRow
                            => rows[d].status \in Terminal

\* completeVoIPJobIfTerminalLocked, completeVoIPWithoutDelivery: a VoIP job has
\* its result in the outbox from the moment it is completed, and the result is
\* and stays true: accepted means that some device was reached, refused that none
\* was or will be.
ResultIsTrue ==
    \A r \in Requests :
        /\ r.kind = "voip" => (result[r] = "none" <=> jobs[r] \in {"none", "pending"})
        /\ result[r] = "refused" => ~ Sent(r, rows)
        /\ result[r] = "accepted" => Sent(r, rows) \/ RowsOf(r) = {}

\* lockPushJob and the two completions: a job is pending exactly while one of its
\* rows is outstanding.  The last two senders of a job, or a sender and the claim
\* that gives up its row, must not overlook each other, or the job would stay
\* pending with nothing left that could complete it; and nothing completes it
\* early, after which no loop would take up its rows.
JobTracksRows ==
    \A r \in Requests :
        jobs[r] = "pending" <=> \E d \in RowsOf(r) : rows[d].status \in Outstanding

=============================================================================
