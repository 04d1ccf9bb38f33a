# Betterfly2: a TLA+ verification of the message, session and call core

Betterfly2 is an instant-messaging backend: Go services that talk over Kafka,
keep durable state in PostgreSQL and share volatile state in Redis. This
directory holds TLA+ modules translated from the source in `src/`, TLC
configurations that check them on small instances, and TLAPS proofs of the main
results for every value of the constants. `PROJECT.json` maps each definition to
the lines it models, and lists runs, mutants, findings, hazards and theorems.

To check everything by hand, in this directory:

    tlc -workers 2 -config MCKafkaConsumer.cfg MCKafkaConsumer      # and so on
    tlapm KafkaConsumerProofs.tla                                    # and so on

## 1. Inventory

### Components

| Component | State it keeps | Operations | Hard because of |
|---|---|---|---|
| reliable Kafka consumer (`shared/kafkaconsumer`) | offset mark and retry counters of one claim; the group's committed offset | fetch, process, classify, retry with backoff, dead-letter, mark | zombies after a rebalance, crash before commit, DLQ write that fails or only seems to |
| inbox and outbox (`shared/db/inbox_outbox.go`) | `consumer_inboxes`, `outbox_events` | `ExecuteInboxOutbox`: insert key, execute, write events, complete | redelivery to two workers at once, a commit whose answer is lost |
| outbox relay (`shared/outbox`) | claim token, lease and attempt of each row | `RunOnce`: claim, publish, mark published or failed | pause past the lease, crash between publish and mark, an event that never goes out |
| retention (`shared/db/retention.go`) | - | delete old inbox and outbox rows | retention shorter than the replay window |
| call state machine (`callService/internal/call`) | session JSON, `call:user:*` busy keys, `call:ring_deadlines`, operation keys, `call:outbox` stream | initiate, accept, reject, hangup, push result, sweep | read in Go and compare-and-set in Lua later, key expiry, redelivery, whole-second deadlines |
| call event relay (`event_relay.go`) | Redis stream group, pending list | read, publish, ack, take over | order after a failed publication |
| WebSocket session ownership (`dataForwardingService/internal/connection`, `internal/redis`, `internal/handlers/new_handlers.go`) | connection map, user index and counters of a container; `user_session`, `ws_connection_mapping`, `ws_route_lease`, `container_connections`, `user_lock` in Redis | login, replace, kick, close, refresh, cleanup, route lookup | several containers, lost kicks, expiring locks and leases, unheard replies |
| routing and DF consumer (`internal/router`, `internal/consumer`) | none of its own | deliver locally or forward to the container of the route, dispatch the answers of every service | stale route against a local connection, two wire formats, retries of half-done work |
| posting and recall (`module_post.go`, `post_idempotency.go`, `util_message.go`) | idempotency and effects keys, `messages` | post, store, route, push, recall | keys that expire under work, effects run twice |
| storage service (`storageService`) | L1 and L2 cache, `messages`, `files` | query, sync by cursor, update, recall | a reader that fills the cache after an invalidation |
| friends and groups (`friendService`, `util_group.go`, `util_relationship.go`) | members, roles, requests | create, request, resolve, change role, leave, hand over | READ COMMITTED, two transactions on one group |
| push delivery (`pushService`) | `push_jobs`, `push_message_deliveries`, `push_voip_deliveries`, device tokens | enqueue, register, claim, deliver, finalize, recall, clean up | claims and leases, lock order, VoIP results |
| authentication (`authService`, `utils_user.go`) | signing key of each user | login, signup, check token, rotate key | concurrent first logins |
| A/B tests (`abTestService`) | experiments, versions | evaluate, publish, roll back | rule evaluation at its boundaries |
| monitor bot, push administration, file HTTP server, migrations | - | reports, uploads, one-off schema changes | mostly I/O |

### How they interact

Clients reach a dataForwardingService (DF) container over WebSocket. DF calls the
auth service over gRPC and sends everything else to Kafka topics. Storage, Friend,
Call and Push read those topics through the reliable consumer. What they change in
PostgreSQL goes through `ExecuteInboxOutbox`, and the answers and follow-up requests
leave through the outbox relay, which publishes to the Kafka topic of the DF
container that holds the user, or of the next service; the record carries
`event/<event_id>` as the operation key of that service's inbox. Call keeps its
state in Redis and has a stream with a relay of its own in the place of the outbox.
DF containers know each other only through Redis (session, route, kick channel).

### What makes each part correct

- Consumer: nothing is skipped, order is kept, a message is given up only for a
  reason, the partition does not stop.
- Inbox, outbox, relay: an operation takes effect once; no event of a committed
  operation is lost, and each arrives in the end.
- Calls: a user is in one call; both users hear one story; a late end does not
  touch a new call; a call that rings is answered or ended.
- Sessions: the keys agree; a former owner cannot harm the present one; a user does
  not stay online twice; counters describe the connections.
- Call events: none is lost between the stream and the container.
- Messages: a client's message is stored once and its push is asked for once; every
  acknowledgement names that row; a recalled message does not come back from a
  cache; a client that follows its sync cursor misses nothing.
- Social graph: a group has exactly one owner; nobody is
  made a friend or member without a decision on an open request.
- Push: the outcome of a delivery is final; a recalled message stays quiet; a job
  ends exactly when its rows do, and a VoIP result is true.
- Authentication (not modelled): a valid token stays valid until a rotation.

## 2. Modules

| Module | Models | Composes |
|---|---|---|
| `KafkaConsumer` | one partition, its consumer group and DLQ | - |
| `ExactlyOnce` | abstract promise of inbox, outbox and relay | - |
| `InboxOutbox` | `ExecuteInboxOutbox`, relay, retention, chained services | implements `ExactlyOnce` |
| `CallService` | call sessions, scripts, sweep | - |
| `SessionOwnership` | login, routes, kicks, leases of one user | - |
| `PushDelivery` | jobs, deliveries, tokens and worker loops of pushService | - |
| `SocialGraph` | friends, a group and relationship requests of friendService | - |
| `StorageService` | storage consumers, both cache levels, the sync cursor | - |
| `MessagePath` | requests, routing and the consumer of the DF containers | extends `StorageService` |
| `CallEventRelay` | the pods that publish the events of calls | extends `MessagePath` |
| `StorageServiceProofs` | lemmas about the storage service | extends `StorageService` |
| `MessagePathProofs` | theorems about the whole message path | extends `CallEventRelay` and `StorageServiceProofs` |
| other `*Proofs` | theorems about the module they extend | - |
| `MC*` | instances for TLC | - |

### KafkaConsumer

State: the log's end, the committed offset, who the broker thinks owns the
partition, and for each member the locals of `ConsumeClaim` and `processWithRetry`
(`pc`, `next`, `marked`, `attempt`, `class`, `cancelled`). `done`, `dlq` and
`refused` record what happened to each message. Actions follow the code: `Fetch`
(the range loop), `StopOnCancel` (the two places that look at the context),
`ProcessSuccess`/`ProcessFailure` (the processor, with any outcome the code
distinguishes on any attempt, a permanent failure after transient ones too; an
unknown outcome is permanent) together with what `processWithRetry` decides on it
(`GivesUp`), `Retry`, `PublishDeadLetter` and its failure (with and without the record stored), `Mark`.
Broker and sarama are external: assignment, auto-commit, revocation, cancellation,
crash. A revoked member goes on working until it notices. Delays are not counted.

### ExactlyOnce and InboxOutbox

An outbox event is an operation of the next service, so operations and events are
one set `Ops` with `Emits`. `Begin` is the insert of the inbox key that finds no
row, `Replay` the one that finds a completed row, `Commit` the rest of the
transaction in one step (its writes are invisible before), with the answer heard or
not, `Rollback` everything else. The relay selects and locks (`ClaimSelect`),
in the order of `created_at` and, for the events of one transaction, of `event_id`;
it commits the claim, publishes (success, or an error with or without the record in
Kafka), and marks under its fence; it can die anywhere. Time is a set of
countdowns, so that a process can pause for any time between two steps.
Rows of one cleanup are assumed to fit one batch. `Deliverable` states what the
code assumes of Kafka: a copy of an operation does not arrive more than
`KAFKA_MAX_REPLAY_WINDOW` after the operation has taken effect. This also bounds the
copies a relay publishes again after a failed mark, which the code does not enforce:
a row that stays claimed or failed for longer than the window is outside the claim.
Attempts and delays are unbounded integers, so that the overflow of the doubling
delay is not met; the code turns it into `MaxBackoff`, as it does every longer delay.
`consumer_operation_results` is deleted by the same job and read by nobody here.
The refinement maps `available` to `topic`; `effects` and `acked` map to themselves.

### CallService

Redis state by key (`state` and `stateTTL` for the session, `userKey`/`userTTL`,
`deadlines`, operation keys `done`, the stream `outbox`). A handler reads and checks
in `Handle` and runs its script in `Initiate`, `Accept`, `Reject`, `Hangup` or
`PushResult`; anything may happen between. The route lookup between the two has any
outcome and is chosen when the script runs. The script compares the stored JSON;
since a session never returns to a state, the state stands for it. The time to live
of a new call's keys is computed in Go before the script runs: it is anything between
what is left of the ring when the script runs and the whole ring. Its rounding to a
millisecond is finer than a tick. Operation keys stay: `NewRedisStore` makes their
time to live longer than the replay window, in which alone a request is delivered
again. `ExpiredRinging` is one step, because what it finds is compared again by the
script, and its limit of 100 is above the calls of an instance. Time is in ticks
of less than a second because deadlines have fractions of a second and scores do
not. Requests that fail their checks answer with an error event and change nothing;
they are not actions.

### SessionOwnership

One user, since every key carries the user id. A connection logs in at most once
with a token of its own; a second attempt after a failed login uses a new token and
behaves as a login of another connection. `LockUser`, `AcquireUserLock`,
`PublishKick`, `Claim`, `CommitLocalLogin` are the stages of `Login`, with `Fail`,
`UndoClaim`, and the two replies that are lost (`AcquireUnheard`, `ClaimUnheard`).
The local commit and the `Close` of the replaced connection are one step.
`Detach` and `CleanupOwnedSession` are the halves of `RemoveConnection`. Any key
with a time to live can expire at any moment; the ghost `disturbed` records when
one expired under a process that was still relying on it, or when a kick was lost or
sent over Kafka, or a claim was applied without an answer. `PublishKick` is one step
with the read of the session: a kick that is published later is received later. The
owner token it names is always there, since only the claim script writes sessions.
Kicks are a set: Pub/Sub keeps order per channel, the model does
not use it.

### PushDelivery

State: the jobs, the delivery rows by kind, subject and token, the token rows, the
VoIP results in the outbox, and for each loop of a pod the claimed tasks and the
locks it holds. A request is one step (`PersistMessageJob`,
`PersistMessageRecallJob`, `PersistVoIPJob`), as is a client command. A claim is one
step unless exhausted rows have to be given up, when it waits for the locks of their
jobs; a finalize locks the job, then its row, and counts in the committed state. A recall
that has nobody to tell but the one who recalls makes no job and cancels nothing.
The two lock orders can meet: `BreakDeadlock` is PostgreSQL's detector, which aborts
one. Leases and retry times are not counted, they pass at any moment. The recall of
a message in storage is one step of its own, since `lockMessageForPush` reads it.

### SocialGraph

One group, since every statement carries its id, and the friendships and requests of
three users. An operation that locks the group row before it reads is one step; one
that reads and later writes is two (`Begin` and the write named after the function),
so that everything can happen between. `Lapse` is the passing of the request window.
The history variable `stale` records that a write followed a check that no longer
held: `KickGroupMemberByWithDB`, `UpdateGroupMemberRoleByWithDB`,
`CreateGroupWithOwnerWithDB` and `RemoveDirectFriendPairWithDB` take no lock, and
section 5 says what this can lead to. `OneOwner` is stated for the
states before such a write, for every other interleaving. That friendships are mutual
is not among the properties: the code does not keep it (section 5).

### StorageService and MessagePath

`StorageService` has the topic, the inbox by index, the rows of messages and users
(abstracted to a version each), both caches and the workers. A message has its
timestamp before its id (`StampMessage`, `StoreNewMessage`) and its row is invisible
until `CommitStore`, which the sync cursor can meet; a query reads, fills the cache
and commits in steps of their own; a change commits and then deletes its key from L1
(`ClearL1`) and from L2 (`Finish`), and queries run between all of these.
`late` records operations whose transaction was open when a later message was paged,
`leaked` the keys that a query left with an old copy after their L1 delete, or whose
L2 delete failed. A page has both halves of the query, messages to the user and
messages of the group since the member joined.

`MessagePath` adds the containers: the connections and routes, the idempotency and
effects keys, the records in the containers' topics and, for each partition
consumer, the record it handles and where it is with it. Sessions are abstracted
from `SessionOwnership` to `Login`, `Disconnect`, `LoseRoute` and `CloseStale`; how
the parts of a login interleave is the subject of that module. A frame is abstracted
to its user, kind and id (an acknowledgement has its client id too), but keeps its
wire format, because what one container forwards is parsed by another one. Every
call of `RouteMessage` can fail, for want of a connection or because Redis or Kafka
fails (`RouteError`), after some of a record's readers were told. An update changes
the row its payload names, whoever sends it. Friend, push and call answers are records for one
user that are sent like an answer. A message to a full send queue, the expiry of the
effects key after 30 days and the fallback for a cursor that cannot be parsed are
left out. `user_messages:<id>` is cleared by the code and read by nothing.

### CallEventRelay

Composes the relay pods with `MessagePath`. An entry of the stream is unread,
pending (new, or old enough to be taken over) or acked; a pod has a batch and a place
in `process`. Time is not counted: an entry turns old at any moment (`TurnsOld`),
also under a pod that is at work on it. A batch is the
set of its entries, of which a pod always processes the one with the least id. Publication can fail with and without the
record stored, the ack pipeline with and without effect, and a pod can die anywhere.
Which events a call writes is `CallService`'s subject; here an event has the user and
the topic its route lookup found.

## 3. Runs

| Run | Question | Instance | States |
|---|---|---|---|
| `kafka` | is a message skipped, reordered, given up early or stuck? | 2 members, 2 messages (the second poison), 1 retry, 2 faults | 956 k |
| `kafka_newest` | does a refused DLQ write block the partition? *violation* | no committed offset, first message poison | - |
| `inbox` | exactly once, no lost event, fencing | 1 source with 2 events (one never publishable), 2 workers, 2 relays | 327 k |
| `inbox_live` | do events arrive although an older one cannot? | the same with 1 relay | 12 k |
| `call` | one call per user, busy index, one story, rings once | 2 callers ring 1 callee, 2 handlers, 1 sweeper, 2 ticks a second | 996 k |
| `call_sweep` | is a ringing call always ended? *violation* | 1 call, a sweep that never fails | - |
| `session` | key agreement, counters, one device, fencing | 2 connections to one container, 1 to another | 1.5 M |
| `session_live` | does a lost kick leave two devices online? | 1 connection to each of 2 containers | 55 k |
| `session_kick` | does the Kafka fallback of a kick work? *violation* | the same | - |
| `push` | are outcomes final, recalls quiet, results true, jobs complete? | 2 pods with 2 loops, 2 attempts; two pushes and a recall of a message, a muted one, a call to two devices, a recall without readers, tokens that change | 750 k |
| `social` | one owner, one open request, consent | 3 users, 2 workers, 4 client requests, 2 request rows | 1.1 M |
| `message` | stored once, pushed once, caches, formats, cursor, call events | 3 users at 2 containers, 2 storage workers, 2 consumers, 2 relay pods, 22 workloads | 883 k |

Why these bounds are enough to be interesting:

- `kafka`: two faults give a zombie plus a crash or cancellation of its successor;
  two messages give an order to break, and the poison one behind the other makes a
  dead letter race a redelivery. Only the poison message never succeeds; every
  attempt of both may fail in either way. `MaxRetries = 1` separates first, last and retried
  attempts. `EverCommitted = TRUE` is the running system; `FALSE` is `kafka_newest`.
- `inbox`: two workers and two relays give every race on a row; `Retention = 0`
  below `ReplayWindow = 1` makes `LoadRetentionConfig`'s correction matter;
  `MaxBackoff = 3` is below the second doubling of 2, so the cap is met;
  `MaxAttempt` only limits how far the counter is told apart. The event that can
  never be published comes before the other in the order of the claim.
- `inbox_live` has one relay: two relays that both pause past their leases again and
  again can take the publishable row from each other for ever, and nothing in the
  code excludes it.
- `call`: calls that share the callee, so that one's end meets the other's keys;
  every duration is one tick, so that each expiry can come between any two steps
  (a handler that is paused sees longer ones); half-second ticks give the rounding.
  With `Ring = 2` the run passes as well (4.1 M states), and the proofs are for every
  duration.
- `session`: replacement inside a container and across containers at the same time.
  `session` uses symmetry for safety only; the exchanged connections have the same
  container. In `call` the callers are exchanged together with their calls.

- `push`: the second attempt is the last one, so that retries, exhaustion and
  takeover meet; a call with two devices gives a job two rows whose senders finish
  together, in the presence of one fault.
- `social`: four requests are enough for a relation to be made, ended and asked for
  again while a stale acceptance is under way; three users give an owner, an admin
  or successor and a member.
- `message`: a behaviour begins with one of the workloads, which say how often each
  kind of event happens (posts, recalls, queries, moves of a session, expiries,
  duplicates, faults, ...). Each is a situation in which parts of the path meet: a
  retry against an expired key, a move against a delivery, a query against a recall,
  a sync against group posts and a member who leaves and comes back, an update
  against a query in every stage, a death against each step of a consumer, two call
  events and a failing pod. Two messages and pages of one make the cursor order matter.
  `MaxRetries = 1`, and a retry can meet other records in between. The workers, the
  consumers and the two direct posts are symmetric.

Deadlock checking is off where the instance is meant to come to rest: the `kafka`
runs when all messages are committed, and the session runs once all connections of
the instance are used up, and `push`, `social` and `message` once their requests are. In the `inbox` and `call` runs it is on.

### Fairness

- `kafka`: weak fairness of every step a running process takes next, of commits and
  of noticing a cancelled context; strong fairness of a successful DLQ write, since
  the code retries it by ending the session and reading the message again. Nothing
  is assumed of the processor: retries are bounded.
- `inbox_live`: strong fairness of commit, claim and successful publication of a
  publishable event (database and Kafka work again and again; `RunOnce` polls every
  250 ms, which is shorter than any backoff), and, for an event that cannot be
  published, of its error and of `markFailure`: no event kills the relay each time.
  Weak fairness of a process's next step and of time. Nothing makes an event that
  cannot be published give way but its backoff, which is what the mutant takes away.
- `call_sweep`: time passes, the ticker sweeps, and a sweep gets through its list.
- `session_live`: only the lease refresher of a logged-in connection, which the code
  runs on a ticker and which closes the connection itself when Redis stays away.

### Mutants

Every property of a passing run has a mutant: an operator next to the definition it
replaces, with the change a plausible bug would make (marked "Mutant" in the
modules). TLC finds the property violated with it.

## 4. What is proved

TLAPS checks these for all values of the constants, under the named `ASSUME`s of
the modules:

| Theorem | Property of the runs | Module |
|---|---|---|
| `ConsumerTypeCorrect`, `NoMessageSkipped`, `OrderKept`, `DeadLettersJustified` | `TypeOK`, `CommittedHandled`, `PartitionOrder`, `DeadLetterJustified` | `KafkaConsumerProofs` |
| `PipelineTypeCorrect`, `EventsNeverLost`, `PublishedStaysPublished`, `ClaimsExclude` | `TypeOK`, `NoEventLost`, `PublishedIsFinal`, `ClaimExclusive` | `InboxOutboxProofs` |
| `ImplementsExactlyOnce` | `Implements`: `InboxOutbox` refines `ExactlyOnce` | `InboxOutboxProofs` |
| `RoutesAgree`, `OwnershipFenced`, `SpecTypeOK`, `SpecCounters`, `SpecOneDevice` | `RouteAgrees`, `OwnerFenced`, `TypeOK`, `Counters`, `OneDevice` | `SessionOwnershipProofs` |
| `SpecTypeOK`, `SpecBusyIndex`, `SpecOneCallPerUser`, `SpecOneStory`, `SpecRingsOnce` | `TypeOK`, `BusyIndex`, `OneCallPerUser`, `OneStory`, `RingsOnce` | `CallServiceProofs` |
| `SpecTypeOK`, `SpecRecallIsQuiet`, `SpecResultIsTrue`, `SpecJobTracksRows`, `SpecTerminalIsFinal` | `TypeOK`, `RecallIsQuiet`, `ResultIsTrue`, `JobTracksRows`, `TerminalIsFinal` | `PushDeliveryProofs` |
| `SpecTypeOK`, `SpecOneOwner`, `SpecOnePending`, `SpecFreshConsent` | `TypeOK`, `OneOwner`, `OnePending`, `FreshConsent` | `SocialGraphProofs` |
| `SpecTypeOK`, `SpecStaleOnlyByRace`, `SpecAcksAgree`, `SpecEffectsOnce`, `SpecLostOnlyByMove`, `SpecSyncComplete`, `SpecCallEventsKept` | `TypeOK`, `StaleOnlyByRace`, `AcksAgree`, `EffectsOnce`, `LostOnlyByMove`, `SyncComplete`, `CallEventsKept` | `MessagePathProofs` (of `RelaySpec`, the whole composition) |

So every invariant and every action property of the passing runs is proved. Each
proof module states its inductive invariant (`IInv`) at the top, proves that every
action keeps it, one lemma per action or per group of actions that change the same
tables, and derives the properties.

**Assumptions.** The kinds of the constants; values that stand for "nothing"
(`None`, `NoUser`, `NoRow`, `Absent`, `Offline`, `Pending`) are none of the things
they are distinguished from; durations, page size and attempt limits that the code
requires to be positive are positive; `Conns` and `Workers` of `SocialGraph` are
finite, which only the counting needs; a request a client can send is of a known
user and kind, as the handlers check. The sets of users, containers, workers, pods,
messages and workloads are otherwise arbitrary.

**KafkaConsumer.** The hypothesis is `SafeStart`: the group has committed before, or
falls back to the oldest offset. Without it the claim is false, which is the finding
of `kafka_newest`. `CommittedHandled` is not inductive: a session could hold a mark
above an unhandled message. `IInv` adds, for each session, that everything below
`next` and below `marked` is handled, that a message is marked only when handled,
and that the locals fit the step (`backoff` only below the limit, a dead letter only
when given up). Handling is never undone (`HandledStable`), which carries these
facts over the steps of other members, zombies included.

**InboxOutbox.** `IInv` ties the inbox to effects: a completed row means exactly one
effect, and an executed operation without a row is older than the replay window,
so that it is not deliverable: this is where `EffectiveRetention > ReplayWindow`
(`RetentionFacts`) is needed. An open transaction is on an operation that has not
executed, and is the only one on it. Every outbox row and every relay's event comes
from an executed operation. The refinement then maps `Commit` to `TakeEffect`,
`Replay` to `Acknowledge`, the publications to `MakeAvailable` and every other step
to a stutter. `ClaimExclusive` is about the commit of a claim, whose selection
happened earlier: `LockInv` says that the row lock carries the selection's finding
over, a claim transaction has its row to itself and a claimed row in it has no lease
left. No lease is renewed under a lock, since marks wait for it.

**SessionOwnership.** `RouteAgrees` needs that a login in progress is of a
connection not yet authenticated and that a cleanup under way is of one that is gone
(`Settled`), because both may run the removal script: only then can the script not
take the session of a connection that is still logged in. `Counters` is proved with
the facts of `FiniteSetTheorems` on adding and removing one element: whichever of
the removals comes second finds the connection gone. `OneDevice` needs what holds
before things have settled (`Exclusive`, until `disturbed`): a login past the lock
holds the lock, a login that has claimed owns the session, a live connection owns
the session or has a kick on its way, and once the login has published its kick
every live connection has one.

**CallService.** `BusyIndex` depends on times: an accept is checked at one time and
committed at another, when the busy keys may have expired. `KeysLive` relates the
times to live: both users' keys last as long as an active session, or as long as a
ringing one has time left, and no key outlasts its session. The script tests the
keys again (`StillHeld`), which is why an accept after the deadline is harmless.
`OneStory` needs `Told`: what a ringing or an active session cannot have said yet,
and that a call that has said anything has its initiate among the done operations,
which outlive the session. From the last part follows `RingsOnce`.

**PushDelivery.** The rows of a job are counted by one transaction and written by
others. `JobTracksRows` therefore needs the locks: at most one finalize has a job
(`JobLocksOK`), the rows an exhausting claim holds are outstanding and nobody
else's (`HeldOK`), and what a finalize has read before its commit is still so
(`WrittenOK`: its own row is still its own, and it completes the job exactly when no
other row is outstanding). `RecallIsQuiet` needs that a recall is enqueued after the message
was marked (`RecallsOK`), which is what stops a later push of it.
`ResultIsTrue` needs that a request still to come has no job (`FutureOK`), hence no
result and no rows that its job would find when it is made.

**SocialGraph.** `LocksOK` says that a locked request row stays as its one
transaction has read it, `TxsOK` what an operation has checked before its write.
`OneOwner` is inductive together with these, because a write
after an outdated check sets `stale`. `FreshConsent` then follows from a step: only
resolving an open, locked request or creating the group adds a relation.

**StorageService, MessagePath, CallEventRelay.** `IInv` is the conjunction of
`StorageInv` (`StorageServiceProofs`, which holds only lemmas: the tables, the inbox,
the caches and what a worker has read), `RouteInv`, `SyncInv` and `RelayInv`.
*Caches*: unless the key is in `leaked`, an old value in L2 has a change of its row
that is not finished, and one in L1 a change whose L1 delete is still to come
(`L1OK`, `L2OK`); the second delete therefore leaves neither cache with it.
*Acknowledgements*: a completed key, a frame and a record in any topic name the row of
their user and client id (`IdemOK`, `FramesOK`, `RecordOK`); rows are only added (`Grows`), so this
survives every other step. *Effects*: an effects key has one consumer
between its claim and the answer, and a push is paid for by the key or by its release
(`EffectsOK`). *Formats*: a user who has not moved is connected, routed and
addressed at home, and what is forwarded there is a request (`HomeOK`, `RecordOK`,
`RoutesOK`). *Cursor*: `Covered` says of a cursor that everything up to it is given
or late, for the client's cursor, for one in a request and for one in an
answer with the ids it carries, over direct and group messages; `CursorOK` that
nothing stored later can fall before it, but a transaction that is recorded as late.
A member that joins again starts in the present second, which no cursor has passed
with a later one: hence `SyncComplete` begins after the second of joining. The lemmas on paging (`LastOfPage`, `PageComplete`) show that a page leaves
nothing out between the two cursors, equal timestamps included. *Call events*: what a pod acks,
or finds in the ledger, was published.

**Model-checked only**: liveness (`EventuallyCommitted`, `EventsReachConsumers`,
`OneDeviceEventually`), which needs fairness and `ENABLED` and is out of the
prover's reach. The three violations are runs of TLC by their nature.

## 5. Findings

1. **A refused dead letter does not always block the partition** (`kafka_newest`).
   `deploy/DATABASE_AND_RELIABILITY.md:82` says it does. All services start at
   `OffsetNewest`; while a partition has no committed offset, the session after the
   failure starts behind the message.
2. **A ringing call can be forgotten by the sweep** (`call_sweep`). The score of a
   deadline is rounded down to a second; a sweep in that second, before the
   deadline, takes the call out of the set as not expired
   (`store.go:251-256`), and no later sweep sees it.
3. **The Kafka fallback of a kick is never recognised** (`session_kick`). The
   pattern has three groups, `FindStringSubmatch` returns four strings, and
   `message_processing.go` compares the length with 3. The lease refresh still
   closes the old connection later (`OneDeviceEventually`).

### Observations

What the modules showed besides. No run states these as violations: the property in
question names the exact condition instead, and holds in every other case.

- *Kick and appointment races* (`SocialGraph`, `stale`). `KickGroupMemberByWithDB`
  deletes the member by id after an unlocked look at the role: a member that becomes
  owner in between is kicked, and the group has an owner id without a member
  (`services/friendService/README.md:24` says that nobody may kick the owner). A role
  change can likewise overwrite the owner's role, and the revival of a deleted group
  by two users at once can leave two owners.
- *Friendship races.* `RemoveDirectFriendPairWithDB` removes the two directions one
  after the other, without a lock: when a request between the two users is accepted
  in between, one direction is removed and the other stays, a friendship that only one
  side has (`services/friendService/README.md:7` promises that the acceptance
  atomically creates "双向好友关系", a friendship in both directions). `SocialGraph` has
  this behaviour (`RemoveOtherDirection`). A friendship that is
  made again keeps its old alias and notification flag.
- *Effects after a release.* `services/dataForwardingService/MESSAGE_IDEMPOTENCY.md:20` says that the effects
  key keeps a repeated storage response from delivering again;
  `DeliverStoredPost` requests the push before it routes and releases the effects key
  when the routing fails, so that a redelivered response pushes again. `EffectsOnce`
  is stated with that exception.
- *Formats across containers.* `SendMessage` of an answer or event to a user who has
  moved forwards a ResponseMessage in a DF_REQUEST; the other container parses it as
  a RequestMessage, finds no post and dead-letters it. The reverse happens to a post
  that was built for another container and meets a local connection. `LostOnlyByMove`
  says that nothing else loses a frame this way.
- *Sync cursor.* A message whose transaction was open while a later id was paged is
  behind the cursor when it becomes visible; the same holds for a message that took
  its timestamp earlier than its id. A member that leaves and joins again within one
  second can have a cursor past messages of that second that it may now read.
  `SyncComplete` names both exceptions.
- *Caches.* A query that read before a recall or update and fills after its clear
  leaves the old copy for 5 minutes. So does one that runs between the two deletes of
  `clearCacheKeys`: L1 is empty, L2 still has the old value, and `getFromCache` writes
  it back to L1 (`handler.go:604-606`). Deleting L2 first would close the second of
  these. `StaleOnlyByRace` names both.
- *Profiles.* `handleUpdateUserName` and `handleUpdateUserAvatar` pass the user id of
  the payload on without comparing it with the user of the connection
  (`module_storage.go:185-190`, `211-216`), and storage does not compare either: the
  model's updates may be of any user's row.
- *Unheard claims.* A claim that Redis applied but did not answer fails the login
  without a cleanup: until the leases end, session and route name a connection that
  is not logged in, and what is routed there is not delivered.
- *Call events.* After a failed publication later events overtake the failed one,
  which is taken up 30 s later: a user can see CALL_ENDED before INCOMING_CALL.
- *Device tokens.* A token registered by another user moves with its row, and
  deliveries that wait for the former user are sent to it (`API_DOCUMENTATION.md:27`
  describes the move only).

## 6. Plan

The core is modelled and its safety properties are proved. What is left, in this
order:

1. Proofs: an abstract specification of the call state machine and of a push job,
   with the refinements; shorter arguments where two proof modules need the same
   lemma.
2. `AuthKeys`: creation and rotation of signing keys by compare-and-set.
3. `ABTest`: rule evaluation as operators, against a reference definition.

## 7. Not modelled

Message formats, protobuf code, logging, metrics and HTTP handling; the APNs client
and push reports; the object store behind the file server; migrations, which run
once under an advisory lock; reports of the monitor bot; authentication (signing keys
and passwords, of which only concurrent first logins are delicate) and the A/B test
service (pure evaluation behind an HTTP store); aliases, notification flags, names
and avatars of friends and groups, plain queries of them, and queries about files; `get_config`,
`ice_candidate` and `resume_call`, which change no state. Redis and PostgreSQL are
modelled as they are used (a script or transaction is atomic, a committed row
stays); failover of either with loss of acknowledged writes is not.
