# Hefest API: TLA+ models, checks and proofs

Hefest is a school-event service: organizers publish events with a capacity,
students register and are confirmed or waitlisted, and every change is told to
them by email.  It runs as an API process (FastAPI, Tortoise ORM, PostgreSQL)
that writes notification rows in the transaction of the business change, and
as worker processes that turn those rows into emails.  This directory holds
TLA+ models of its stateful parts, TLC configurations for small instances, and
TLAPS proofs for all instances.

## 1. Inventory

| Component | Code (`src/hefest/`) | State it keeps | Operations | Correct means |
|---|---|---|---|---|
| Notification worker | `worker/claim.py`, `consumer.py`, `heartbeat.py`, `__main__.py` | lease columns of `notification_jobs`; per process: drain position, batch, heartbeat clock, per-job tasks | claim, reap, renew, send, finalize, retry, self-abort, stop, restart | at-least-once delivery; one closing write per job; no healthy worker loses a lease; every job settles |
| Outbox table | `models/notification_job.py` | status, attempts, locked_by, heartbeat_at, next_attempt_at, unique key | inserted by the API, changed by workers | one row per fact, terminal rows final |
| Registration service | `services/registration.py` | `registrations` | register, cancel with promotion, list own | no overbooking, FIFO, one active registration per student, jobs agree with rows, positions shown are true |
| Event service | `services/event.py` | `events` | create, publish, update, cancel with fan-out | a cancellation reaches every registered student |
| Accounts and sessions | `services/auth.py`, `routers/auth.py`, `routers/sso.py` | `users`, `oauth_identities`, `refresh_tokens` | sign up, verify, login, rotate, log out, change password, OAuth sign-in | one live token per session, no account stranded |
| Wake-up | `consumer._listen`, `run`, `migrations/0004` | wake flag, LISTEN connection | NOTIFY, reconnect, poll | no lost wake-up; new jobs need no poll |
| Mailer pool | `worker/mailer.py` | pool of SMTP clients | check out, connect, send, return | a client is never lost or shared, the shutdown misses none |
| Push, devices | `worker/pusher.py`, `services/device.py` | `devices` | register, unregister, prune | best effort, never changes a job; no device is lost without cause |
| Rate limiter | `middleware/rate_limit.py`, `routers/internal.py` | a sorted set per key in Redis | check, flush | at most `limit` requests per window, honest Retry-After, no lockout, each user counted alone |
| Reads, HTTP, config | `services/stats.py`, routers, `config.py`, ... | none | lists, counts, wiring | - |

How they interact.  A request of the API commits business rows and job rows
together.  The trigger on `notification_jobs` notifies the workers; a worker
claims due rows (`FOR UPDATE SKIP LOCKED`), commits, sends without a
transaction and finalizes each row behind the fence
`locked_by = me AND status = 'processing'`.  A heartbeat task renews all leases
of a process; any worker's reaper releases the leases that are too old.  API
requests meet each other only through the database: the event's row lock, the
unique indexes, and the reads that take no lock.

What is hard here: workers that lose a lease while they send; commits whose
answer is lost; processes that stop between send and finalizer; timers
(renewal, reaper, backoff) racing each other; requests that decide on a read
which is stale when they write; an UPDATE that waits for a lock and goes on
with its old snapshot.  `PROJECT.json` lists these hazards at their lines with
the properties that would catch each one going wrong.

## 2. Modules

| Module | Models |
|---|---|
| `Outbox` | the worker pipeline over the job rows |
| `Delivery` | abstract specification: what the pipeline promises for one row |
| `Booking` | event and registration services as concurrent requests |
| `Accounts` | accounts and refresh-token sessions as concurrent requests |
| `Wakeup` | `Outbox` composed with NOTIFY, the LISTEN connection and the wake event |
| `SendContract` | abstract specification: what one send promises, and `Outbox` relies on |
| `SendPath` | the inside of a send: SMTP pool, push, devices, shutdown |
| `RateLimiter` | rule, key and sliding-window script of the rate limiter |
| `OutboxProofs`, `OutboxFaultProofs`, `WakeupProofs`, `BookingProofs`, `AccountsProofs`, `SendPathProofs`, `RateLimiterProofs` | theorems about the module they are named after, with their lemmas (section 4) |
| `MCOutbox`, `MCWakeup`, `MCBooking`, `MCAccounts`, `MCSendPath`, `MCRateLimiter` | symmetry sets and settings for TLC |

`Wakeup` extends `Outbox`: every step of the worker is a step of `Outbox` with
what it does to the channel.  `SendPath` opens up what `Outbox` does in
`StartSend` to `SendTransient`; `SendContract` is the interface between the
two, and `SendPath` is checked to implement it.

Operators whose comment says *mutant* are deliberate mistakes.  Each stands
before the operator it spoils; put in its place, it makes the property listed
with it in `PROJECT.json` fail.  The specifications do not use them.

### Outbox

* Every SQL statement of `claim.py` and `heartbeat.py` is one atomic step: the
  code runs one statement per transaction.  The rows are functions from `Job`;
  `hb_age` and `due_in` are `heartbeat_at` and `next_attempt_at` relative to
  now, in ticks.  Ages saturate one past `ReaperIdle`, the only value they are
  compared with.  A new job is due at once: the API sets `next_attempt_at` by its
  own clock, which is assumed not to be ahead of the database's.  With an API
  that is ahead, a new job is due only after that skew and a NOTIFY finds nothing.
* A `Worker` is one process incarnation.  `__main__` mints a fresh
  `host:uuid`, so a restarted process is another worker.  `pc` is the consumer
  task: `reap`, `claim` and `work` are the stages of `_drain`, `wait` is the
  wait in `run`.  `step[w][j]` is the task of the batch that processes `j`:
  queued behind the semaphore, sending, accepted by the SMTP server, or one of
  the three finalizers.
* `Claim` takes the earliest due rows up to the batch size and skips locked
  ones.  Only a lock that ends in a rollback matters (`RowLocked`): skipping a
  row whose holder commits is the same as running after that commit.
* Failures: `StopWorker` (any signal), `Disconnect`/`Reconnect`, and the lost
  reply in `SendTransient` are counted in `faults`.  A statement that fails
  while the database is out of reach may or may not have committed
  (`ReapError`, `ClaimError`, `FinalizeError`, `RenewFail`).  A database error anywhere but
  in the finalizer retry and in the heartbeat ends the process, as the
  exception leaves the `TaskGroup` and `_run` shuts down.
* The push send sits between acceptance and `mark_completed`; it swallows
  every error and is part of `SendOk`.
* `Tick` waits for renewals that are due: the heartbeat is its own task, the
  drain loop yields, and a renewal takes far less than an interval.  This is
  an assumption on scheduling; a loop blocked for minutes is not modelled.

### Booking

* The variables hold committed rows.  A request in a slot is a sequence of
  steps cut where another request can come between: `register_student`,
  `cancel_registration` and `cancel_event` hold the event's row lock from their
  first step to the commit; `publish_event` and `update_event` run without a
  transaction, so their read and their write are two steps, and the write
  waits for the row lock like any UPDATE.
* Registrations are numbered in the order of `registered_at`.  The time is
  taken while the event's lock is held, by the clock of the API process; the
  clocks of several processes are assumed to agree on the order.  `starts` is the start time as the code compares it: beyond the
  location lock, within it, or passed; `Advance` moves it.
* `jobs` holds idempotency keys.  A key that is taken makes the insert fail and
  the transaction roll back (`CancelEventConflict`).  `Abort` is a request that
  dies anywhere.
* `list_my_registrations` reads the student's rows (`ListRead`) and counts the
  position of each waitlisted one in a statement of its own (`ListCount`).  The
  model follows one such row; the answer is `Position` at any state before
  `ListCount`, so `ListedPositionIsSafe` is an invariant.
* Left out: ownership and 404 checks (they change nothing), titles and other
  text, the other read-only queries.

### Wakeup

* `conn` is the worker's LISTEN connection, `signal` a notification under way
  on it, `wake` the event.  `Notify` is `Enqueue` with the trigger: row and
  signal at one COMMIT.  The connection may drop at any time (`Drop`), with what
  is under way; it is not the pooled connection that `Disconnect` cuts.
* `run` clears `wake` and starts the drain in one step (`Wakened`, `Polled`):
  there is no await between the two.  During a drain `wake` is left alone.
* `DropEscapes` is the loss that ends the task (see section 3).
  `PollSettlesEveryJob` assumes of one worker that it stays up and that its waits
  time out, and of its LISTEN connection nothing: every job settles.

### SendPath

* A task holds a semaphore slot from `Begin` to `Done`.  A client is closed,
  connected without login, or ready; `tainted` remembers a login that failed on
  the connection it still has.  An exception at any await returns the client
  (`PutBack` in `Fail` and `Cancel`).
* `Stop` is whatever ends the process in good order: a signal, a lost lease,
  an unexpected error of one task, whose siblings the `TaskGroup` cancels.
  `Close` comes after the cancelled tasks have ended; a client whose QUIT fails
  is `unquit`: `aclose` suppresses the error, and the connection may stay open
  until the process ends.  `Restart` is the next process, with new clients.  A
  process that is killed leaves nothing behind that this module follows.
* `update_or_create` is `Rebind` when the row exists (select for update), and
  `NotFound` and `Create` otherwise, with other requests in between.  Expo
  answers by `alive`; the tokens it reports are deleted by value (`Prune`).
* The refinement maps a task to queued, sending, accepted or its outcome.  A
  stopping process counts as stopped: its outcomes are dropped.

### RateLimiter

* A request takes its time (`Arrive`) and its script runs up to `MaxDelay`
  ticks later (`Admit`, `Block`), or fails (`Error`).  Scores are kept as ages;
  `Sec` ticks make a second, so that rounding is visible.  `recent`, `promise`
  and `served` are history.
* A sorted set is the function from its members to their ages.  Members are
  unique (`uuid4`): `new_member` is one that neither the set nor the history
  refers to.  `Member` bounds how many are in use at once; five are never used
  up in the run.  `ZRANGE 0 0` may return any of the oldest (`Oldest`).
* A script may run so late that the Retry-After it gives is over at once; the
  promise is then 0.
* `verified_user_id` is modelled by what PyJWT does with a token that has an
  audience when none is asked for: it refuses it.

### Accounts

* An email stands for its user (unique, never changed, never deleted).
  `token` is the state of a refresh token, `root` the token of the sign-in it
  stems from.  `rotate_refresh_token` holds the token's row lock between
  `Rotate` and `RotateCommit`.
* `revoke_all_for_user` is two steps: the UPDATE takes its snapshot
  (`RevokeAll`), waits for locked rows and writes what it saw
  (`RevokeAllCommit`).  A token that a rotation commits in between is not
  touched, as in PostgreSQL.  `before` is history: the active tokens when the
  new password was written, or when logout-all began.
* `find_or_create_oauth_user` decides on its reads (`OAuth`) and writes in the
  same transaction (`OAuthCommit`).  After a unique violation PostgreSQL refuses
  every further statement of the transaction, so the second `_inner()` fails
  and all is rolled back (`OAuthConflict`).
* Left out: hashing and JWT encoding, cookies, display names.  Expiry only
  makes a rotation refusable, so the model without it has every behaviour.

## 3. Runs

Passing runs:

| Run | Instance | Checks | Shows |
|---|---|---|---|
| `outbox` | 1 job, 3 worker incarnations, 2 faults | `TypeOK`, `FenceNamesTheClaim`, `OneEmailPerAttempt`, `CompletedWasSent`, `DuplicatesNeedFaults`, `ExtraAttemptsNeedFaults`, `TerminalIsFinal`, `AtLeastOnce` | late outcomes are discarded; every duplicate and every attempt beyond the cap is paid for by a fault; the pipeline implements `Delivery` |
| `outbox_liveness` | 1 job, 2 workers, 1 fault, fair | `EveryJobSettles` | a job of a dead or aborted worker is found and finished |
| `wakeup` | 2 jobs, 1 worker, batch 2, 1 send slot, 1 fault, LISTEN lost at will, fair | `NoLostWakeup`, `NewJobsNeedNoPoll`, `PollSettlesEveryJob`, `NoOrphanLease`, `ReapedOnlyIfSilent` | clearing before the drain and the catch-up after a reconnect lose no signal; the poll alone suffices when the listening task has ended; a queued row keeps its lease; no lease without a task |
| `send_path` | 3 jobs, 2 slots and clients, 2 users, 1 push token | `TypeOK`, `ClientsConserved`, `LoginSkippedOnlyAfterFailure`, `ShutdownMissesNoClient`, `DevicesAreKept`, `KeepsSendContract` | the pool survives every failure and cancellation, and the shutdown finds every client in it; a failed push never causes a resend; a device row goes only for a reason |
| `booking` | 3 students, 3 registrations, 2 requests, capacity (1 or 2) and start edited | `TypeOK`, `SeatsGoToEarliest`, `JobsTellTheStory`, `CancellationReachesEveryone`, `PositionOnlyImproves`, `ListedPositionIsSafe`, `OverbookingNeverGrows`, `RegistrationLifecycle` | rows, jobs and shown positions agree under every interleaving; the lock also orders a capacity change against a newcomer; a promotion exchanges one seat for one that is cancelled |
| `booking_liveness` | 2 students, 2 requests, location edited, fair | `EveryRequestEnds` | no deadlock, no lock left behind |
| `accounts` | 2 emails, 1 subject, 2 clients, 3 tokens, 2 requests | `TypeOK`, `SessionIsAChain`, `EveryAccountHasAWayIn`, `OnlyVerifiedSignIn`, `DecisionsStand`, `OldTokensEnd` | rotation is linear; a new password ends the tokens there were; sign-up, verification, password change and OAuth do not strand an account |
| `rate_limiter` | limit 2 per 2 s in half-second ticks, 2 requests in flight, delay 1 tick, fair | `TypeOK`, `WindowLimit`, `RetryAfterHonest`, `NoLockout` | out-of-order scripts cost at most the delay; who waits as told is let in; blocked requests do not prolong the block |

Runs that refute a sentence of the documentation:

| Run | Sentence | What happens |
|---|---|---|
| `outbox_no_duplicate` | README: "a retry can never send a duplicate notification" | the reply to an accepted email is lost, or the worker stops before its finalizer: the email goes out again |
| `booking_publish` | `publish_event`: "409: If the event is not in DRAFT status" | a cancellation between read and write is overwritten |
| `rate_limiter_user` | rules and tests: event registrations are counted per user | the access token's `aud` makes `jwt.decode` refuse it; users of one address share a limit |
| `accounts_reuse` | `rotate_refresh_token`: reuse "revokes whole family" | the exception rolls the revocation back |

Disagreements without a run.  More sentences are stronger than the code; each
was found in the model, and what does hold is checked where it can be said.

* README, "FIFO waitlist": `update_event` may raise the capacity while students
  wait and promotes nobody; the next newcomer is confirmed ahead of them.
  `SeatsGoToEarliest` holds while the capacity is left alone.
* A capacity that may be lowered below the seats taken (`update_event` does not
  compare them): `cancel_registration` promotes for every confirmed registration
  it cancels, without looking at the capacity (registration.py:193-205), so an
  event that was cut from 2 to 1 stays at 2 as long as anyone waits.
  `OverbookingNeverGrows` is what holds: newcomers are kept out, and a promotion
  adds no seat.
* `update_event`, no change of location "within 2 hours of the event start":
  its `FOR UPDATE` read runs outside a transaction, so another update or the
  clock may come between the check and the save.
* `change_password`, "every refresh token for the user is revoked": a rotation
  that commits during the UPDATE leaves its new token active.  `OldTokensEnd`
  is what holds.
* `_listen`, "Reconnects with backoff on drop": when asyncpg has seen the loss
  before `SELECT 1`, it raises `InterfaceError`, which is neither an `OSError`
  nor a `PostgresError`; the task ends and the worker only polls.
* `register_device`, the token "is re-bound": when two users insert the same
  new token at once, the loser is handed the winner's row unchanged.
* `Pusher`: a token reported dead is deleted by value (pusher.py:108), also when
  it was registered again while the report was on its way.  `DevicesAreKept`
  exempts that case and bounds the loss to it.
* `Mailer.aclose`, "Gracefully close every pooled client": a failed QUIT is
  suppressed (mailer.py:205-206) and the client dropped; its connection may stay
  open until the process ends.  `ShutdownMissesNoClient` is what holds.
* `change_password` that stops between saving the hash and the revocation leaves
  every session alive; `OldTokensEnd` speaks of revocations that were carried out.
* `SLIDING_WINDOW_LUA` as a limit per window: in a whole window one more
  request than `limit` may be let in when scripts run out of order; in a window
  less the delay it may not (`WindowLimit`).
* `worker_max_attempts` does not cap claims, only transient errors are compared
  with it: `ExtraAttemptsNeedFaults` states the bound that does hold.
* A worker that aborts itself may still hold a fresh lease, claimed after its
  last renewal; safety rests on the fence, not on the abort.

Bounds.  Interval 1 and reaper idle 2 keep the order of the code's 90 s and
300 s: one missed renewal is harmless, a second is not.  Two attempts have a
retry and an exhausted one; two finalizer tries have a retry and an exhausted
budget (the code has three of each, which adds nothing but repetition).  Batch
2 over one slot puts a row behind the semaphore; reap batch 1 makes the reaper
loop.  Two faults let a second worker lose a lease after a first one did.  Three
students over capacity 1 or 2 give a waitlist of up to two, and three
registrations of fewer students let one come back.  Two requests suffice for the races,
each of which is between two requests.  Three tokens let two rotations of one
token both succeed if they could.  Three jobs over two slots make one wait;
all tokens of a user fit in one Expo request.  Limit 2 in a window of 4 ticks
has room for two requests with different ages, and a delay of one tick swaps
them.  In `wakeup` the reaper's idle time is 1 and finalizers are tried once,
which the signals do not depend on.  Symmetry is used in safety runs only.

Fairness.  `Wakeup`: as `Outbox`, but nothing is asked of the poll, and a drop
may happen any number of times; `_listen` runs when it can and a wait ends when
`wake` is set.  `PollSettlesEveryJob` alone supposes fairness of one worker's
poll, in its own hypothesis.  `RateLimiter`: time passes and Redis answers or fails; nothing
is asked of clients.  `Outbox`: time passes, a stopped process is replaced
(`restart: unless-stopped`), asyncio runs ready tasks, a send ends
(`smtp_timeout`), a wait ends (`worker_fallback_poll_interval`).  Nothing is
assumed of faults, enqueuing or `Reconnect`.  `Booking`: strong fairness of a
request's next step, because PostgreSQL queues the waiters of a row lock.

## 4. Proofs

Every safety invariant, action property and refinement that a passing run
checks is also a theorem, for every value of the constants.  TLC checked each
inductive invariant below on the instance of its run before it was proved.

| Module | Theorems (each says that its specification implies the property) |
|---|---|
| `OutboxProofs` | `TypeCorrect`: `TypeOK`; `FenceSound`: `FenceNamesTheClaim`; `NoLeaseOrphaned`: `NoOrphanLease`; `OneEmailPerAttemptHolds`; `CompletedWasSentHolds`; `ReapedOnlyIfSilentHolds`; `TerminalIsFinalHolds`; `ImplementsDelivery`: the refinement `AtLeastOnce` |
| `OutboxFaultProofs` | `DuplicatesArePaid`: `DuplicatesNeedFaults`; `AttemptsArePaid`: `ExtraAttemptsNeedFaults` |
| `WakeupProofs` | `WakeupImplementsOutbox`: `Spec_Wakeup => Spec`; `LeasesSurviveTheChannel`: `NoOrphanLease`, `ReapedOnlyIfSilent`; `NoWakeupIsLost`: `NoLostWakeup` |
| `BookingProofs` | `TypeCorrect`: `TypeOK`; `LifecycleKept`: `RegistrationLifecycle`; `JobsAreTheStory`: `JobsTellTheStory`; `CancellationsReach`: `CancellationReachesEveryone`; `NoStepAddsOverbooking`: `OverbookingNeverGrows`; `FirstComeFirstServed`: `SeatsGoToEarliest`; `PlacesImprove`: `PositionOnlyImproves`; `ListsAreSafe`: `ListedPositionIsSafe` |
| `AccountsProofs` | `TypeCorrect`: `TypeOK`; `NoDecisionUndone`: `DecisionsStand`; `SignInNeedsVerification`: `OnlyVerifiedSignIn`; `NoAccountLockedOut`: `EveryAccountHasAWayIn`; `SessionsAreChains`: `SessionIsAChain`; `RevocationEndsSessions`: `OldTokensEnd` |
| `SendPathProofs` | `TypeCorrect`: `TypeOK`; `ClientsAreConserved`: `ClientsConserved`; `ShutdownIsComplete`: `ShutdownMissesNoClient`; `LoginIsNotForgotten`: `LoginSkippedOnlyAfterFailure`; `NoDeviceIsLost`: `DevicesAreKept`; `ImplementsSendContract`: the refinement `KeepsSendContract` |
| `RateLimiterProofs` | `TypeCorrect`: `TypeOK`; `LimitHolds`: `WindowLimit`; `RetryAfterIsHonest`: `RetryAfterHonest` |

Assumptions.  The named `ASSUME` of each module: the values that stand for
"none" are no users, workers, clients or numbers, and settings are natural
numbers, positive where the code needs it.  `Outbox` also assumes that the
backoff of the attempts up to the cap is a natural number (the provers have no
exponentiation; TLC evaluates the assumption).  `RateLimiter` assumes that a
script is delayed by less than a window.  The two theorems of
`OutboxFaultProofs` have a hypothesis of their own, `Interval <= ReaperIdle`:
with a longer interval the reaper takes rows from healthy workers and a
duplicate needs no fault.  `config.py` demands more ("must stay <= 1/3 of
worker_reaper_idle_seconds").

### Outbox

Three inductive layers, each using the ones before it.  `TypeInv` adds to
`TypeOK` that a task about to retry has a legal attempt number.  `LeaseInv` is
the core: the fence compares `locked_by`, which names a process and not a
claim.  That is sound only because a process that does not run holds no task, a
process that is not working has none either, a process that has not started
holds no row, and a living process has a task with the current attempt for
every row it holds.  So a process never claims a row of which it has an older
task.  `MailInv` adds that the tasks of different workers for one row carry
different attempts, that a task about to complete has sent its email, and that
unsent tasks carry unused attempts.  `ReapedOnlyIfSilent` is inductive next to
the first two: it needs that a process starts without rows, that a claim and a
renewal reset the age of a lease, and that both clocks saturate at the same
value.  `TerminalIsFinal` needs the types alone, since the reaper and the claim
select by status and the finalizers are fenced.  The refinement follows step by
step: a fenced finalizer closes an open row, `Accept` sends, everything else
stutters.

### Outbox, counting faults

The bounds compare a count with `faults`, so the invariant is an account that
each step keeps balanced.  For one job, the emails sent, plus the tasks that
may still send one, plus one if the row can come to be claimed again, are at
most `1 + faults` (`EmailsPaid`).  A claim turns the last term into a task and
an acceptance turns a task into an email; only a fault adds a term: a lost
reply makes an accepted email a retry, a stop leaves a row to the reaper, and a
worker cut off from the database may lose its rows while its tasks go on.  A
leased row counts as claimable as soon as its owner is gone, cut off, or due to
renew too late (`AtRisk`): the reaper then only collects what is booked.  That
a healthy owner's lease never gets there is where `Interval <= ReaperIdle` is
used.  `AttemptsPaid` is the same account for attempts: those counted, those
that idle workers cut off from the database may still count without learning of
it, and the next one are at most `MaxAttempts + faults`.  `Owned` and `OffPaid`
(no more workers are cut off than faults happened) support the two.

### Wakeup

Every step of `Wakeup` is a step of `Outbox` or leaves its variables alone, so
the theorems about `Outbox` carry over.  `NoLostWakeup` needs to know where the
signal of an unclaimed new job is (`WakeInv`).  A new job is due (`NewIsDue`),
and without a fault nobody is cut off (`Connected`).  `SeenByAll` extends the
property from workers that wait to workers that will wait without another
claim: one of those that listens, with neither `wake` set nor a signal under
way, leaves no new job.  That `run` clears `wake` before the drain, that a
drain ends only after a claim that was not full, and that a reconnect sets
`wake` after LISTEN are the facts that keep it.

### Booking

`TypeInv` ties the locals of a request to its program point.  What matters is
what a request may rely on between two steps: the holder of an event's row lock
is alone, so what it counted or found still holds when it writes
(`DecisionHolds`).  `StoryInv` adds to `JobsTellTheStory` that a registration
that does not exist has no jobs and that who waits was told so.  `SeatsInv` is
`SeatsGoToEarliest` with `DecisionHolds` and, while the capacity is left alone,
no overbooking: a newcomer, who comes last in the order, is confirmed only if
fewer than `capacity` are, and a cancellation promotes the first who waits,
which shifts the count of everyone behind by one.  `NoStepAddsOverbooking` needs
`DecisionHolds` for newcomers and, for promotions, only that the head of the
waitlist is one registration.
`PlaceInv` and `ListInv` say that those ahead of a waitlisted registration only
become fewer: new registrations come later in the order.

### Accounts

`TypeInv` again ties locals to program points, and says that an account exists
before what refers to it.  `SessionInv`: two requests never rotate one token
and the one that does finds it active until its commit (row lock), tokens are
numbered in the order of their insertion, and a live token is the last of its
session.  `SnapshotCovers` is about the UPDATE
that waits: each token that was active when the revocation began is revoked
already, or in the snapshot it will write.  That a rotation
which commits meanwhile revokes the token it rotates is what makes the two
cases exhaustive.

### SendPath

`TypeInv` contains what the pool needs: every client is in the pool once or
held by one task, a task that is past check-out and not yet finished with its
email holds one, and tasks with a slot are at most `Concurrency`.  That a task
with a slot never waits for a client is then a pigeonhole argument: an empty
pool would put `Concurrency` clients in the hands of fewer other tasks.
`LoginInv` follows a connection from connect to login; `DeviceInv` says that a
token on its way to be pruned is in doubt.  In the refinement of `SendContract`
the semaphore bounds the tasks in flight, and the outcome is fixed when the
mail server answers: no step of the push changes it.

### RateLimiter

`TypeInv` has the limit: a script adds only below it.  `WindowInv` adds that a
key lives until its youngest member is a window old, and that an admitted
request younger than a window is still in the set (`RecentKept`).  When a
script counts, whatever was admitted within `window - MaxDelay` of its own time
is younger than a window, whatever the order, and therefore counted.
`PromiseInv` says that when the Retry-After given out is over, fewer than
`limit` of the present members count: the wait is rounded up, so the oldest
member is then a window old.

### What stays with TLC

* Liveness: `EveryJobSettles`, `NewJobsNeedNoPoll`, `PollSettlesEveryJob`,
  `EveryRequestEnds`, `NoLockout`.  Fairness is out of the prover's reach.
* The runs that refute a sentence: a counterexample needs no proof.

## 5. Plan

What is left, in this order:

1. An abstract booking specification in which a request is one step, refined
   by `Booking`, checked and proved: it would say in one formula what the
   invariants of `Booking` say in parts.
2. The same for sessions: a session as one live token or none, refined by
   `Accounts`.
3. Booking and Outbox composed: each registered student of a cancelled event is
   eventually emailed or the job fails.

## 6. Not modelled

* Statistics, job inspection and the organizer's lists: single reads.
* Templates, schemas, logging, routers and `main.py`: text, validation and
  wiring without state; a template error is a failed send.
* Migrations other than the trigger of 0004, seeds and CI scripts.
* Pruning when a user has more than 100 tokens, and an asyncio loop that is
  blocked for minutes.
