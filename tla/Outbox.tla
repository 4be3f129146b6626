------------------------------- MODULE Outbox -------------------------------
(***************************************************************************)
(* The notification worker (hefest/worker): fenced claims, lease renewal,  *)
(* reaper, finalizers and the drain loop, over the notification_jobs table *)
(* that the API fills.                                                     *)
(*                                                                         *)
(* Every SQL statement is one atomic step (READ COMMITTED, one statement   *)
(* per transaction); everything between two statements interleaves.  A     *)
(* worker is one process incarnation: its fencing token host:uuid is fresh *)
(* at every start, so a dead incarnation never comes back.  Time is        *)
(* counted in ticks; a duration is stored as an age or as a remaining time *)
(* and saturates one past the last value the code compares it with.        *)
(***************************************************************************)
EXTENDS Integers, FiniteSets

CONSTANTS
    Job,            \* rows the API may insert
    Worker,         \* worker process incarnations
    NULL,           \* the SQL NULL of locked_by
    MaxAttempts,    \* worker_max_attempts
    BackoffBase,    \* worker_backoff_base_seconds
    ClaimBatch,     \* worker_claim_batch_size
    ReapBatch,      \* worker_reap_batch_size
    Concurrency,    \* worker_send_concurrency
    Interval,       \* worker_heartbeat_interval
    ReaperIdle,     \* worker_reaper_idle_seconds
    FinalizeMax,    \* _FINALIZE_MAX_ATTEMPTS
    MaxOverdue,     \* bound: how far into the past due times are told apart
    MaxFaults       \* bound: process stops, outages and lost replies

ASSUME NullAssumption == NULL \notin Worker
ASSUME SettingsAssumption ==
    /\ MaxAttempts \in Nat \ {0} /\ BackoffBase \in Nat
    /\ ClaimBatch \in Nat \ {0}  /\ ReapBatch \in Nat \ {0}
    /\ Concurrency \in Nat \ {0} /\ Interval \in Nat \ {0}
    /\ ReaperIdle \in Nat        /\ FinalizeMax \in Nat \ {0}
    /\ MaxOverdue \in Nat        /\ MaxFaults \in Nat

VARIABLES
    status, attempts, locked_by,    \* columns of notification_jobs
    hb_age,     \* now - heartbeat_at, of a processing row
    due_in,     \* next_attempt_at - now
    pc,         \* where the worker's consumer task is
    full,       \* len(jobs) = batch_size for the batch in hand
    beat_in,    \* time until the heartbeat task's next renewal
    stale,      \* monotonic() - last_success of the heartbeat task
    reachable,  \* can this process reach the database?
    step,       \* per-job task of the TaskGroup: what it does next
    att,        \* ClaimedJob.attempts of that task
    tries,      \* failed commits of that task's finalizer
    emails,     \* history: the attempts whose email the SMTP server accepted
    faults      \* stops, outages and lost replies so far

rows  == <<status, attempts, locked_by, hb_age, due_in>>
procs == <<pc, full, beat_in, stale, reachable>>
tasks == <<step, att, tries>>
vars  == <<rows, procs, tasks, emails, faults>>

Status    == {"absent", "pending", "processing", "completed", "failed"}
Gone      == {"off", "dead", "aborted"}
Finalizer == {"completed", "retry", "failed"}
Step      == {"none", "queued", "sending", "accepted"} \cup Finalizer

TypeOK ==
    /\ status \in [Job -> Status]
    /\ attempts \in [Job -> Nat]
    /\ locked_by \in [Job -> Worker \cup {NULL}]
    /\ hb_age \in [Job -> 0 .. ReaperIdle + 1]
    /\ due_in \in [Job -> Int]
    /\ pc \in [Worker -> Gone \cup {"reap", "claim", "work", "wait"}]
    /\ full \in [Worker -> BOOLEAN]
    /\ beat_in \in [Worker -> 0 .. Interval]
    /\ stale \in [Worker -> 0 .. ReaperIdle + 1]
    /\ reachable \in [Worker -> BOOLEAN]
    /\ step \in [Worker -> [Job -> Step]]
    /\ att \in [Worker -> [Job -> Nat]]
    /\ tries \in [Worker -> [Job -> 0 .. FinalizeMax - 1]]
    /\ emails \in [Job -> SUBSET Nat]
    /\ faults \in 0 .. MaxFaults

Init ==
    /\ status = [j \in Job |-> "absent"]
    /\ attempts = [j \in Job |-> 0]
    /\ locked_by = [j \in Job |-> NULL]
    /\ hb_age = [j \in Job |-> 0]
    /\ due_in = [j \in Job |-> 0]
    /\ pc = [w \in Worker |-> "off"]
    /\ full = [w \in Worker |-> FALSE]
    /\ beat_in = [w \in Worker |-> 0]
    /\ stale = [w \in Worker |-> 0]
    /\ reachable = [w \in Worker |-> TRUE]
    /\ step = [w \in Worker |-> [j \in Job |-> "none"]]
    /\ att = [w \in Worker |-> [j \in Job |-> 0]]
    /\ tries = [w \in Worker |-> [j \in Job |-> 0]]
    /\ emails = [j \in Job |-> {}]
    /\ faults = 0

-----------------------------------------------------------------------------
(* State formulae *)

Live(w)      == pc[w] \notin Gone
Held(w, j)   == status[j] = "processing" /\ locked_by[j] = w
Idle(w)      == \A j \in Job : step[w][j] = "none"
InFlight(w)  == {j \in Job : step[w][j] \notin {"none", "queued"}}
Due          == {j \in Job : status[j] = "pending" /\ due_in[j] <= 0}
(* mutant: the reaper forgets to compare heartbeat_at with the threshold *)
Stale_AnyAge == {j \in Job : status[j] = "processing"}

Stale        == {j \in Job : status[j] = "processing" /\ hb_age[j] > ReaperIdle}

backoff_delay(attempt) == BackoffBase * 4^(attempt - 1)

(* Arithmetic the provers do not know, as they have no exponentiation. *)
ASSUME BackoffAssumption ==
    \A attempt \in 1 .. MaxAttempts : backoff_delay(attempt) \in Nat

(* A row lock that will be released by a rollback: FOR UPDATE SKIP LOCKED   *)
(* passes over a row that a worker cut off from the database has locked.  A *)
(* lock released by a commit is the same as running after that commit.      *)
RowLocked(j) ==
    \E v \in Worker : /\ Live(v) /\ ~reachable[v]
                      /\ pc[v] \in {"reap", "claim"} \/ locked_by[j] = v

(* SELECT ... FOR UPDATE SKIP LOCKED LIMIT of reap_stale (no ORDER BY) and  *)
(* of claim_batch (ORDER BY next_attempt_at, id; ids are random uuids, so   *)
(* the order of equal due times is arbitrary).                              *)
ReapSet(S) ==
    /\ S \subseteq Stale /\ Cardinality(S) <= ReapBatch
    /\ \A j \in Stale \ S : Cardinality(S) = ReapBatch \/ RowLocked(j)
ClaimSet(S) ==
    /\ S \subseteq Due /\ Cardinality(S) <= ClaimBatch
    /\ \A j \in Due \ S :
          \/ Cardinality(S) = ClaimBatch /\ \A s \in S : due_in[s] <= due_in[j]
          \/ RowLocked(j)

-----------------------------------------------------------------------------
(* Effects shared by several actions *)

(* The process ends: its tasks are cancelled, its rows stay as they are. *)
Die(w, how) ==
    /\ pc' = [pc EXCEPT ![w] = how]
    /\ full' = [full EXCEPT ![w] = FALSE]
    /\ beat_in' = [beat_in EXCEPT ![w] = 0]
    /\ stale' = [stale EXCEPT ![w] = 0]
    /\ reachable' = [reachable EXCEPT ![w] = TRUE]
    /\ step' = [step EXCEPT ![w] = [j \in Job |-> "none"]]
    /\ att' = [att EXCEPT ![w] = [j \in Job |-> 0]]
    /\ tries' = [tries EXCEPT ![w] = [j \in Job |-> 0]]

(* reap_stale: leases go back to pending; attempts and next_attempt_at stay *)
ReapRows(S) ==
    /\ status' = [j \in Job |-> IF j \in S THEN "pending" ELSE status[j]]
    /\ locked_by' = [j \in Job |-> IF j \in S THEN NULL ELSE locked_by[j]]
    /\ hb_age' = [j \in Job |-> IF j \in S THEN 0 ELSE hb_age[j]]
    /\ UNCHANGED <<attempts, due_in>>

(* mutant: attempts=attempts+1 is missing *)
ClaimRows_NoCount(w, S) ==
    /\ status' = [j \in Job |-> IF j \in S THEN "processing" ELSE status[j]]
    /\ locked_by' = [j \in Job |-> IF j \in S THEN w ELSE locked_by[j]]
    /\ hb_age' = [j \in Job |-> IF j \in S THEN 0 ELSE hb_age[j]]
    /\ UNCHANGED <<attempts, due_in>>

(* claim_batch: stamp the fence and the heartbeat, count the attempt *)
ClaimRows(w, S) ==
    /\ status' = [j \in Job |-> IF j \in S THEN "processing" ELSE status[j]]
    /\ locked_by' = [j \in Job |-> IF j \in S THEN w ELSE locked_by[j]]
    /\ hb_age' = [j \in Job |-> IF j \in S THEN 0 ELSE hb_age[j]]
    /\ attempts' = [j \in Job |-> IF j \in S THEN attempts[j] + 1 ELSE attempts[j]]
    /\ UNCHANGED due_in

(* mutant: the UPDATE says only WHERE id=$1 *)
FinalizeRow_Unfenced(w, j) ==
    /\ status' = [status EXCEPT ![j] =
                     IF step[w][j] = "retry" THEN "pending" ELSE step[w][j]]
    /\ hb_age' = [hb_age EXCEPT ![j] = 0]
    /\ UNCHANGED <<attempts, locked_by, due_in>>

(* mark_completed, mark_retry, mark_failed: an UPDATE behind the fence.  On *)
(* a terminal row locked_by keeps its value and the ages lose their meaning.*)
FinalizeRow(w, j) ==
    IF Held(w, j)
    THEN LET retry == step[w][j] = "retry" IN
         /\ status' = [status EXCEPT ![j] = IF retry THEN "pending" ELSE step[w][j]]
         /\ locked_by' = [locked_by EXCEPT ![j] = IF retry THEN NULL ELSE @]
         /\ due_in' = [due_in EXCEPT ![j] =
                          IF retry THEN backoff_delay(att[w][j]) ELSE 0]
         /\ hb_age' = [hb_age EXCEPT ![j] = 0]
         /\ UNCHANGED attempts
    ELSE UNCHANGED rows

(* The task of job j at worker w is over. *)
EndTask(w, j) ==
    /\ step' = [step EXCEPT ![w][j] = "none"]
    /\ att' = [att EXCEPT ![w][j] = 0]
    /\ tries' = [tries EXCEPT ![w][j] = 0]

Fault == faults < MaxFaults /\ faults' = faults + 1

-----------------------------------------------------------------------------
(* The API's side *)

(* External to the worker: a request commits and its job row becomes       *)
(* visible, pending and due at once.  next_attempt_at is the API's clock,   *)
(* which is taken to be no later than the database's at the COMMIT.         *)
Enqueue(j) ==
    /\ status[j] = "absent"
    /\ status' = [status EXCEPT ![j] = "pending"]
    /\ UNCHANGED <<attempts, locked_by, hb_age, due_in, procs, tasks, emails, faults>>

-----------------------------------------------------------------------------
(* Process lifecycle: __main__._run *)

StartWorker(w) ==
    /\ pc[w] = "off"
    /\ pc' = [pc EXCEPT ![w] = "reap"]
    /\ beat_in' = [beat_in EXCEPT ![w] = Interval]
    /\ UNCHANGED <<rows, full, stale, reachable, tasks, emails, faults>>

(* SIGTERM, SIGINT, SIGKILL: consumer and sends are cancelled where they are *)
StopWorker(w) ==
    /\ Live(w) /\ Fault
    /\ Die(w, "dead")
    /\ UNCHANGED <<rows, emails>>

Disconnect(w) ==
    /\ Live(w) /\ reachable[w] /\ Fault
    /\ reachable' = [reachable EXCEPT ![w] = FALSE]
    /\ UNCHANGED <<rows, pc, full, beat_in, stale, tasks, emails>>

Reconnect(w) ==
    /\ ~reachable[w]
    /\ reachable' = [reachable EXCEPT ![w] = TRUE]
    /\ UNCHANGED <<rows, pc, full, beat_in, stale, tasks, emails, faults>>

-----------------------------------------------------------------------------
(* The heartbeat task: Heartbeat.run *)

(* mutant: only sends in flight are renewed, not the rows queued behind them *)
Renew_InFlightOnly(w) ==
    /\ Live(w) /\ reachable[w] /\ beat_in[w] = 0
    /\ hb_age' = [j \in Job |-> IF Held(w, j) /\ j \in InFlight(w)
                                THEN 0 ELSE hb_age[j]]
    /\ stale' = [stale EXCEPT ![w] = 0]
    /\ beat_in' = [beat_in EXCEPT ![w] = Interval]
    /\ UNCHANGED <<status, attempts, locked_by, due_in, pc, full, reachable,
                   tasks, emails, faults>>

(* renew_heartbeat: every row that is leased, queued or in flight *)
Renewed(w) == [j \in Job |-> IF Held(w, j) THEN 0 ELSE hb_age[j]]

Renew(w) ==
    /\ Live(w) /\ reachable[w] /\ beat_in[w] = 0
    /\ hb_age' = Renewed(w)
    /\ stale' = [stale EXCEPT ![w] = 0]
    /\ beat_in' = [beat_in EXCEPT ![w] = Interval]
    /\ UNCHANGED <<status, attempts, locked_by, due_in, pc, full, reachable,
                   tasks, emails, faults>>

(* The renewal failed, or committed and only its answer was lost. *)
RenewFail(w) ==
    /\ Live(w) /\ ~reachable[w] /\ beat_in[w] = 0
    /\ hb_age' \in {hb_age, Renewed(w)}
    /\ IF stale[w] > ReaperIdle
       THEN Die(w, "aborted")
       ELSE /\ beat_in' = [beat_in EXCEPT ![w] = Interval]
            /\ UNCHANGED <<pc, full, stale, reachable, tasks>>
    /\ UNCHANGED <<status, attempts, locked_by, due_in, emails, faults>>

-----------------------------------------------------------------------------
(* The consumer task: run and _drain *)

(* mutant: no fallback poll, only the NOTIFY of a new row wakes the worker *)
Wake_NotifyOnly(w) ==
    /\ pc[w] = "wait" /\ \E j \in Due : attempts[j] = 0
    /\ pc' = [pc EXCEPT ![w] = "reap"]
    /\ UNCHANGED <<rows, full, beat_in, stale, reachable, tasks, emails, faults>>

(* NOTIFY or the fallback poll ends the wait. *)
Wake(w) ==
    /\ pc[w] = "wait"
    /\ pc' = [pc EXCEPT ![w] = "reap"]
    /\ UNCHANGED <<rows, full, beat_in, stale, reachable, tasks, emails, faults>>

(* A full batch means there may be more to reap. *)
Reap(w) ==
    /\ pc[w] = "reap" /\ reachable[w]
    /\ \E S \in SUBSET Stale :
          /\ ReapSet(S)
          /\ ReapRows(S)
          /\ pc' = [pc EXCEPT ![w] =
                       IF Cardinality(S) < ReapBatch THEN "claim" ELSE "reap"]
    /\ UNCHANGED <<full, beat_in, stale, reachable, tasks, emails, faults>>

(* mutant: the task gets the attempt number from before the increment *)
Claim_OldAttempt(w) ==
    /\ pc[w] = "claim" /\ reachable[w]
    /\ \E S \in SUBSET Due :
          /\ ClaimSet(S)
          /\ ClaimRows(w, S)
          /\ pc' = [pc EXCEPT ![w] = IF S = {} THEN "wait" ELSE "work"]
          /\ full' = [full EXCEPT ![w] = Cardinality(S) = ClaimBatch]
          /\ step' = [step EXCEPT ![w] =
                         [j \in Job |-> IF j \in S THEN "queued" ELSE "none"]]
          /\ att' = [att EXCEPT ![w] =
                        [j \in Job |-> IF j \in S THEN attempts[j] ELSE 0]]
    /\ UNCHANGED <<beat_in, stale, reachable, tries, emails, faults>>

Claim(w) ==
    /\ pc[w] = "claim" /\ reachable[w]
    /\ \E S \in SUBSET Due :
          /\ ClaimSet(S)
          /\ ClaimRows(w, S)
          /\ pc' = [pc EXCEPT ![w] = IF S = {} THEN "wait" ELSE "work"]
          /\ full' = [full EXCEPT ![w] = Cardinality(S) = ClaimBatch]
          /\ step' = [step EXCEPT ![w] =
                         [j \in Job |-> IF j \in S THEN "queued" ELSE "none"]]
          /\ att' = [att EXCEPT ![w] =
                        [j \in Job |-> IF j \in S THEN attempts[j] + 1 ELSE 0]]
    /\ UNCHANGED <<beat_in, stale, reachable, tries, emails, faults>>

(* A database error in the reaper or the claim ends the process; whether    *)
(* the statement had committed is unknown to it.                            *)
ReapError(w) ==
    /\ pc[w] = "reap" /\ ~reachable[w]
    /\ \E S \in SUBSET Stale : (S = {} \/ ReapSet(S)) /\ ReapRows(S)
    /\ Die(w, "dead")
    /\ UNCHANGED <<emails, faults>>

(* mutant: the error is swallowed and the worker goes back to waiting *)
ClaimError_Swallowed(w) ==
    /\ pc[w] = "claim" /\ ~reachable[w]
    /\ \E S \in SUBSET Due : (S = {} \/ ClaimSet(S)) /\ ClaimRows(w, S)
    /\ pc' = [pc EXCEPT ![w] = "wait"]
    /\ UNCHANGED <<full, beat_in, stale, reachable, tasks, emails, faults>>

ClaimError(w) ==
    /\ pc[w] = "claim" /\ ~reachable[w]
    /\ \E S \in SUBSET Due : (S = {} \/ ClaimSet(S)) /\ ClaimRows(w, S)
    /\ Die(w, "dead")
    /\ UNCHANGED <<emails, faults>>

(* The TaskGroup is done: claim again after a full batch, else wait. *)
EndBatch(w) ==
    /\ pc[w] = "work" /\ Idle(w)
    /\ pc' = [pc EXCEPT ![w] = IF full[w] THEN "claim" ELSE "wait"]
    /\ full' = [full EXCEPT ![w] = FALSE]
    /\ UNCHANGED <<rows, beat_in, stale, reachable, tasks, emails, faults>>

-----------------------------------------------------------------------------
(* One job of the batch: _bounded_process and _process_one *)

(* Take a semaphore slot and load the recipient.  A database error there is *)
(* neither transient nor permanent to the worker: it ends the process.      *)
StartSend(w, j) ==
    /\ step[w][j] = "queued" /\ Cardinality(InFlight(w)) < Concurrency
    /\ IF reachable[w]
       THEN /\ step' = [step EXCEPT ![w][j] = "sending"]
            /\ UNCHANGED <<procs, att, tries>>
       ELSE Die(w, "dead")
    /\ UNCHANGED <<rows, emails, faults>>

(* The SMTP server takes the message; the worker does not know yet. *)
Accept(w, j) ==
    /\ step[w][j] = "sending"
    /\ step' = [step EXCEPT ![w][j] = "accepted"]
    /\ emails' = [emails EXCEPT ![j] = @ \cup {att[w][j]}]
    /\ UNCHANGED <<rows, procs, att, tries, faults>>

SendOk(w, j) ==
    /\ step[w][j] = "accepted"
    /\ step' = [step EXCEPT ![w][j] = "completed"]
    /\ UNCHANGED <<rows, procs, att, tries, emails, faults>>

(* mutant: a permanent error parks the job as completed *)
SendPermanent_Completes(w, j) ==
    /\ step[w][j] = "sending"
    /\ step' = [step EXCEPT ![w][j] = "completed"]
    /\ UNCHANGED <<rows, procs, att, tries, emails, faults>>

(* RecipientNotFound, unknown type, 5xx: PermanentError *)
SendPermanent(w, j) ==
    /\ step[w][j] = "sending"
    /\ step' = [step EXCEPT ![w][j] = "failed"]
    /\ UNCHANGED <<rows, procs, att, tries, emails, faults>>

(* mutant: attempts > worker_max_attempts *)
SendTransient_OneMore(w, j) ==
    /\ \/ step[w][j] = "sending" /\ UNCHANGED faults
       \/ step[w][j] = "accepted" /\ Fault
    /\ step' = [step EXCEPT ![w][j] =
                   IF att[w][j] > MaxAttempts THEN "failed" ELSE "retry"]
    /\ UNCHANGED <<rows, procs, att, tries, emails>>

(* 4xx, refused or dropped connection, timeout: TransientError.  The reply  *)
(* to an accepted message can be lost too.                                  *)
SendTransient(w, j) ==
    /\ \/ step[w][j] = "sending" /\ UNCHANGED faults
       \/ step[w][j] = "accepted" /\ Fault
    /\ step' = [step EXCEPT ![w][j] =
                   IF att[w][j] >= MaxAttempts THEN "failed" ELSE "retry"]
    /\ UNCHANGED <<rows, procs, att, tries, emails>>

(* _finalize: the fenced write commits, or matches no row and is discarded. *)
Finalize(w, j) ==
    /\ step[w][j] \in Finalizer /\ reachable[w]
    /\ FinalizeRow(w, j)
    /\ EndTask(w, j)
    /\ UNCHANGED <<procs, emails, faults>>

(* mutant: the last attempt is compared with > instead of == *)
FinalizeError_OneMore(w, j) ==
    /\ step[w][j] \in Finalizer /\ ~reachable[w]
    /\ FinalizeRow(w, j) \/ UNCHANGED rows
    /\ IF tries[w][j] + 1 > FinalizeMax
       THEN Die(w, "dead")
       ELSE /\ tries' = [tries EXCEPT ![w][j] = @ + 1]
            /\ UNCHANGED <<procs, step, att>>
    /\ UNCHANGED <<emails, faults>>

(* _commit_finalizer: a failed commit, which may have reached the server,   *)
(* is retried; the last failure ends the process.                           *)
FinalizeError(w, j) ==
    /\ step[w][j] \in Finalizer /\ ~reachable[w]
    /\ FinalizeRow(w, j) \/ UNCHANGED rows
    /\ IF tries[w][j] + 1 = FinalizeMax
       THEN Die(w, "dead")
       ELSE /\ tries' = [tries EXCEPT ![w][j] = @ + 1]
            /\ UNCHANGED <<procs, step, att>>
    /\ UNCHANGED <<emails, faults>>

-----------------------------------------------------------------------------
(* One tick of time.  A renewal that is due happens before the next tick:   *)
(* the heartbeat is a task of its own and every database call is short.     *)
Older(age)    == IF age > ReaperIdle THEN age ELSE age + 1
Nearer(delay) == IF delay > -MaxOverdue THEN delay - 1 ELSE delay

Tick ==
    /\ \A w \in Worker : Live(w) => beat_in[w] > 0
    /\ hb_age' = [j \in Job |-> IF status[j] = "processing"
                                THEN Older(hb_age[j]) ELSE hb_age[j]]
    /\ due_in' = [j \in Job |-> IF status[j] \in {"pending", "processing"}
                                THEN Nearer(due_in[j]) ELSE due_in[j]]
    /\ beat_in' = [w \in Worker |-> IF Live(w) THEN beat_in[w] - 1 ELSE beat_in[w]]
    /\ stale' = [w \in Worker |-> IF Live(w) THEN Older(stale[w]) ELSE stale[w]]
    /\ UNCHANGED <<status, attempts, locked_by, pc, full, reachable, tasks,
                   emails, faults>>

JobStep(w, j) ==
    \/ StartSend(w, j) \/ Accept(w, j) \/ SendOk(w, j) \/ SendPermanent(w, j)
    \/ SendTransient(w, j) \/ Finalize(w, j) \/ FinalizeError(w, j)

DrainStep(w) ==
    \/ Reap(w) \/ ReapError(w) \/ Claim(w) \/ ClaimError(w) \/ EndBatch(w)

WorkerStep(w) == Wake(w) \/ DrainStep(w)

ProcessStep(w) ==
    \/ StartWorker(w) \/ StopWorker(w) \/ Disconnect(w) \/ Reconnect(w)
    \/ Renew(w) \/ RenewFail(w)
    \/ \E j \in Job : JobStep(w, j)

Next ==
    \/ Tick
    \/ \E j \in Job : Enqueue(j)
    \/ \E w \in Worker : ProcessStep(w) \/ WorkerStep(w)

Spec == Init /\ [][Next]_vars

(* The scheduling the code relies on: time passes, the orchestrator starts  *)
(* a process in place of a dead one, asyncio runs every ready task, a send  *)
(* ends (smtp_timeout) and a wait ends (fallback poll).                     *)
Fairness ==
    /\ WF_vars(Tick)
    /\ \A w \in Worker :
          /\ WF_vars(StartWorker(w)) /\ WF_vars(Renew(w) \/ RenewFail(w))
          /\ WF_vars(WorkerStep(w))
          /\ \A j \in Job : WF_vars(JobStep(w, j))

FairSpec == Spec /\ Fairness

-----------------------------------------------------------------------------
(* Safety *)

(* A task of w still owns row j only if it carries the row's current        *)
(* attempt: the fence names a process, not a claim, and is sound because a  *)
(* process never holds two claims of one row (claim.py, "The fence").       *)
FenceNamesTheClaim ==
    \A w \in Worker, j \in Job :
        Held(w, j) /\ step[w][j] # "none" => att[w][j] = attempts[j]

(* A living worker has a task for every row it leases: no row is left       *)
(* "processing" and renewed for ever with nobody working on it.             *)
NoOrphanLease ==
    \A w \in Worker, j \in Job :
        Live(w) /\ Held(w, j) => step[w][j] # "none"

(* A lease is never older than its owner's last renewal, so the reaper can  *)
(* take a row only from a process that is gone or has failed to renew for   *)
(* longer than reaper_idle (heartbeat.py module docstring).                 *)
ReapedOnlyIfSilent ==
    \A w \in Worker, j \in Job : Live(w) /\ Held(w, j) => hb_age[j] <= stale[w]

(* A job is completed only after an email for it was accepted, and the     *)
(* accepted emails belong to attempts that were counted.                    *)
CompletedWasSent ==
    \A j \in Job : /\ status[j] = "completed" => emails[j] # {}
                   /\ emails[j] \subseteq 1 .. attempts[j]

(* No attempt is emailed twice: a task that has not sent yet carries an     *)
(* attempt number under which nothing was sent.                             *)
OneEmailPerAttempt ==
    \A w \in Worker, j \in Job :
        step[w][j] \in {"queued", "sending"} => att[w][j] \notin emails[j]

(* Each duplicate email is paid for by a fault: with no stop, outage or     *)
(* lost reply every job is emailed at most once.                            *)
DuplicatesNeedFaults == \A j \in Job : Cardinality(emails[j]) <= 1 + faults

(* Attempts beyond worker_max_attempts come only from reaped leases, each   *)
(* of which needs a fault.                                                  *)
ExtraAttemptsNeedFaults == \A j \in Job : attempts[j] <= MaxAttempts + faults

(* What a step may do to the rows of notification_jobs. *)
RowStep ==
    \A j \in Job :
        /\ status[j] \in {"completed", "failed"} => status'[j] = status[j]
        /\ status[j] # "absent" => status'[j] # "absent"
        /\ attempts'[j] >= attempts[j]

(* Completed and failed rows are final, a row is never deleted, and the     *)
(* attempt counter never goes back, not even through the reaper.            *)
TerminalIsFinal == [][RowStep]_vars

(* The pipeline implements at-least-once delivery: whatever workers do to a  *)
(* row, nobody but the holder of the lease closes it, once, and completed    *)
(* means sent.                                                               *)
JobState(j) == IF status[j] \in {"pending", "processing"} THEN "open" ELSE status[j]
D == INSTANCE Delivery WITH state <- [j \in Job |-> JobState(j)],
                            sent  <- [j \in Job |-> Cardinality(emails[j])]
AtLeastOnce == D!Spec

(* Liveness: every inserted job is completed or failed in the end, through  *)
(* any number of workers stopped, cut off or aborted while one can start.   *)
EveryJobSettles ==
    \A j \in Job : status[j] = "pending" ~> status[j] \in {"completed", "failed"}

-----------------------------------------------------------------------------
(* What the documentation says, and the code does not keep *)

(* README.md: "a retry can never send a duplicate notification". *)
NoDuplicateNotification == \A j \in Job : Cardinality(emails[j]) <= 1
=============================================================================
