-------------------------- MODULE OutboxFaultProofs --------------------------
(***************************************************************************)
(* What the faults of the worker cost, for every set of jobs and of        *)
(* workers: each duplicate email and each attempt beyond the cap is paid   *)
(* for by a fault of its own.  These theorems need one thing more of the   *)
(* settings than the others do: a lease that is renewed on time is not     *)
(* stale (Interval <= ReaperIdle; config.py asks for a third of it).       *)
(***************************************************************************)
EXTENDS OutboxProofs

(* A leased row has an owner. *)
Owned == \A j \in Job : status[j] = "processing" => locked_by[j] \in Worker

(* The lease of w on j may come to be stale: w is gone or cut off, or was   *)
(* cut off for so long that its next renewal comes late.                    *)
AtRisk(w, j) == ~Live(w) \/ ~reachable[w] \/ hb_age[j] + beat_in[w] > Interval

(* Row j can be claimed, once nobody stands in the way. *)
Open(j)     == status[j] \in {"absent", "pending"}
Reapable(j) == \E w \in Worker : Held(w, j) /\ AtRisk(w, j)
Retried(j)  == \E w \in Worker : Held(w, j) /\ step[w][j] = "retry"

One(b) == IF b THEN 1 ELSE 0

(* Tasks that have yet to send an email for j, with or without the lease *)
Unsent(j) == {w \in Worker : step[w][j] \in {"queued", "sending"}}

(* Emails sent, emails that tasks may still send and the one that another   *)
(* claim may lead to are paid for by faults, but for one.                   *)
EmailsPaid ==
    \A j \in Job :
        /\ IsFiniteSet(emails[j]) /\ IsFiniteSet(Unsent(j))
        /\ Cardinality(emails[j]) + Cardinality(Unsent(j))
             + One(Open(j) \/ Reapable(j) \/ Retried(j)) <= 1 + faults

(* Workers cut off from the database, and those of them whose next claim    *)
(* would be lost with its reply *)
Off == {w \in Worker : ~reachable[w]}
Cut == {w \in Off : Idle(w)}

OffPaid == IsFiniteSet(Off) /\ Cardinality(Off) <= faults

(* The attempts of a job, the next one and those that a worker that is cut  *)
(* off may count without making it are paid for by faults beyond the cap.   *)
AttemptsPaid ==
    \A j \in Job :
        /\ attempts[j] <= MaxAttempts + faults
        /\ status[j] \notin {"completed", "failed"} =>
              attempts[j] + Cardinality(Cut) + One(Open(j) \/ Reapable(j)) <= MaxAttempts + faults

-----------------------------------------------------------------------------
(* Leases at risk *)

(* A leased row keeps an owner. *)
LEMMA OwnedStep == TypeInv /\ Owned /\ [Next]_vars => Owned'
  <1> SUFFICES ASSUME TypeInv, Owned, [Next]_vars, NEW j \in Job, status'[j] = "processing"
               PROVE  locked_by'[j] \in Worker
    BY DEF Owned
  <1> USE DEF TypeInv, TypeOK, Owned
  <1>0. CASE UNCHANGED <<status, locked_by>>
    BY <1>0
  <1>1. CASE Tick
    BY <1>0, <1>1 DEF Tick
  <1>2. ASSUME NEW k \in Job, Enqueue(k) PROVE locked_by'[j] \in Worker
    BY <1>2 DEF Enqueue
  <1>3. ASSUME NEW w \in Worker, StartWorker(w) \/ StopWorker(w) \/ Disconnect(w) \/ Reconnect(w)
                                   \/ Renew(w) \/ RenewFail(w) \/ Wake(w) \/ EndBatch(w)
        PROVE  UNCHANGED <<status, locked_by>>
    BY <1>3 DEF StartWorker, StopWorker, Disconnect, Reconnect, Renew, RenewFail, Wake, EndBatch, rows
  <1>4. ASSUME NEW S, ReapRows(S) PROVE locked_by'[j] \in Worker
    BY <1>4 DEF ReapRows
  <1>5. ASSUME NEW w \in Worker, NEW S, ClaimRows(w, S) PROVE locked_by'[j] \in Worker
    BY <1>5 DEF ClaimRows
  <1>6. ASSUME NEW w \in Worker, NEW k \in Job, step[w][k] \in Finalizer, FinalizeRow(w, k)
        PROVE  locked_by'[j] \in Worker
    BY <1>6, FinalizeRowLease
  <1>7. ASSUME NEW w \in Worker, NEW k \in Job, JobStep(w, k) PROVE locked_by'[j] \in Worker
    BY <1>0, <1>6, <1>7 DEF JobStep, StartSend, Accept, SendOk, SendPermanent, SendTransient,
                            Finalize, FinalizeError, rows
  <1>8. ASSUME NEW w \in Worker, Reap(w) \/ ReapError(w) PROVE locked_by'[j] \in Worker
    BY <1>4, <1>8 DEF Reap, ReapError
  <1>9. ASSUME NEW w \in Worker, Claim(w) \/ ClaimError(w) PROVE locked_by'[j] \in Worker
    BY <1>5, <1>9 DEF Claim, ClaimError
  <1>10. CASE UNCHANGED vars
    BY <1>0, <1>10 DEF vars, rows
  <1> QED
    BY <1>0, <1>1, <1>2, <1>3, <1>7, <1>8, <1>9, <1>10 DEF Next, ProcessStep, WorkerStep, DrainStep

(* A row whose fence does not change is at risk only if it was before. *)
LEMMA RiskFrame ==
    ASSUME NEW j \in Job, status'[j] = status[j], locked_by'[j] = locked_by[j],
           \A w \in Worker : Held(w, j) /\ AtRisk(w, j)' => AtRisk(w, j),
           Open(j)' \/ Reapable(j)'
    PROVE  Open(j) \/ Reapable(j)
  BY DEF Open, Reapable, Held

(* The end of a process that is cut off puts no other lease at risk. *)
LEMMA DieRisk ==
    ASSUME TypeInv, NEW v \in Worker, NEW how, Die(v, how), ~reachable[v], NEW j \in Job,
           hb_age'[j] = hb_age[j]
    PROVE  \A w \in Worker : AtRisk(w, j)' => AtRisk(w, j)
  BY DEF Die, AtRisk, Live, TypeInv, TypeOK

(* What the reaper returns was at risk. *)
LEMMA ReapRisk ==
    ASSUME Interval <= ReaperIdle, TypeInv, Owned, NEW S \in SUBSET Stale, ReapRows(S),
           NEW j \in Job, \A w \in Worker : hb_age'[j] = hb_age[j] /\ AtRisk(w, j)' => AtRisk(w, j),
           Open(j)' \/ Reapable(j)'
    PROVE  Open(j) \/ Reapable(j)
  <1>1. CASE j \in S
    <2>1. status[j] = "processing" /\ hb_age[j] > ReaperIdle /\ locked_by[j] \in Worker
      BY <1>1 DEF Stale, Owned
    <2>2. AtRisk(locked_by[j], j)
      BY <2>1, SettingsAssumption DEF AtRisk, TypeInv, TypeOK
    <2> QED
      BY <2>1, <2>2 DEF Reapable, Held
  <1>2. CASE j \notin S
    BY <1>2, RiskFrame DEF ReapRows
  <1> QED
    BY <1>1, <1>2

(* A finalizer returns a row only as a retry. *)
LEMMA FinalizeRisk ==
    ASSUME TypeInv, NEW v \in Worker, NEW k \in Job, step[v][k] \in Finalizer, FinalizeRow(v, k),
           NEW j \in Job, \A w \in Worker : hb_age'[j] = hb_age[j] /\ AtRisk(w, j)' => AtRisk(w, j),
           Open(j)' \/ Reapable(j)'
    PROVE  Open(j) \/ Reapable(j) \/ Retried(j)
  <1>1. CASE j = k /\ Held(v, k)
    <2>1. CASE step[v][k] = "retry"
      BY <1>1, <2>1 DEF Retried
    <2>2. CASE step[v][k] # "retry"
      <3>1. status' = [status EXCEPT ![k] = step[v][k]]
        BY <1>1, <2>2 DEF FinalizeRow
      <3>2. status'[j] \in {"completed", "failed"}
        BY <1>1, <2>2, <3>1 DEF TypeInv, TypeOK, Finalizer
      <3> QED
        BY <3>2 DEF Open, Reapable, Held
    <2> QED
      BY <2>1, <2>2
  <1>2. CASE ~(j = k /\ Held(v, k))
    <2>1. status'[j] = status[j] /\ locked_by'[j] = locked_by[j]
      BY <1>2, FinalizeRowLease
    <2>2. hb_age'[j] = hb_age[j]
      BY <1>2 DEF FinalizeRow, rows, TypeInv, TypeOK
    <2> QED
      BY <2>1, <2>2, RiskFrame
  <1> QED
    BY <1>1, <1>2

(* A row that can be claimed could be before the step, or is returned by a  *)
(* retry, or its owner meets with a fault.                                  *)
LEMMA RiskStep ==
    ASSUME Interval <= ReaperIdle, TypeInv, LeaseInv, Owned, [Next]_vars, NEW j \in Job,
           Open(j)' \/ Reapable(j)'
    PROVE  \/ Open(j) \/ Reapable(j) \/ Retried(j)
           \/ \E w \in Worker : Held(w, j) /\ (StopWorker(w) \/ Disconnect(w))
  <1> DEFINE Goal == \/ Open(j) \/ Reapable(j) \/ Retried(j)
                     \/ \E w \in Worker : Held(w, j) /\ (StopWorker(w) \/ Disconnect(w))
  <1> SUFFICES Goal
    OBVIOUS
  <1> USE DEF TypeInv, TypeOK
  <1>0. ASSUME status'[j] = status[j], locked_by'[j] = locked_by[j], hb_age'[j] = hb_age[j],
               \A w \in Worker : pc'[w] = pc[w] /\ beat_in'[w] = beat_in[w]
                                   /\ (reachable[w] => reachable'[w])
        PROVE  Goal
    <2>1. \A w \in Worker : AtRisk(w, j)' => AtRisk(w, j)
      BY <1>0 DEF AtRisk, Live
    <2> QED
      BY <1>0, <2>1, RiskFrame
  <1>1. CASE Tick
    <2>1. ASSUME NEW w \in Worker, Held(w, j), AtRisk(w, j)' PROVE AtRisk(w, j)
      <3>1. /\ pc'[w] = pc[w] /\ reachable'[w] = reachable[w]
            /\ hb_age'[j] <= hb_age[j] + 1 /\ hb_age'[j] \in Int /\ hb_age[j] \in Int
            /\ Live(w) => beat_in'[w] = beat_in[w] - 1
            /\ beat_in[w] \in Int
        BY <1>1, <2>1, SettingsAssumption DEF Tick, Held, Older
      <3> QED
        BY <2>1, <3>1, SettingsAssumption DEF AtRisk, Live
    <2> QED
      BY <1>1, <2>1, RiskFrame DEF Tick
  <1>2. ASSUME NEW k \in Job, Enqueue(k) PROVE Goal
    <2>1. CASE k = j
      BY <1>2, <2>1 DEF Enqueue, Open
    <2>2. CASE k # j
      BY <1>0, <1>2, <2>2 DEF Enqueue, procs
    <2> QED
      BY <2>1, <2>2
  <1>3. ASSUME NEW v \in Worker, StartWorker(v) \/ Wake(v) \/ EndBatch(v) PROVE Goal
    <2>1. \A w \in Worker : AtRisk(w, j)' => AtRisk(w, j)
      BY <1>3 DEF StartWorker, Wake, EndBatch, AtRisk, Live, Gone, rows
    <2> QED
      BY <1>3, <2>1, RiskFrame DEF StartWorker, Wake, EndBatch, rows
  <1>4. ASSUME NEW v \in Worker, StopWorker(v) \/ Disconnect(v) PROVE Goal
    <2>1. CASE Held(v, j)
      BY <1>4, <2>1
    <2>2. CASE ~Held(v, j)
      <3>1. UNCHANGED rows
        BY <1>4 DEF StopWorker, Disconnect
      <3>2. \A w \in Worker \ {v} : /\ pc'[w] = pc[w] /\ beat_in'[w] = beat_in[w]
                                    /\ reachable'[w] = reachable[w]
        BY <1>4 DEF StopWorker, Disconnect, Die
      <3>3. \A w \in Worker : Held(w, j) /\ AtRisk(w, j)' => AtRisk(w, j)
        BY <2>2, <3>1, <3>2 DEF AtRisk, Live, rows
      <3> QED
        BY <3>1, <3>3, RiskFrame DEF rows
    <2> QED
      BY <2>1, <2>2
  <1>5. ASSUME NEW v \in Worker, Reconnect(v) PROVE Goal
    BY <1>0, <1>5 DEF Reconnect, rows
  <1>6. ASSUME NEW v \in Worker, Renew(v) PROVE Goal
    <2>1. ASSUME NEW w \in Worker, Held(w, j), AtRisk(w, j)' PROVE AtRisk(w, j)
      <3>1. CASE w = v
        <4>1. hb_age'[j] = 0 /\ beat_in'[w] = Interval /\ pc'[w] = pc[w] /\ reachable'[w] = reachable[w]
          BY <1>6, <2>1, <3>1 DEF Renew, Renewed
        <4> QED
          BY <1>6, <2>1, <3>1, <4>1, SettingsAssumption DEF Renew, AtRisk, Live
      <3>2. CASE w # v
        <4>1. ~Held(v, j)
          BY <2>1, <3>2 DEF Held
        <4>2. /\ hb_age'[j] = hb_age[j] /\ beat_in'[w] = beat_in[w]
              /\ pc'[w] = pc[w] /\ reachable'[w] = reachable[w]
          BY <1>6, <3>2, <4>1 DEF Renew, Renewed
        <4> QED
          BY <2>1, <4>2 DEF AtRisk, Live
      <3> QED
        BY <3>1, <3>2
    <2> QED
      BY <1>6, <2>1, RiskFrame DEF Renew
  <1>7. ASSUME NEW v \in Worker, RenewFail(v) PROVE Goal
    <2>1. ASSUME NEW w \in Worker, Held(w, j), AtRisk(w, j)' PROVE AtRisk(w, j)
      <3>1. CASE w = v
        BY <1>7, <3>1 DEF RenewFail, AtRisk
      <3>2. CASE w # v
        <4>1. hb_age'[j] = hb_age[j]
          BY <1>7, <2>1, <3>2 DEF RenewFail, Renewed, Held
        <4>2. CASE stale[v] > ReaperIdle
          BY <1>7, <2>1, <4>1, <4>2, DieRisk DEF RenewFail
        <4>3. CASE ~(stale[v] > ReaperIdle)
          BY <1>7, <2>1, <3>2, <4>1, <4>3 DEF RenewFail, AtRisk, Live
        <4> QED
          BY <4>2, <4>3
      <3> QED
        BY <3>1, <3>2
    <2> QED
      BY <1>7, <2>1, RiskFrame DEF RenewFail
  <1>8. ASSUME NEW v \in Worker, Reap(v) PROVE Goal
    <2>1. PICK S \in SUBSET Stale :
             /\ ReapRows(S)
             /\ pc' = [pc EXCEPT ![v] = IF Cardinality(S) < ReapBatch THEN "claim" ELSE "reap"]
      BY <1>8 DEF Reap
    <2>2. \A w \in Worker : hb_age'[j] = hb_age[j] /\ AtRisk(w, j)' => AtRisk(w, j)
      BY <1>8, <2>1 DEF Reap, AtRisk, Live, Gone
    <2> QED
      BY <2>1, <2>2, ReapRisk
  <1>9. ASSUME NEW v \in Worker, ReapError(v) PROVE Goal
    <2>1. PICK S \in SUBSET Stale : ReapRows(S)
      BY <1>9 DEF ReapError
    <2>2. \A w \in Worker : hb_age'[j] = hb_age[j] /\ AtRisk(w, j)' => AtRisk(w, j)
      BY <1>9, DieRisk DEF ReapError
    <2> QED
      BY <2>1, <2>2, ReapRisk
  <1>10. ASSUME NEW v \in Worker, Claim(v) PROVE Goal
    <2>1. PICK S \in SUBSET Due :
             /\ ClaimRows(v, S)
             /\ pc' = [pc EXCEPT ![v] = IF S = {} THEN "wait" ELSE "work"]
      BY <1>10 DEF Claim
    <2>2. CASE j \in S
      BY <2>2 DEF Due, Open
    <2>3. CASE j \notin S
      <3>1. status'[j] = status[j] /\ locked_by'[j] = locked_by[j] /\ hb_age'[j] = hb_age[j]
        BY <2>1, <2>3 DEF ClaimRows
      <3>2. \A w \in Worker : AtRisk(w, j)' => AtRisk(w, j)
        BY <1>10, <2>1, <3>1 DEF Claim, AtRisk, Live, Gone
      <3> QED
        BY <3>1, <3>2, RiskFrame
    <2> QED
      BY <2>2, <2>3
  <1>11. ASSUME NEW v \in Worker, ClaimError(v) PROVE Goal
    <2>1. PICK S \in SUBSET Due : ClaimRows(v, S)
      BY <1>11 DEF ClaimError
    <2>2. CASE j \in S
      BY <2>2 DEF Due, Open
    <2>3. CASE j \notin S
      <3>1. status'[j] = status[j] /\ locked_by'[j] = locked_by[j] /\ hb_age'[j] = hb_age[j]
        BY <2>1, <2>3 DEF ClaimRows
      <3>2. \A w \in Worker : AtRisk(w, j)' => AtRisk(w, j)
        BY <1>11, <3>1, DieRisk DEF ClaimError
      <3> QED
        BY <3>1, <3>2, RiskFrame
    <2> QED
      BY <2>2, <2>3
  <1>12. ASSUME NEW v \in Worker, NEW k \in Job, StartSend(v, k) PROVE Goal
    <2>1. CASE reachable[v]
      BY <1>0, <1>12, <2>1 DEF StartSend, procs, rows
    <2>2. CASE ~reachable[v]
      <3>1. \A w \in Worker : AtRisk(w, j)' => AtRisk(w, j)
        BY <1>12, <2>2, DieRisk DEF StartSend, rows
      <3> QED
        BY <1>12, <3>1, RiskFrame DEF StartSend, rows
    <2> QED
      BY <2>1, <2>2
  <1>13. ASSUME NEW v \in Worker, NEW k \in Job,
                Accept(v, k) \/ SendOk(v, k) \/ SendPermanent(v, k) \/ SendTransient(v, k)
         PROVE  Goal
    BY <1>0, <1>13 DEF Accept, SendOk, SendPermanent, SendTransient, procs, rows
  <1>14. ASSUME NEW v \in Worker, NEW k \in Job, Finalize(v, k) PROVE Goal
    <2>1. \A w \in Worker : hb_age'[j] = hb_age[j] /\ AtRisk(w, j)' => AtRisk(w, j)
      BY <1>14 DEF Finalize, procs, AtRisk, Live
    <2> QED
      BY <1>14, <2>1, FinalizeRisk DEF Finalize
  <1>15. ASSUME NEW v \in Worker, NEW k \in Job, FinalizeError(v, k) PROVE Goal
    <2>1. \A w \in Worker : hb_age'[j] = hb_age[j] /\ AtRisk(w, j)' => AtRisk(w, j)
      <3>1. CASE tries[v][k] + 1 = FinalizeMax
        BY <1>15, <3>1, DieRisk DEF FinalizeError
      <3>2. CASE tries[v][k] + 1 # FinalizeMax
        BY <1>15, <3>2 DEF FinalizeError, procs, AtRisk, Live
      <3> QED
        BY <3>1, <3>2
    <2>2. CASE FinalizeRow(v, k)
      BY <1>15, <2>1, <2>2, FinalizeRisk DEF FinalizeError
    <2>3. CASE UNCHANGED rows
      BY <2>1, <2>3, RiskFrame DEF rows
    <2> QED
      BY <1>15, <2>2, <2>3 DEF FinalizeError
  <1>16. CASE UNCHANGED vars
    BY <1>0, <1>16 DEF vars, rows, procs
  <1> HIDE DEF Goal, TypeInv, TypeOK
  <1>17. ASSUME NEW v \in Worker, NEW k \in Job, JobStep(v, k) PROVE Goal
    BY <1>12, <1>13, <1>14, <1>15, <1>17 DEF JobStep
  <1>18. ASSUME NEW v \in Worker, ProcessStep(v) PROVE Goal
    BY <1>3, <1>4, <1>5, <1>6, <1>7, <1>17, <1>18 DEF ProcessStep
  <1>19. ASSUME NEW v \in Worker, WorkerStep(v) PROVE Goal
    BY <1>3, <1>8, <1>9, <1>10, <1>11, <1>19 DEF WorkerStep, DrainStep
  <1> QED
    BY <1>1, <1>2, <1>16, <1>18, <1>19 DEF Next

-----------------------------------------------------------------------------
(* Duplicate emails *)

(* What a step does to the task of w for j, to the emails of j and to the   *)
(* count of faults: tasks begin with a claim, retries with a failed send.   *)
LEMMA TaskStep ==
    ASSUME TypeInv, [Next]_vars, NEW w \in Worker, NEW j \in Job
    PROVE  /\ step'[w][j] \in {"queued", "sending"} =>
                 \/ step[w][j] \in {"queued", "sending"}
                 \/ Claim(w) /\ step'[w][j] = "queued"
           /\ step'[w][j] = "retry" =>
                 \/ step[w][j] = "retry" /\ (Held(w, j)' => Held(w, j))
                 \/ SendTransient(w, j) /\ (Held(w, j)' => Held(w, j))
           /\ emails'[j] = emails[j] \/ \E v \in Worker : Accept(v, j)
           /\ faults' \in Nat /\ faults \in Nat /\ faults <= faults'
  <1> DEFINE Task == /\ step'[w][j] \in {"queued", "sending"} =>
                           \/ step[w][j] \in {"queued", "sending"}
                           \/ Claim(w) /\ step'[w][j] = "queued"
                     /\ step'[w][j] = "retry" =>
                           \/ step[w][j] = "retry" /\ (Held(w, j)' => Held(w, j))
                           \/ SendTransient(w, j) /\ (Held(w, j)' => Held(w, j))
             Mail == emails'[j] = emails[j] \/ \E v \in Worker : Accept(v, j)
             Paid == faults' \in Nat /\ faults \in Nat /\ faults <= faults'
  <1> SUFFICES Task /\ Mail /\ Paid
    OBVIOUS
  <1> USE DEF TypeInv, TypeOK
  <1>0. ASSUME UNCHANGED faults \/ Fault PROVE Paid
    BY <1>0, SettingsAssumption DEF Fault
  <1>1. ASSUME UNCHANGED <<status, locked_by, step>> PROVE Task
    BY <1>1 DEF Held
  <1>2. ASSUME NEW v \in Worker, NEW how, Die(v, how),
               \A u \in Worker \ {v} : Held(u, j)' => Held(u, j)
        PROVE  Task
    <2>1. CASE v = w
      <3>1. step'[w][j] = "none"
        BY <1>2, <2>1 DEF Die
      <3> QED
        BY <3>1
    <2>2. CASE v # w
      <3>1. step'[w] = step[w]
        BY <1>2, <2>2 DEF Die
      <3> QED
        BY <1>2, <2>2, <3>1
    <2> QED
      BY <2>1, <2>2
  <1>3. CASE Tick \/ \E k \in Job : Enqueue(k)
    <2>1. UNCHANGED <<step, emails, faults>>
      BY <1>3 DEF Tick, Enqueue, tasks
    <2>2. Held(w, j)' => Held(w, j)
      BY <1>3 DEF Tick, Enqueue, Held
    <2> QED
      BY <1>0, <2>1, <2>2
  <1>4. ASSUME NEW v \in Worker, StartWorker(v) \/ Disconnect(v) \/ Reconnect(v) \/ Renew(v)
                                   \/ Wake(v) \/ EndBatch(v)
        PROVE  Task /\ Mail /\ Paid
    <2>1. UNCHANGED <<status, locked_by, step, emails>> /\ (UNCHANGED faults \/ Fault)
      BY <1>4 DEF StartWorker, Disconnect, Reconnect, Renew, Wake, EndBatch, rows, tasks
    <2> QED
      BY <1>0, <1>1, <2>1
  <1>5. ASSUME NEW v \in Worker, StopWorker(v) PROVE Task /\ Mail /\ Paid
    BY <1>0, <1>2, <1>5 DEF StopWorker, rows, Held
  <1>6. ASSUME NEW v \in Worker, RenewFail(v) PROVE Task /\ Mail /\ Paid
    <2>1. CASE stale[v] > ReaperIdle
      BY <1>0, <1>2, <1>6, <2>1 DEF RenewFail, rows, Held
    <2>2. CASE ~(stale[v] > ReaperIdle)
      BY <1>0, <1>1, <1>6, <2>2 DEF RenewFail, rows, tasks
    <2> QED
      BY <2>1, <2>2
  <1>7. ASSUME NEW v \in Worker, Reap(v) \/ ReapError(v) PROVE Task /\ Mail /\ Paid
    <2>1. \A u \in Worker : Held(u, j)' => Held(u, j)
      BY <1>7 DEF Reap, ReapError, ReapRows, Held
    <2>2. CASE Reap(v)
      BY <1>0, <2>1, <2>2 DEF Reap, tasks
    <2>3. CASE ReapError(v)
      BY <1>0, <1>2, <2>1, <2>3 DEF ReapError
    <2> QED
      BY <1>7, <2>2, <2>3
  <1>8. ASSUME NEW v \in Worker, Claim(v) PROVE Task /\ Mail /\ Paid
    <2>1. PICK S \in SUBSET Due :
             /\ ClaimRows(v, S)
             /\ step' = [step EXCEPT ![v] = [k \in Job |-> IF k \in S THEN "queued" ELSE "none"]]
      BY <1>8 DEF Claim
    <2>2. UNCHANGED <<emails, faults>>
      BY <1>8 DEF Claim
    <2>3. CASE v = w
      <3>1. step'[w][j] \in {"queued", "none"}
        BY <2>1, <2>3
      <3> QED
        BY <1>0, <1>8, <2>2, <2>3, <3>1
    <2>4. CASE v # w
      <3>1. step'[w] = step[w] /\ (Held(w, j)' => Held(w, j))
        BY <2>1, <2>4 DEF ClaimRows, Held
      <3> QED
        BY <1>0, <2>2, <3>1
    <2> QED
      BY <2>3, <2>4
  <1>9. ASSUME NEW v \in Worker, ClaimError(v) PROVE Task /\ Mail /\ Paid
    <2>1. \A u \in Worker \ {v} : Held(u, j)' => Held(u, j)
      BY <1>9 DEF ClaimError, ClaimRows, Held
    <2> QED
      BY <1>0, <1>2, <1>9, <2>1 DEF ClaimError
  <1>10. ASSUME NEW v \in Worker, NEW k \in Job, StartSend(v, k) PROVE Task /\ Mail /\ Paid
    <2>1. CASE reachable[v]
      <3>1. step' = [step EXCEPT ![v][k] = "sending"] /\ step[v][k] = "queued" /\ UNCHANGED rows
        BY <1>10, <2>1 DEF StartSend
      <3>2. UNCHANGED <<emails, faults>>
        BY <1>10 DEF StartSend
      <3> QED
        BY <1>0, <3>1, <3>2 DEF rows, Held
    <2>2. CASE ~reachable[v]
      BY <1>0, <1>2, <1>10, <2>2 DEF StartSend, rows, Held
    <2> QED
      BY <2>1, <2>2
  <1>11. ASSUME NEW v \in Worker, NEW k \in Job, Accept(v, k) PROVE Task /\ Mail /\ Paid
    <2>1. UNCHANGED <<status, locked_by, faults>> /\ step' = [step EXCEPT ![v][k] = "accepted"]
      BY <1>11 DEF Accept, rows
    <2>2. Task
      BY <2>1 DEF Held
    <2>3. Mail
      BY <1>11 DEF Accept
    <2> QED
      BY <1>0, <2>1, <2>2, <2>3
  <1>12. ASSUME NEW v \in Worker, NEW k \in Job, SendOk(v, k) \/ SendPermanent(v, k)
         PROVE  Task /\ Mail /\ Paid
    <2>1. /\ UNCHANGED <<status, locked_by, emails, faults>>
          /\ step' = [step EXCEPT ![v][k] = "completed"] \/ step' = [step EXCEPT ![v][k] = "failed"]
      BY <1>12 DEF SendOk, SendPermanent, rows
    <2>2. step'[w][j] = step[w][j] \/ step'[w][j] \in {"completed", "failed"}
      <3>1. ASSUME NEW x, step' = [step EXCEPT ![v][k] = x]
            PROVE  step'[w][j] = step[w][j] \/ step'[w][j] = x
        BY <3>1
      <3> QED
        BY <2>1, <3>1
    <2>3. Held(w, j)' => Held(w, j)
      BY <2>1 DEF Held
    <2> QED
      BY <1>0, <2>1, <2>2, <2>3
  <1>13. ASSUME NEW v \in Worker, NEW k \in Job, SendTransient(v, k) PROVE Task /\ Mail /\ Paid
    <2>1. /\ UNCHANGED <<status, locked_by, emails>> /\ (UNCHANGED faults \/ Fault)
          /\ step' = [step EXCEPT ![v][k] = "retry"] \/ step' = [step EXCEPT ![v][k] = "failed"]
      BY <1>13 DEF SendTransient, rows
    <2>2. Task
      <3>1. CASE v = w /\ k = j
        BY <1>13, <2>1, <3>1 DEF Held
      <3>2. CASE ~(v = w /\ k = j)
        BY <2>1, <3>2 DEF Held
      <3> QED
        BY <3>1, <3>2
    <2> QED
      BY <1>0, <2>1, <2>2
  <1>14. ASSUME NEW v \in Worker, NEW k \in Job, step[v][k] \in Finalizer, FinalizeRow(v, k)
         PROVE  \A u \in Worker : Held(u, j)' => Held(u, j)
    BY <1>14, FinalizeRowLease DEF Held
  <1>15. ASSUME NEW v \in Worker, NEW k \in Job, Finalize(v, k) PROVE Task /\ Mail /\ Paid
    <2>1. \A u \in Worker : Held(u, j)' => Held(u, j)
      BY <1>14, <1>15 DEF Finalize
    <2>2. step' = [step EXCEPT ![v][k] = "none"] /\ UNCHANGED <<emails, faults>>
      BY <1>15 DEF Finalize, EndTask
    <2> QED
      BY <1>0, <2>1, <2>2
  <1>16. ASSUME NEW v \in Worker, NEW k \in Job, FinalizeError(v, k) PROVE Task /\ Mail /\ Paid
    <2>1. \A u \in Worker : Held(u, j)' => Held(u, j)
      BY <1>14, <1>16 DEF FinalizeError, rows, Held
    <2>2. UNCHANGED <<emails, faults>>
      BY <1>16 DEF FinalizeError
    <2>3. CASE tries[v][k] + 1 = FinalizeMax
      BY <1>0, <1>2, <1>16, <2>1, <2>2, <2>3 DEF FinalizeError
    <2>4. CASE tries[v][k] + 1 # FinalizeMax
      <3>1. UNCHANGED step
        BY <1>16, <2>4 DEF FinalizeError
      <3> QED
        BY <1>0, <2>1, <2>2, <3>1
    <2> QED
      BY <2>3, <2>4
  <1>17. CASE UNCHANGED vars
    BY <1>0, <1>1, <1>17 DEF vars, rows, tasks
  <1> HIDE DEF Task, Mail, Paid, TypeInv, TypeOK
  <1>18. ASSUME NEW v \in Worker, NEW k \in Job, JobStep(v, k) PROVE Task /\ Mail /\ Paid
    BY <1>10, <1>11, <1>12, <1>13, <1>15, <1>16, <1>18 DEF JobStep
  <1>19. ASSUME NEW v \in Worker, ProcessStep(v) PROVE Task /\ Mail /\ Paid
    BY <1>4, <1>5, <1>6, <1>18, <1>19 DEF ProcessStep
  <1>20. ASSUME NEW v \in Worker, WorkerStep(v) PROVE Task /\ Mail /\ Paid
    BY <1>4, <1>7, <1>8, <1>9, <1>20 DEF WorkerStep, DrainStep
  <1> QED
    BY <1>3, <1>17, <1>19, <1>20 DEF Next

(* A claim of j uses up the row's turn and begins one task. *)
LEMMA ClaimTurn ==
    ASSUME TypeInv, LeaseInv, NEW w \in Worker, Claim(w), NEW j \in Job, step'[w][j] = "queued"
    PROVE  /\ Open(j) /\ ~Open(j)' /\ ~Reapable(j)' /\ ~Retried(j)'
           /\ Unsent(j)' = Unsent(j) \cup {w} /\ w \notin Unsent(j)
           /\ attempts'[j] = attempts[j] + 1
           /\ UNCHANGED <<emails, faults>>
  <1> USE DEF TypeInv, TypeOK
  <1>1. PICK S \in SUBSET Due :
           /\ ClaimRows(w, S)
           /\ pc' = [pc EXCEPT ![w] = IF S = {} THEN "wait" ELSE "work"]
           /\ step' = [step EXCEPT ![w] = [k \in Job |-> IF k \in S THEN "queued" ELSE "none"]]
    BY DEF Claim
  <1>2. j \in S
    BY <1>1
  <1>3. /\ status[j] = "pending" /\ status'[j] = "processing" /\ locked_by'[j] = w
        /\ hb_age'[j] = 0 /\ attempts'[j] = attempts[j] + 1
    BY <1>1, <1>2 DEF ClaimRows, Due
  <1>4. pc'[w] \in {"wait", "work"} /\ reachable'[w] /\ beat_in'[w] = beat_in[w]
    BY <1>1 DEF Claim
  <1>5. ~AtRisk(w, j)'
    BY <1>3, <1>4, SettingsAssumption DEF AtRisk, Live, Gone
  <1>6. \A v \in Worker : Held(v, j)' => v = w
    BY <1>3 DEF Held
  <1>7. ~Reapable(j)' /\ ~Retried(j)'
    BY <1>5, <1>6 DEF Reapable, Retried
  <1>8. Open(j) /\ ~Open(j)'
    BY <1>3 DEF Open
  <1>9. step[w][j] = "none"
    BY DEF Claim, LeaseInv, TaskOK
  <1>10. \A v \in Worker \ {w} : step'[v] = step[v]
    BY <1>1
  <1>11. Unsent(j)' = Unsent(j) \cup {w} /\ w \notin Unsent(j)
    BY <1>9, <1>10 DEF Unsent
  <1> QED
    BY <1>3, <1>7, <1>8, <1>11 DEF Claim

(* A send that ends takes its task from those that have yet to send. *)
LEMMA SendTurn ==
    ASSUME TypeInv, NEW w \in Worker, NEW j \in Job,
           step[w][j] = "sending", step'[w][j] \notin {"queued", "sending"},
           \A v \in Worker \ {w} : step'[v] = step[v]
    PROVE  w \in Unsent(j) /\ Unsent(j)' = Unsent(j) \ {w}
  BY DEF Unsent

(* The emails of j change only when one is accepted, and faults add up.     *)
LEMMA EmailsFrame ==
    ASSUME TypeInv, [Next]_vars, NEW j \in Job
    PROVE  /\ emails'[j] = emails[j] \/ \E v \in Worker : Accept(v, j)
           /\ faults' \in Nat /\ faults \in Nat /\ faults <= faults'
  <1>1. ASSUME NEW w \in Worker
        PROVE  /\ emails'[j] = emails[j] \/ \E v \in Worker : Accept(v, j)
               /\ faults' \in Nat /\ faults \in Nat /\ faults <= faults'
    BY <1>1, TaskStep
  <1>2. CASE Worker = {}
    <2>1. Tick \/ (\E k \in Job : Enqueue(k)) \/ UNCHANGED vars
      BY <1>2 DEF Next
    <2>2. emails' = emails /\ faults' = faults
      BY <2>1 DEF Tick, Enqueue, vars
    <2>3. faults \in Nat
      BY SettingsAssumption DEF TypeInv, TypeOK
    <2> QED
      BY <2>2, <2>3
  <1> QED
    BY <1>1, <1>2

(* Faults add up, even where there is no job. *)
LEMMA FaultsAddUp ==
    ASSUME TypeInv, [Next]_vars
    PROVE  faults \in Nat /\ faults' \in Nat /\ faults <= faults'
  <1>1. ASSUME NEW j \in Job PROVE faults \in Nat /\ faults' \in Nat /\ faults <= faults'
    BY <1>1, EmailsFrame
  <1>2. CASE Job = {}
    <2>1. faults \in Nat
      BY SettingsAssumption DEF TypeInv, TypeOK
    <2>2. faults' = faults \/ Fault
      BY <1>2 DEF Next, Tick, vars, ProcessStep, WorkerStep, DrainStep, StartWorker, StopWorker,
                  Disconnect, Reconnect, Renew, RenewFail, Wake, Reap, ReapError, Claim, ClaimError,
                  EndBatch
    <2> QED
      BY <2>1, <2>2 DEF Fault
  <1> QED
    BY <1>1, <1>2

(* A turn counts for one. *)
LEMMA OneIsANumber ==
    ASSUME NEW b \in BOOLEAN, NEW c \in BOOLEAN
    PROVE  One(b) \in {0, 1} /\ ((c => b) => One(c) <= One(b)) /\ (b => One(b) = 1) /\ (~c => One(c) = 0)
  <1>1. CASE b /\ c
    BY <1>1 DEF One
  <1>2. CASE b /\ ~c
    BY <1>2 DEF One
  <1>3. CASE ~b /\ c
    BY <1>3 DEF One
  <1>4. CASE ~b /\ ~c
    BY <1>4 DEF One
  <1> QED
    BY <1>1, <1>2, <1>3, <1>4

(* The account of sent emails E, tasks U that may send, x turns and n        *)
(* faults stays balanced if no task is added, and no turn but for a fault.   *)
LEMMA BalanceKept ==
    ASSUME NEW E, IsFiniteSet(E), NEW U, IsFiniteSet(U), NEW n \in Nat, NEW m \in Nat, n <= m,
           NEW x \in {0, 1}, NEW y \in {0, 1}, y <= x \/ n < m,
           Cardinality(E) + Cardinality(U) + x <= 1 + n, NEW T \in SUBSET U
    PROVE  IsFiniteSet(T) /\ Cardinality(E) + Cardinality(T) + y <= 1 + m
  <1>1. Cardinality(E) \in Nat /\ Cardinality(U) \in Nat
    BY FS_CardinalityType
  <1>2. IsFiniteSet(T) /\ Cardinality(T) <= Cardinality(U) /\ Cardinality(T) \in Nat
    BY FS_Subset, FS_CardinalityType
  <1> QED
    BY <1>1, <1>2

(* It does if a turn becomes a task, *)
LEMMA BalanceClaim ==
    ASSUME NEW E, IsFiniteSet(E), NEW U, IsFiniteSet(U), NEW n \in Nat, NEW m \in Nat, n <= m,
           Cardinality(E) + Cardinality(U) + 1 <= 1 + n, NEW w
    PROVE  IsFiniteSet(U \cup {w}) /\ Cardinality(E) + Cardinality(U \cup {w}) + 0 <= 1 + m
  <1>1. Cardinality(E) \in Nat /\ Cardinality(U) \in Nat
    BY FS_CardinalityType
  <1>2. /\ IsFiniteSet(U \cup {w})
        /\ Cardinality(U \cup {w}) = Cardinality(U) \/ Cardinality(U \cup {w}) = Cardinality(U) + 1
    BY FS_AddElement
  <1> QED
    BY <1>1, <1>2

(* if a task becomes a turn, *)
LEMMA BalanceRetry ==
    ASSUME NEW E, IsFiniteSet(E), NEW U, IsFiniteSet(U), NEW n \in Nat, NEW m \in Nat, n <= m,
           NEW x \in {0, 1}, NEW y \in {0, 1},
           Cardinality(E) + Cardinality(U) + x <= 1 + n, NEW w \in U
    PROVE  IsFiniteSet(U \ {w}) /\ Cardinality(E) + Cardinality(U \ {w}) + y <= 1 + m
  <1>1. Cardinality(E) \in Nat /\ Cardinality(U) \in Nat
    BY FS_CardinalityType
  <1>2. IsFiniteSet(U \ {w}) /\ Cardinality(U \ {w}) = Cardinality(U) - 1
    BY FS_RemoveElement
  <1> QED
    BY <1>1, <1>2

(* and if a task becomes an email. *)
LEMMA BalanceAccept ==
    ASSUME NEW E, IsFiniteSet(E), NEW U, IsFiniteSet(U), NEW n \in Nat, NEW m \in Nat, n <= m,
           NEW x \in {0, 1}, NEW y \in {0, 1}, y <= x,
           Cardinality(E) + Cardinality(U) + x <= 1 + n, NEW w \in U, NEW a
    PROVE  /\ IsFiniteSet(E \cup {a}) /\ IsFiniteSet(U \ {w})
           /\ Cardinality(E \cup {a}) + Cardinality(U \ {w}) + y <= 1 + m
  <1>1. Cardinality(E) \in Nat /\ Cardinality(U) \in Nat
    BY FS_CardinalityType
  <1>2. IsFiniteSet(U \ {w}) /\ Cardinality(U \ {w}) = Cardinality(U) - 1
    BY FS_RemoveElement
  <1>3. /\ IsFiniteSet(E \cup {a})
        /\ Cardinality(E \cup {a}) = Cardinality(E) \/ Cardinality(E \cup {a}) = Cardinality(E) + 1
    BY FS_AddElement
  <1> QED
    BY <1>1, <1>2, <1>3

(* Every step keeps the account of emails and faults. *)
LEMMA EmailsStep ==
    ASSUME Interval <= ReaperIdle, TypeInv, LeaseInv, Owned, EmailsPaid, [Next]_vars
    PROVE  EmailsPaid'
  <1> SUFFICES ASSUME NEW j \in Job
               PROVE  /\ IsFiniteSet(emails'[j]) /\ IsFiniteSet(Unsent(j)')
                      /\ Cardinality(emails'[j]) + Cardinality(Unsent(j)')
                           + One(Open(j)' \/ Reapable(j)' \/ Retried(j)') <= 1 + faults'
    BY DEF EmailsPaid, One
  <1> DEFINE E == emails[j]
             U == Unsent(j)
             b == Open(j) \/ Reapable(j) \/ Retried(j)
             c == Open(j)' \/ Reapable(j)' \/ Retried(j)'
  <1>1. /\ IsFiniteSet(E) /\ IsFiniteSet(U) /\ Cardinality(E) + Cardinality(U) + One(b) <= 1 + faults
        /\ b \in BOOLEAN /\ c \in BOOLEAN
    BY DEF EmailsPaid
  <1>2. faults \in Nat /\ faults' \in Nat /\ faults <= faults'
    BY EmailsFrame
  <1>3. ASSUME NEW w \in Worker, Claim(w), step'[w][j] = "queued"
        PROVE  b /\ ~c /\ Unsent(j)' = U \cup {w} /\ emails' = emails
    BY <1>3, ClaimTurn
  <1>4. ASSUME NEW w \in Worker, Accept(w, j)
        PROVE  w \in U /\ Unsent(j)' = U \ {w} /\ emails'[j] = E \cup {att[w][j]}
    <2>1. /\ step[w][j] = "sending" /\ step'[w][j] = "accepted"
          /\ \A v \in Worker \ {w} : step'[v] = step[v]
          /\ emails'[j] = E \cup {att[w][j]}
      BY <1>4 DEF Accept, TypeInv, TypeOK
    <2> QED
      BY <2>1, SendTurn
  <1>5. ASSUME NEW w \in Worker, SendTransient(w, j)
        PROVE  /\ emails' = emails
               /\ \/ w \in U /\ Unsent(j)' = U \ {w}
                  \/ Unsent(j)' \subseteq U /\ faults < faults'
    <2>1. /\ \A v \in Worker \ {w} : step'[v] = step[v]
          /\ step'[w][j] \in {"retry", "failed"} /\ emails' = emails
      BY <1>5 DEF SendTransient, TypeInv, TypeOK
    <2>2. CASE step[w][j] = "sending"
      BY <2>1, <2>2, SendTurn
    <2>3. CASE step[w][j] = "accepted"
      <3>1. faults < faults'
        BY <1>2, <1>5, <2>3 DEF SendTransient, Fault
      <3>2. Unsent(j)' \subseteq U
        BY <2>1 DEF Unsent
      <3> QED
        BY <2>1, <3>1, <3>2
    <2> QED
      BY <1>5, <2>2, <2>3 DEF SendTransient
  <1>6. ASSUME ~\E w \in Worker : Claim(w) /\ step'[w][j] = "queued"
        PROVE  Unsent(j)' \subseteq U
    BY <1>6, TaskStep DEF Unsent
  <1>7. ASSUME ~\E w \in Worker : SendTransient(w, j), c
        PROVE  b \/ faults < faults'
    <2>1. CASE Retried(j)'
      <3>1. PICK w \in Worker : Held(w, j)' /\ step'[w][j] = "retry"
        BY <2>1 DEF Retried
      <3>2. Held(w, j) /\ step[w][j] = "retry"
        BY <1>7, <3>1, TaskStep
      <3> QED
        BY <3>2 DEF Retried
    <2>2. CASE Open(j)' \/ Reapable(j)'
      <3>1. b \/ \E w \in Worker : StopWorker(w) \/ Disconnect(w)
        BY <2>2, RiskStep
      <3>2. ASSUME NEW w \in Worker, StopWorker(w) \/ Disconnect(w) PROVE faults < faults'
        BY <1>2, <3>2 DEF StopWorker, Disconnect, Fault
      <3> QED
        BY <3>1, <3>2
    <2> QED
      BY <1>7, <2>1, <2>2
  <1>8. emails'[j] = E \/ \E w \in Worker : Accept(w, j)
    BY EmailsFrame
  <1>9. ASSUME NEW w \in Worker, Accept(w, j)
        PROVE  /\ ~\E v \in Worker : SendTransient(v, j)
               /\ faults' = faults
    <2>1. step[w][j] = "sending" /\ step'[w][j] = "accepted"
            /\ \A v \in Worker \ {w} : step'[v] = step[v]
      BY <1>9 DEF Accept, TypeInv, TypeOK
    <2>2. ASSUME NEW v \in Worker, SendTransient(v, j) PROVE FALSE
      <3>1. step[v][j] \in {"sending", "accepted"} /\ step'[v][j] \in {"retry", "failed"}
        BY <2>2 DEF SendTransient, TypeInv, TypeOK
      <3> QED
        BY <2>1, <3>1
    <2> QED
      BY <1>9, <2>2 DEF Accept
  <1>10a. /\ One(b) \in {0, 1} /\ One(c) \in {0, 1} /\ ((c => b) => One(c) <= One(b))
        /\ (b => One(b) = 1) /\ (~c => One(c) = 0)
    BY <1>1, OneIsANumber
  <1> HIDE DEF E, U, b, c
  <1>10. /\ IsFiniteSet(emails'[j]) /\ IsFiniteSet(Unsent(j)')
         /\ Cardinality(emails'[j]) + Cardinality(Unsent(j)') + One(c) <= 1 + faults'
    <2>1. CASE \E w \in Worker : Claim(w) /\ step'[w][j] = "queued"
      <3>1. PICK w \in Worker : b /\ ~c /\ Unsent(j)' = U \cup {w} /\ emails' = emails
        BY <1>3, <2>1
      <3>2. emails'[j] = E
        BY <3>1 DEF E
      <3>3. /\ IsFiniteSet(U \cup {w})
            /\ Cardinality(E) + Cardinality(U \cup {w}) + One(c) <= 1 + faults'
        <4>1. One(b) = 1 /\ One(c) = 0
          BY <1>10a, <3>1
        <4>2. Cardinality(E) + Cardinality(U) + 1 <= 1 + faults
          BY <1>1, <4>1
        <4>3. /\ IsFiniteSet(U \cup {w})
              /\ Cardinality(E) + Cardinality(U \cup {w}) + 0 <= 1 + faults'
          BY <1>1, <1>2, <4>2, BalanceClaim
        <4> QED
          BY <4>1, <4>3
      <3> QED
        BY <1>1, <3>1, <3>2, <3>3
    <2>2. CASE \E w \in Worker : Accept(w, j)
      <3>1. PICK w \in Worker : Accept(w, j)
        BY <2>2
      <3>2. w \in U /\ Unsent(j)' = U \ {w} /\ emails'[j] = E \cup {att[w][j]}
        BY <1>4, <3>1
      <3>3. c => b
        BY <1>2, <1>7, <1>9, <3>1
      <3>4. /\ IsFiniteSet(E \cup {att[w][j]}) /\ IsFiniteSet(U \ {w})
            /\ Cardinality(E \cup {att[w][j]}) + Cardinality(U \ {w}) + One(c) <= 1 + faults'
        BY <1>1, <1>2, <1>10a, <3>2, <3>3, BalanceAccept
      <3> QED
        BY <3>2, <3>4
    <2>3. ASSUME NEW w \in Worker, SendTransient(w, j), emails'[j] = E, w \in U, Unsent(j)' = U \ {w}
          PROVE  /\ IsFiniteSet(emails'[j]) /\ IsFiniteSet(Unsent(j)')
                 /\ Cardinality(emails'[j]) + Cardinality(Unsent(j)') + One(c) <= 1 + faults'
      <3>1. IsFiniteSet(U \ {w}) /\ Cardinality(E) + Cardinality(U \ {w}) + One(c) <= 1 + faults'
        BY <1>1, <1>2, <1>10a, <2>3, BalanceRetry
      <3> QED
        BY <1>1, <2>3, <3>1
    <2>4. ASSUME emails'[j] = E, Unsent(j)' \subseteq U, c => b \/ faults < faults'
          PROVE  /\ IsFiniteSet(emails'[j]) /\ IsFiniteSet(Unsent(j)')
                 /\ Cardinality(emails'[j]) + Cardinality(Unsent(j)') + One(c) <= 1 + faults'
      <3>1. /\ IsFiniteSet(Unsent(j)')
            /\ Cardinality(E) + Cardinality(Unsent(j)') + One(c) <= 1 + faults'
        BY <1>1, <1>2, <1>10a, <2>4, BalanceKept
      <3> QED
        BY <1>1, <2>4, <3>1
    <2>5. CASE /\ ~\E w \in Worker : Claim(w) /\ step'[w][j] = "queued"
               /\ ~\E w \in Worker : Accept(w, j)
      <3>1. emails'[j] = E /\ Unsent(j)' \subseteq U
        BY <1>6, <1>8, <2>5
      <3>2. CASE \E w \in Worker : SendTransient(w, j)
        BY <1>5, <2>3, <2>4, <3>1, <3>2
      <3>3. CASE ~\E w \in Worker : SendTransient(w, j)
        BY <1>7, <2>4, <3>1, <3>3
      <3> QED
        BY <3>2, <3>3
    <2> QED
      BY <2>1, <2>2, <2>5
  <1> QED
    BY <1>10 DEF c

(* Each duplicate email is paid for by a fault of its own                   *)
(* (DuplicatesNeedFaults), if leases that are renewed on time do not go     *)
(* stale.                                                                   *)
THEOREM DuplicatesArePaid ==
    ASSUME Interval <= ReaperIdle
    PROVE  Spec => []DuplicatesNeedFaults
  <1>1. Init => Owned /\ EmailsPaid
    <2> SUFFICES ASSUME Init, NEW j \in Job
                 PROVE  /\ status[j] = "absent"
                        /\ IsFiniteSet(emails[j]) /\ IsFiniteSet(Unsent(j))
                        /\ Cardinality(emails[j]) + Cardinality(Unsent(j))
                             + One(Open(j) \/ Reapable(j) \/ Retried(j)) <= 1 + faults
      BY DEF Owned, EmailsPaid
    <2>1. emails[j] = {} /\ Unsent(j) = {} /\ faults = 0 /\ status[j] = "absent"
      BY DEF Init, Unsent
    <2>2. One(Open(j) \/ Reapable(j) \/ Retried(j)) \in {0, 1}
      BY DEF One
    <2> QED
      BY <2>1, <2>2, FS_EmptySet
  <1>2. TypeInv /\ LeaseInv /\ Owned /\ EmailsPaid /\ [Next]_vars => Owned' /\ EmailsPaid'
    BY OwnedStep, EmailsStep
  <1>3. TypeInv /\ EmailsPaid => DuplicatesNeedFaults
    <2> SUFFICES ASSUME TypeInv, EmailsPaid, NEW j \in Job
                 PROVE  Cardinality(emails[j]) <= 1 + faults
      BY DEF DuplicatesNeedFaults
    <2>1. One(Open(j) \/ Reapable(j) \/ Retried(j)) \in {0, 1}
      BY DEF One
    <2>2. Cardinality(emails[j]) \in Nat /\ Cardinality(Unsent(j)) \in Nat /\ faults \in Nat
      BY FS_CardinalityType DEF EmailsPaid, TypeInv, TypeOK
    <2> QED
      BY <2>1, <2>2 DEF EmailsPaid
  <1> QED
    BY TypeInit, TypeStep, LeaseInit, LeaseStep, <1>1, <1>2, <1>3, PTL DEF Spec

-----------------------------------------------------------------------------
(* Attempts beyond the cap *)

(* A worker is cut off by a fault only, and while it is cut off it does not *)
(* become idle.                                                             *)
LEMMA CutStep ==
    ASSUME TypeInv, [Next]_vars, NEW w \in Worker, ~reachable'[w]
    PROVE  /\ ~reachable[w] \/ Disconnect(w)
           /\ Idle(w)' => Idle(w)
  <1> DEFINE Goal == (~reachable[w] \/ Disconnect(w)) /\ (Idle(w)' => Idle(w))
  <1> SUFFICES Goal
    OBVIOUS
  <1> USE DEF TypeInv, TypeOK
  <1>0. ASSUME reachable'[w] = reachable[w], step'[w] = step[w] PROVE Goal
    BY <1>0 DEF Idle
  <1>1. CASE UNCHANGED <<reachable, step>>
    BY <1>0, <1>1
  <1>2. ASSUME NEW v \in Worker, NEW how, Die(v, how) PROVE Goal
    <2>1. v # w
      BY <1>2 DEF Die
    <2> QED
      BY <1>0, <1>2, <2>1 DEF Die
  <1>3. CASE Tick
    BY <1>1, <1>3 DEF Tick, tasks
  <1>4. ASSUME NEW k \in Job, Enqueue(k) PROVE Goal
    BY <1>1, <1>4 DEF Enqueue, procs, tasks
  <1>5. ASSUME NEW v \in Worker,
               StartWorker(v) \/ Renew(v) \/ Wake(v) \/ EndBatch(v) \/ Reap(v)
        PROVE  Goal
    BY <1>1, <1>5 DEF StartWorker, Renew, Wake, EndBatch, Reap, tasks
  <1>6. ASSUME NEW v \in Worker, StopWorker(v) \/ ReapError(v) \/ ClaimError(v) PROVE Goal
    BY <1>2, <1>6 DEF StopWorker, ReapError, ClaimError
  <1>7. ASSUME NEW v \in Worker, Disconnect(v) PROVE Goal
    <2>1. CASE v = w
      BY <1>7, <2>1 DEF Disconnect, tasks, Idle
    <2>2. CASE v # w
      BY <1>0, <1>7, <2>2 DEF Disconnect, tasks
    <2> QED
      BY <2>1, <2>2
  <1>8. ASSUME NEW v \in Worker, Reconnect(v) PROVE Goal
    <2>1. v # w
      BY <1>8 DEF Reconnect
    <2> QED
      BY <1>0, <1>8, <2>1 DEF Reconnect, tasks
  <1>9. ASSUME NEW v \in Worker, RenewFail(v) PROVE Goal
    BY <1>1, <1>2, <1>9 DEF RenewFail, tasks
  <1>10. ASSUME NEW v \in Worker, Claim(v) PROVE Goal
    <2>1. v # w
      BY <1>10 DEF Claim
    <2> QED
      BY <1>0, <1>10, <2>1 DEF Claim
  <1>11. ASSUME NEW v \in Worker, NEW k \in Job, NEW x \in Step \ {"none"},
                step' = [step EXCEPT ![v][k] = x], UNCHANGED reachable
         PROVE  Goal
    <2>1. CASE v = w
      BY <1>11, <2>1 DEF Idle
    <2>2. CASE v # w
      BY <1>0, <1>11, <2>2
    <2> QED
      BY <2>1, <2>2
  <1>12. ASSUME NEW v \in Worker, NEW k \in Job, StartSend(v, k) PROVE Goal
    <2>1. CASE reachable[v]
      <3>1. step' = [step EXCEPT ![v][k] = "sending"] /\ UNCHANGED reachable
        BY <1>12, <2>1 DEF StartSend, procs
      <3>2. "sending" \in Step \ {"none"}
        BY DEF Step
      <3> QED
        BY <1>11, <3>1, <3>2
    <2>2. CASE ~reachable[v]
      BY <1>2, <1>12, <2>2 DEF StartSend
    <2> QED
      BY <2>1, <2>2
  <1>13. ASSUME NEW v \in Worker, NEW k \in Job,
                Accept(v, k) \/ SendOk(v, k) \/ SendPermanent(v, k) \/ SendTransient(v, k)
         PROVE  Goal
    <2>1. UNCHANGED reachable
      BY <1>13 DEF Accept, SendOk, SendPermanent, SendTransient, procs
    <2>2. \E x \in Step \ {"none"} : step' = [step EXCEPT ![v][k] = x]
      BY <1>13 DEF Accept, SendOk, SendPermanent, SendTransient, Step, Finalizer
    <2> QED
      BY <1>11, <2>1, <2>2
  <1>14. ASSUME NEW v \in Worker, NEW k \in Job, Finalize(v, k) PROVE Goal
    <2>1. v # w
      BY <1>14 DEF Finalize, procs
    <2>2. step' = [step EXCEPT ![v][k] = "none"] /\ UNCHANGED reachable
      BY <1>14 DEF Finalize, EndTask, procs
    <2> QED
      BY <1>0, <2>1, <2>2
  <1>15. ASSUME NEW v \in Worker, NEW k \in Job, FinalizeError(v, k) PROVE Goal
    BY <1>1, <1>2, <1>15 DEF FinalizeError, procs
  <1>16. CASE UNCHANGED vars
    BY <1>1, <1>16 DEF vars, procs, tasks
  <1> HIDE DEF Goal, TypeInv, TypeOK
  <1>17. ASSUME NEW v \in Worker, NEW k \in Job, JobStep(v, k) PROVE Goal
    BY <1>12, <1>13, <1>14, <1>15, <1>17 DEF JobStep
  <1>18. ASSUME NEW v \in Worker, ProcessStep(v) PROVE Goal
    BY <1>5, <1>6, <1>7, <1>8, <1>9, <1>17, <1>18 DEF ProcessStep
  <1>19. ASSUME NEW v \in Worker, WorkerStep(v) PROVE Goal
    BY <1>5, <1>6, <1>10, <1>19 DEF WorkerStep, DrainStep
  <1> QED
    BY <1>3, <1>4, <1>16, <1>18, <1>19 DEF Next

(* Attempts are counted by claims, those whose reply is lost included. *)
LEMMA CountStep ==
    ASSUME TypeInv, [Next]_vars, NEW j \in Job
    PROVE  \/ attempts'[j] = attempts[j]
           \/ /\ attempts'[j] = attempts[j] + 1 /\ status[j] = "pending"
              /\ status'[j] = "processing"
              /\ \E w \in Worker : (Claim(w) /\ step'[w][j] = "queued") \/ ClaimError(w)
  <1> DEFINE Goal == \/ attempts'[j] = attempts[j]
                     \/ /\ attempts'[j] = attempts[j] + 1 /\ status[j] = "pending"
                        /\ status'[j] = "processing"
                        /\ \E w \in Worker : (Claim(w) /\ step'[w][j] = "queued") \/ ClaimError(w)
  <1> SUFFICES Goal
    OBVIOUS
  <1> USE DEF TypeInv, TypeOK
  <1>1. Tick \/ (\E k \in Job : Enqueue(k)) \/ UNCHANGED vars => Goal
    BY DEF Tick, Enqueue, vars, rows
  <1>2. ASSUME NEW v \in Worker,
               StartWorker(v) \/ StopWorker(v) \/ Disconnect(v) \/ Reconnect(v) \/ Renew(v)
                 \/ RenewFail(v) \/ Wake(v) \/ EndBatch(v)
        PROVE  Goal
    BY <1>2 DEF StartWorker, StopWorker, Disconnect, Reconnect, Renew, RenewFail, Wake, EndBatch, rows
  <1>3. ASSUME NEW v \in Worker, Reap(v) \/ ReapError(v) PROVE Goal
    BY <1>3 DEF Reap, ReapError, ReapRows
  <1>4. ASSUME NEW v \in Worker, NEW S \in SUBSET Due, ClaimRows(v, S),
               j \in S => (Claim(v) /\ step'[v][j] = "queued") \/ ClaimError(v)
        PROVE  Goal
    BY <1>4 DEF ClaimRows, Due
  <1>5. ASSUME NEW v \in Worker, Claim(v) PROVE Goal
    <2>1. PICK S \in SUBSET Due :
             /\ ClaimRows(v, S)
             /\ step' = [step EXCEPT ![v] = [k \in Job |-> IF k \in S THEN "queued" ELSE "none"]]
      BY <1>5 DEF Claim
    <2>2. j \in S => step'[v][j] = "queued"
      BY <2>1
    <2> QED
      BY <1>4, <1>5, <2>1, <2>2
  <1>6. ASSUME NEW v \in Worker, ClaimError(v) PROVE Goal
    <2>1. PICK S \in SUBSET Due : ClaimRows(v, S)
      BY <1>6 DEF ClaimError
    <2> QED
      BY <1>4, <1>6, <2>1
  <1>7. ASSUME NEW v \in Worker, NEW k \in Job, JobStep(v, k) PROVE Goal
    <2>1. CASE UNCHANGED rows
      BY <2>1 DEF rows
    <2>2. CASE step[v][k] \in Finalizer /\ FinalizeRow(v, k)
      BY <2>2, FinalizeRowLease
    <2> QED
      BY <1>7, <2>1, <2>2 DEF JobStep, StartSend, Accept, SendOk, SendPermanent, SendTransient,
                              Finalize, FinalizeError
  <1> HIDE DEF Goal, TypeInv, TypeOK
  <1>8. ASSUME NEW v \in Worker, ProcessStep(v) \/ WorkerStep(v) PROVE Goal
    BY <1>2, <1>3, <1>5, <1>6, <1>7, <1>8 DEF ProcessStep, WorkerStep, DrainStep
  <1> QED
    BY <1>1, <1>8 DEF Next

(* The cut of an idle worker puts no lease at risk. *)
LEMMA IdleCut ==
    ASSUME TypeInv, LeaseInv, NEW v \in Worker, Disconnect(v), Idle(v), NEW j \in Job,
           Open(j)' \/ Reapable(j)'
    PROVE  Open(j) \/ Reapable(j)
  <1>1. ~Held(v, j)
    BY DEF Disconnect, LeaseInv, NoOrphanLease, Idle
  <1>2. UNCHANGED rows /\ pc' = pc /\ beat_in' = beat_in
    BY DEF Disconnect
  <1>3. \A w \in Worker \ {v} : reachable'[w] = reachable[w]
    BY DEF Disconnect, TypeInv, TypeOK
  <1>4. \A w \in Worker : Held(w, j) /\ AtRisk(w, j)' => AtRisk(w, j)
    BY <1>1, <1>2, <1>3 DEF AtRisk, Live, rows
  <1> QED
    BY <1>2, <1>4, RiskFrame DEF rows

(* Every worker that is cut off is paid for by the fault that cut it off. *)
LEMMA OffStep ==
    ASSUME TypeInv, OffPaid, [Next]_vars, faults \in Nat, faults' \in Nat, faults <= faults'
    PROVE  OffPaid' /\ IsFiniteSet(Cut') /\ Cardinality(Cut') <= faults'
  <1>1. IsFiniteSet(Off) /\ Cardinality(Off) <= faults /\ Cardinality(Off) \in Nat
    BY FS_CardinalityType DEF OffPaid
  <1>2. IsFiniteSet(Off') /\ Cardinality(Off') <= faults' /\ Cardinality(Off') \in Nat
    <2>1. CASE \E v \in Worker : Disconnect(v)
      <3>1. PICK v \in Worker : Disconnect(v)
        BY <2>1
      <3>2. Off' = Off \cup {v} /\ faults' = faults + 1
        BY <3>1 DEF Off, Disconnect, Fault, TypeInv, TypeOK
      <3>3. /\ IsFiniteSet(Off \cup {v})
            /\ Cardinality(Off \cup {v}) = Cardinality(Off) \/ Cardinality(Off \cup {v}) = Cardinality(Off) + 1
        BY <1>1, FS_AddElement
      <3> QED
        BY <1>1, <3>2, <3>3
    <2>2. CASE ~\E v \in Worker : Disconnect(v)
      <3>1. Off' \subseteq Off
        BY <2>2, CutStep DEF Off
      <3>2. IsFiniteSet(Off') /\ Cardinality(Off') <= Cardinality(Off) /\ Cardinality(Off') \in Nat
        BY <1>1, <3>1, FS_Subset, FS_CardinalityType
      <3> QED
        BY <1>1, <3>2
    <2> QED
      BY <2>1, <2>2
  <1>3. Cut' \subseteq Off'
    BY DEF Cut
  <1>4. IsFiniteSet(Cut') /\ Cardinality(Cut') <= Cardinality(Off') /\ Cardinality(Cut') \in Nat
    BY <1>2, <1>3, FS_Subset, FS_CardinalityType
  <1> QED
    BY <1>2, <1>4 DEF OffPaid

(* Arithmetic of the account: x attempts below the cap leave room for one    *)
(* more and for those that a cut off worker may count for each of k faults, *)
LEMMA BelowTheCap ==
    ASSUME NEW x \in Nat, NEW cap \in Nat, x < cap, NEW k \in Nat, NEW l \in Nat, l <= k
    PROVE  x <= cap + k /\ \A y \in {0, 1} : x + l + y <= cap + k
  OBVIOUS

(* a bound grows with the faults, *)
LEMMA StillBelow ==
    ASSUME NEW x \in Nat, NEW cap \in Nat, NEW k \in Nat, NEW l \in Nat, k <= l, x <= cap + k
    PROVE  x <= cap + l
  OBVIOUS

(* and a bound kept by its parts is kept by their sum. *)
LEMMA AccountKept ==
    ASSUME NEW x \in Nat, NEW cap \in Nat, NEW k \in Nat, NEW l \in Nat, NEW f \in Nat, NEW g \in Nat
    PROVE  \A y \in {0, 1}, z \in {0, 1} :
              x + k + y <= cap + f /\ l + z + f <= k + y + g => x + l + z <= cap + g
  OBVIOUS

(* Every step keeps the account of attempts and faults. *)
LEMMA AttemptsStep ==
    ASSUME Interval <= ReaperIdle, TypeInv, LeaseInv, Owned, OffPaid, AttemptsPaid, [Next]_vars
    PROVE  AttemptsPaid'
  <1> SUFFICES ASSUME NEW j \in Job
               PROVE  /\ attempts'[j] <= MaxAttempts + faults'
                      /\ status'[j] \notin {"completed", "failed"} =>
                            attempts'[j] + Cardinality(Cut') + One(Open(j)' \/ Reapable(j)')
                               <= MaxAttempts + faults'
    BY DEF AttemptsPaid, One
  <1> DEFINE b == Open(j) \/ Reapable(j)
             c == Open(j)' \/ Reapable(j)'
             a == attempts[j]
             n == Cardinality(Cut)
             m == Cardinality(Cut')
  <1>1. faults \in Nat /\ faults' \in Nat /\ faults <= faults'
    BY EmailsFrame
  <1>2. OffPaid' /\ IsFiniteSet(Cut') /\ m <= faults' /\ m \in Nat
    BY <1>1, OffStep, FS_CardinalityType
  <1>3. IsFiniteSet(Cut) /\ n \in Nat
    <2>1. Cut \subseteq Off /\ IsFiniteSet(Off)
      BY DEF Cut, OffPaid
    <2> QED
      BY <2>1, FS_Subset, FS_CardinalityType
  <1>4. a \in Nat /\ attempts'[j] \in Nat /\ MaxAttempts \in Nat
    <2>1. TypeInv'
      BY TypeStep
    <2> QED
      BY <2>1, SettingsAssumption DEF TypeInv, TypeOK
  <1>5. /\ a <= MaxAttempts + faults
        /\ status[j] \notin {"completed", "failed"} => a + n + One(b) <= MaxAttempts + faults
    BY DEF AttemptsPaid
  <1>6. /\ b \in BOOLEAN /\ c \in BOOLEAN
        /\ One(b) \in {0, 1} /\ One(c) \in {0, 1} /\ ((c => b) => One(c) <= One(b))
        /\ (b => One(b) = 1) /\ (~c => One(c) = 0)
    BY OneIsANumber
  <1>7. status'[j] \notin {"completed", "failed"} => status[j] \notin {"completed", "failed"}
    <2>1. CASE UNCHANGED vars
      BY <2>1 DEF vars, rows
    <2>2. CASE RowStep
      BY <2>2 DEF RowStep
    <2>3. [RowStep]_vars
      BY ForwardStep
    <2> QED
      BY <2>1, <2>2, <2>3
  <1>8. ASSUME NEW w \in Worker, Disconnect(w)
        PROVE  Cut' \subseteq Cut \cup (IF Idle(w) THEN {w} ELSE {}) /\ faults' = faults + 1
    <2>1. ASSUME NEW v \in Worker, v \in Cut' PROVE v \in Cut \/ (v = w /\ Idle(w))
      <3>1. ~reachable'[v] /\ Idle(v)'
        BY <2>1 DEF Cut, Off
      <3>2. Idle(v) /\ (~reachable[v] \/ v = w)
        BY <1>8, <3>1, CutStep DEF Disconnect, TypeInv, TypeOK
      <3> QED
        BY <3>2 DEF Cut, Off
    <2>2. Cut' \subseteq Worker
      BY DEF Cut, Off
    <2> QED
      BY <1>8, <2>1, <2>2 DEF Disconnect, Fault
  <1>9. ASSUME ~\E w \in Worker : Disconnect(w)
        PROVE  Cut' \subseteq Cut
    BY <1>9, CutStep DEF Cut, Off
  <1>10. ASSUME NEW w \in Worker, Claim(w) \/ ClaimError(w)
         PROVE  ~\E v \in Worker : Disconnect(v)
    <2>1. pc[w] = "claim" /\ pc'[w] # "claim"
      <3>1. CASE Claim(w)
        BY <3>1 DEF Claim, TypeInv, TypeOK
      <3>2. CASE ClaimError(w)
        BY <3>2 DEF ClaimError, Die, TypeInv, TypeOK
      <3> QED
        BY <1>10, <3>1, <3>2
    <2> QED
      BY <2>1 DEF Disconnect
  <1>11. ASSUME NEW w \in Worker, ClaimError(w)
         PROVE  w \in Cut /\ Cut' \subseteq Cut \ {w} /\ faults' = faults
    <2>1. w \in Cut
      BY <1>11 DEF ClaimError, LeaseInv, TaskOK, Idle, Cut, Off
    <2>2. reachable'[w]
      BY <1>11 DEF ClaimError, Die, TypeInv, TypeOK
    <2>3. w \notin Cut'
      BY <2>2 DEF Cut, Off
    <2> QED
      BY <1>9, <1>10, <1>11, <2>1, <2>3 DEF ClaimError
  <1>12. ASSUME NEW w \in Worker, Claim(w), step'[w][j] = "queued"
         PROVE  b /\ ~c /\ faults' = faults
    BY <1>12, ClaimTurn
  <1>13. ASSUME NEW v \in Worker, Disconnect(v), Idle(v), c PROVE b
    BY <1>13, IdleCut
  <1>14. ASSUME Retried(j)
         PROVE  a < MaxAttempts /\ status[j] = "processing"
    BY <1>14 DEF Retried, LeaseInv, FenceNamesTheClaim, TypeInv, AttOK, Held
  <1>15. ASSUME c, ~Retried(j)
         PROVE  b \/ faults < faults'
    <2>1. ASSUME NEW w \in Worker, StopWorker(w) \/ Disconnect(w) PROVE faults < faults'
      BY <1>1, <2>1 DEF StopWorker, Disconnect, Fault
    <2> QED
      BY <1>15, <2>1, RiskStep
  <1>16. \/ attempts'[j] = a
         \/ /\ attempts'[j] = a + 1 /\ status[j] = "pending" /\ status'[j] = "processing"
            /\ \E w \in Worker : (Claim(w) /\ step'[w][j] = "queued") \/ ClaimError(w)
    BY CountStep
  <1>17. status[j] = "pending" => b
    BY DEF Open
  <1>18. ASSUME NEW T \in SUBSET Cut
         PROVE  IsFiniteSet(T) /\ Cardinality(T) <= n /\ Cardinality(T) \in Nat
    BY <1>3, FS_Subset, FS_CardinalityType
  <1> DEFINE Goal == /\ attempts'[j] <= MaxAttempts + faults'
                     /\ status'[j] \notin {"completed", "failed"} =>
                           attempts'[j] + m + One(c) <= MaxAttempts + faults'
  <1>19. Goal
    <2> HIDE DEF b, c, a, m, n
    <2>0. One(b) \in {0, 1} /\ One(c) \in {0, 1}
      BY <1>6
    <2>1. CASE Retried(j)
      <3>1. a < MaxAttempts /\ attempts'[j] = a
        BY <1>14, <1>16, <2>1
      <3>2. /\ a <= MaxAttempts + faults'
            /\ \A y \in {0, 1} : a + m + y <= MaxAttempts + faults'
        <4>1. a < MaxAttempts /\ a \in Nat /\ MaxAttempts \in Nat
          BY <1>4, <3>1
        <4>2. faults' \in Nat /\ m \in Nat /\ m <= faults'
          BY <1>1, <1>2
        <4> QED
          BY <4>1, <4>2, BelowTheCap
      <3> QED
        BY <2>0, <3>1, <3>2
    <2>2. ASSUME NEW w \in Worker, Claim(w), step'[w][j] = "queued", attempts'[j] = a + 1,
                 status[j] = "pending"
          PROVE  Goal
      <3>1. m <= n
        BY <1>9, <1>10, <1>18, <2>2 DEF m
      <3>2. One(b) = 1 /\ One(c) = 0 /\ faults' = faults
        BY <1>6, <1>12, <2>2
      <3>3. a + n + 1 <= MaxAttempts + faults
        BY <1>5, <2>2, <3>2
      <3> QED
        BY <1>1, <1>2, <1>3, <1>4, <2>2, <3>1, <3>2, <3>3
    <2>3. ASSUME NEW w \in Worker, ClaimError(w), attempts'[j] = a + 1, status[j] = "pending"
          PROVE  Goal
      <3>1. w \in Cut /\ Cut' \subseteq Cut \ {w} /\ faults' = faults
        BY <1>11, <2>3
      <3>2. IsFiniteSet(Cut \ {w}) /\ Cardinality(Cut \ {w}) = n - 1
        BY <1>3, <3>1, FS_RemoveElement DEF n
      <3>3. m <= n - 1
        BY <3>1, <3>2, FS_Subset DEF m, n
      <3>4. a + n + 1 <= MaxAttempts + faults
        BY <1>5, <1>6, <1>17, <2>3
      <3> QED
        BY <1>1, <1>2, <1>3, <1>4, <1>6, <2>3, <3>1, <3>3, <3>4
    <2>4. ASSUME NEW w \in Worker, Disconnect(w), attempts'[j] = a, ~Retried(j) PROVE Goal
      <3>1. faults' = faults + 1
        BY <1>8, <2>4
      <3>2. m + One(c) <= n + One(b) + 1
        <4>1. CASE Idle(w)
          <5>1. Cut' \subseteq Cut \cup {w}
            BY <1>8, <2>4, <4>1
          <5>2. /\ IsFiniteSet(Cut \cup {w})
                /\ Cardinality(Cut \cup {w}) = n \/ Cardinality(Cut \cup {w}) = n + 1
            BY <1>3, FS_AddElement DEF n
          <5>3. m <= Cardinality(Cut \cup {w})
            BY <5>1, <5>2, FS_Subset DEF m
          <5>4. One(c) <= One(b)
            BY <1>6, <1>13, <2>4, <4>1
          <5> QED
            BY <1>2, <1>3, <1>6, <5>2, <5>3, <5>4
        <4>2. CASE ~Idle(w)
          <5>1. Cut' \subseteq Cut
            BY <1>8, <2>4, <4>2
          <5>2. m <= n
            BY <1>18, <5>1 DEF m
          <5> QED
            BY <1>2, <1>3, <1>6, <5>2
        <4> QED
          BY <4>1, <4>2
      <3> QED
        BY <1>1, <1>2, <1>3, <1>4, <1>5, <1>6, <1>7, <2>4, <3>1, <3>2
    <2>5. CASE ~(\E w \in Worker : Disconnect(w)) /\ attempts'[j] = a /\ ~Retried(j)
      <3>1. m <= n
        BY <1>9, <1>18, <2>5 DEF m
      <3>2. One(c) <= One(b) \/ faults < faults'
        BY <1>6, <1>15, <2>5
      <3>3. m + One(c) + faults <= n + One(b) + faults'
        BY <1>1, <1>2, <1>3, <2>0, <3>1, <3>2
      <3> QED
        <4>1. a <= MaxAttempts + faults'
          <5>1. a <= MaxAttempts + faults
            BY <1>5
          <5>2. a \in Nat /\ MaxAttempts \in Nat
            BY <1>4
          <5> QED
            BY <1>1, <5>1, <5>2, StillBelow
        <4>2. ASSUME status'[j] \notin {"completed", "failed"}
              PROVE  attempts'[j] + m + One(c) <= MaxAttempts + faults'
          <5>1. a + n + One(b) <= MaxAttempts + faults
            BY <1>5, <1>7, <4>2
          <5>2. \A x \in {0, 1}, y \in {0, 1} :
                   /\ a + n + x <= MaxAttempts + faults
                   /\ m + y + faults <= n + x + faults'
                   => a + m + y <= MaxAttempts + faults'
            BY <1>1, <1>2, <1>3, <1>4, AccountKept
          <5>3. a + m + One(c) <= MaxAttempts + faults'
            BY <2>0, <3>3, <5>1, <5>2, Zenon
          <5> QED
            BY <2>5, <5>3
        <4> QED
          BY <2>5, <4>1, <4>2
    <2> HIDE DEF Goal
    <2> QED
      BY <1>16, <2>1, <2>2, <2>3, <2>4, <2>5
  <1> QED
    BY <1>19 DEF c, m

(* Attempts beyond worker_max_attempts are paid for by faults               *)
(* (ExtraAttemptsNeedFaults), under the same condition on the settings.     *)
THEOREM AttemptsArePaid ==
    ASSUME Interval <= ReaperIdle
    PROVE  Spec => []ExtraAttemptsNeedFaults
  <1>1. Init => Owned /\ OffPaid /\ AttemptsPaid
    <2> SUFFICES ASSUME Init PROVE Owned /\ OffPaid /\ AttemptsPaid
      OBVIOUS
    <2>1. Off = {} /\ Cut = {} /\ faults = 0
      BY DEF Init, Off, Cut
    <2>2. IsFiniteSet({}) /\ Cardinality({}) = 0
      BY FS_EmptySet
    <2>3. Owned /\ OffPaid
      BY <2>1, <2>2 DEF Init, Owned, OffPaid
    <2>4. \A j \in Job : One(Open(j) \/ Reapable(j)) \in {0, 1}
      BY DEF One
    <2>5. \A j \in Job : attempts[j] = 0
      BY DEF Init
    <2> QED
      BY <2>1, <2>2, <2>3, <2>4, <2>5, SettingsAssumption DEF AttemptsPaid
  <1>2. TypeInv /\ LeaseInv /\ Owned /\ OffPaid /\ AttemptsPaid /\ [Next]_vars
          => Owned' /\ OffPaid' /\ AttemptsPaid'
    <2> SUFFICES ASSUME TypeInv, LeaseInv, Owned, OffPaid, AttemptsPaid, [Next]_vars
                 PROVE  Owned' /\ OffPaid' /\ AttemptsPaid'
      OBVIOUS
    <2>1. OffPaid'
      <3>1. faults \in Nat /\ faults' \in Nat /\ faults <= faults'
        BY FaultsAddUp
      <3> QED
        BY <3>1, OffStep
    <2> QED
      BY <2>1, OwnedStep, AttemptsStep
  <1>3. AttemptsPaid => ExtraAttemptsNeedFaults
    BY DEF AttemptsPaid, ExtraAttemptsNeedFaults
  <1> QED
    BY TypeInit, TypeStep, LeaseInit, LeaseStep, <1>1, <1>2, <1>3, PTL DEF Spec
=============================================================================
