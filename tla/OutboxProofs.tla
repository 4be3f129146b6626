---------------------------- MODULE OutboxProofs ----------------------------
(***************************************************************************)
(* Theorems about Outbox, for every set of jobs and of workers and every   *)
(* value of the settings and bounds.                                       *)
(***************************************************************************)
EXTENDS Outbox, FiniteSetTheorems, TLAPS

(* A task carries a counted attempt, and a retry is only scheduled below   *)
(* the cap: what the type of next_attempt_at rests on.                      *)
AttOK ==
    \A w \in Worker, j \in Job :
        /\ step[w][j] # "none" => att[w][j] >= 1
        /\ step[w][j] = "retry" => att[w][j] < MaxAttempts

TypeInv == TypeOK /\ AttOK

-----------------------------------------------------------------------------
(* The shared effects keep the types. *)

(* A process that ends leaves well-typed process and task state. *)
LEMMA DieType ==
    ASSUME TypeInv, NEW w \in Worker, NEW how \in Gone, Die(w, how)
    PROVE  /\ pc' \in [Worker -> Gone \cup {"reap", "claim", "work", "wait"}]
           /\ full' \in [Worker -> BOOLEAN]
           /\ beat_in' \in [Worker -> 0 .. Interval]
           /\ stale' \in [Worker -> 0 .. ReaperIdle + 1]
           /\ reachable' \in [Worker -> BOOLEAN]
           /\ step' \in [Worker -> [Job -> Step]]
           /\ att' \in [Worker -> [Job -> Nat]]
           /\ tries' \in [Worker -> [Job -> 0 .. FinalizeMax - 1]]
           /\ AttOK'
  BY SettingsAssumption DEF Die, TypeInv, TypeOK, AttOK, Step, Finalizer

RowsType ==
    /\ status \in [Job -> Status]
    /\ attempts \in [Job -> Nat]
    /\ locked_by \in [Job -> Worker \cup {NULL}]
    /\ hb_age \in [Job -> 0 .. ReaperIdle + 1]
    /\ due_in \in [Job -> Int]

(* The reaper's UPDATE keeps the column types. *)
LEMMA ReapRowsType ==
    ASSUME RowsType, NEW S, ReapRows(S)
    PROVE  RowsType'
  BY SettingsAssumption DEF RowsType, ReapRows, Status

(* The claim's UPDATE keeps the column types. *)
LEMMA ClaimRowsType ==
    ASSUME RowsType, NEW w \in Worker, NEW S, ClaimRows(w, S)
    PROVE  RowsType'
  BY SettingsAssumption DEF RowsType, ClaimRows, Status

(* A finalizer's UPDATE keeps the column types, the backoff included. *)
LEMMA FinalizeRowType ==
    ASSUME TypeInv, NEW w \in Worker, NEW j \in Job,
           step[w][j] \in Finalizer, FinalizeRow(w, j)
    PROVE  RowsType'
  <1>1. CASE ~Held(w, j)
    BY <1>1 DEF FinalizeRow, rows, RowsType, TypeInv, TypeOK
  <1>2. CASE Held(w, j) /\ step[w][j] = "retry"
    <2>1. att[w][j] \in 1 .. MaxAttempts
      BY <1>2, SettingsAssumption DEF TypeInv, TypeOK, AttOK, Step, Finalizer
    <2>2. backoff_delay(att[w][j]) \in Int
      BY <2>1, BackoffAssumption
    <2>3. /\ status' = [status EXCEPT ![j] = "pending"]
          /\ locked_by' = [locked_by EXCEPT ![j] = NULL]
          /\ due_in' = [due_in EXCEPT ![j] = backoff_delay(att[w][j])]
          /\ hb_age' = [hb_age EXCEPT ![j] = 0]
          /\ UNCHANGED attempts
      BY <1>2 DEF FinalizeRow
    <2> QED
      BY <2>2, <2>3, SettingsAssumption DEF RowsType, TypeInv, TypeOK, Status
  <1>3. CASE Held(w, j) /\ step[w][j] # "retry"
    <2>1. step[w][j] \in Status
      BY <1>3 DEF Status, Finalizer
    <2>2. /\ status' = [status EXCEPT ![j] = step[w][j]]
          /\ locked_by' = [locked_by EXCEPT ![j] = @]
          /\ due_in' = [due_in EXCEPT ![j] = 0]
          /\ hb_age' = [hb_age EXCEPT ![j] = 0]
          /\ UNCHANGED attempts
      BY <1>3 DEF FinalizeRow
    <2> QED
      BY <2>1, <2>2, SettingsAssumption DEF RowsType, TypeInv, TypeOK
  <1> QED
    BY <1>1, <1>2, <1>3

-----------------------------------------------------------------------------
(* Type correctness *)

(* The initial state is well typed. *)
LEMMA TypeInit == Init => TypeInv
  BY SettingsAssumption
  DEF Init, TypeInv, TypeOK, AttOK, Status, Step, Finalizer, Gone

(* Every step keeps the types, the retry cap of AttOK included. *)
LEMMA TypeStep == TypeInv /\ [Next]_vars => TypeInv'
  <1> SUFFICES ASSUME TypeInv, [Next]_vars PROVE TypeInv'
    OBVIOUS
  <1> USE SettingsAssumption
  <1>rows. RowsType
    BY DEF TypeInv, TypeOK, RowsType
  <1>1. CASE Tick
    BY <1>1 DEF Tick, tasks, Older, Nearer, Live, TypeInv, TypeOK, AttOK
  <1>2. ASSUME NEW j \in Job, Enqueue(j) PROVE TypeInv'
    BY <1>2 DEF Enqueue, procs, tasks, TypeInv, TypeOK, AttOK, Status
  <1>3. ASSUME NEW w \in Worker, StartWorker(w) PROVE TypeInv'
    BY <1>3 DEF StartWorker, rows, tasks, TypeInv, TypeOK, AttOK
  <1>4. ASSUME NEW w \in Worker, StopWorker(w) PROVE TypeInv'
    BY <1>4, DieType DEF StopWorker, Fault, rows, TypeInv, TypeOK, Gone
  <1>5. ASSUME NEW w \in Worker, Disconnect(w) \/ Reconnect(w) PROVE TypeInv'
    <2>1. CASE Disconnect(w)
      BY <2>1 DEF Disconnect, Fault, rows, tasks, TypeInv, TypeOK, AttOK
    <2>2. CASE Reconnect(w)
      BY <2>2 DEF Reconnect, rows, tasks, TypeInv, TypeOK, AttOK
    <2> QED
      BY <1>5, <2>1, <2>2
  <1>6. ASSUME NEW w \in Worker, Renew(w) PROVE TypeInv'
    BY <1>6 DEF Renew, Renewed, tasks, TypeInv, TypeOK, AttOK
  <1>7. ASSUME NEW w \in Worker, RenewFail(w) PROVE TypeInv'
    <2>0. /\ hb_age' \in [Job -> 0 .. ReaperIdle + 1]
          /\ UNCHANGED <<status, attempts, locked_by, due_in, emails, faults>>
      BY <1>7, SettingsAssumption DEF RenewFail, Renewed, TypeInv, TypeOK
    <2>1. CASE stale[w] > ReaperIdle
      BY <1>7, <2>0, <2>1, DieType DEF RenewFail, TypeInv, TypeOK, Gone
    <2>2. CASE ~(stale[w] > ReaperIdle)
      <3>1. /\ beat_in' = [beat_in EXCEPT ![w] = Interval]
            /\ UNCHANGED <<pc, full, stale, reachable, tasks>>
        BY <1>7, <2>2 DEF RenewFail
      <3> QED
        BY <2>0, <3>1 DEF tasks, TypeInv, TypeOK, AttOK
    <2> QED
      BY <2>1, <2>2
  <1>8. ASSUME NEW w \in Worker, Wake(w) \/ EndBatch(w) PROVE TypeInv'
    BY <1>8 DEF Wake, EndBatch, rows, tasks, TypeInv, TypeOK, AttOK
  <1>9. ASSUME NEW w \in Worker, Reap(w) PROVE TypeInv'
    <2>1. RowsType'
      BY <1>9, <1>rows, ReapRowsType DEF Reap
    <2> QED
      BY <1>9, <2>1 DEF Reap, tasks, RowsType, TypeInv, TypeOK, AttOK
  <1>10. ASSUME NEW w \in Worker, ReapError(w) PROVE TypeInv'
    <2>1. RowsType'
      BY <1>10, <1>rows, ReapRowsType DEF ReapError
    <2> QED
      BY <1>10, <2>1, DieType DEF ReapError, RowsType, TypeInv, TypeOK, Gone
  <1>11. ASSUME NEW w \in Worker, Claim(w) PROVE TypeInv'
    <2> PICK S \in SUBSET Due :
          /\ ClaimRows(w, S)
          /\ pc' = [pc EXCEPT ![w] = IF S = {} THEN "wait" ELSE "work"]
          /\ full' = [full EXCEPT ![w] = Cardinality(S) = ClaimBatch]
          /\ step' = [step EXCEPT ![w] =
                         [j \in Job |-> IF j \in S THEN "queued" ELSE "none"]]
          /\ att' = [att EXCEPT ![w] =
                        [j \in Job |-> IF j \in S THEN attempts[j] + 1 ELSE 0]]
      BY <1>11 DEF Claim
    <2>1. RowsType'
      BY <1>rows, ClaimRowsType
    <2>2. (Cardinality(S) = ClaimBatch) \in BOOLEAN
      OBVIOUS
    <2>3. AttOK'
      BY DEF TypeInv, TypeOK, AttOK
    <2> QED
      BY <1>11, <2>1, <2>2, <2>3
      DEF Claim, RowsType, TypeInv, TypeOK, Step
  <1>12. ASSUME NEW w \in Worker, ClaimError(w) PROVE TypeInv'
    <2>1. RowsType'
      BY <1>12, <1>rows, ClaimRowsType DEF ClaimError
    <2> QED
      BY <1>12, <2>1, DieType DEF ClaimError, RowsType, TypeInv, TypeOK, Gone
  <1>13. ASSUME NEW w \in Worker, NEW j \in Job, StartSend(w, j) PROVE TypeInv'
    <2>1. CASE reachable[w]
      <3>1. /\ step' = [step EXCEPT ![w][j] = "sending"]
            /\ step[w][j] = "queued"
            /\ UNCHANGED <<rows, procs, att, tries, emails, faults>>
        BY <1>13, <2>1 DEF StartSend
      <3> QED
        BY <3>1 DEF rows, procs, TypeInv, TypeOK, AttOK, Step
    <2>2. CASE ~reachable[w]
      BY <1>13, <2>2, DieType DEF StartSend, rows, TypeInv, TypeOK, Gone
    <2> QED
      BY <2>1, <2>2
  <1>14. ASSUME NEW w \in Worker, NEW j \in Job, Accept(w, j) PROVE TypeInv'
    BY <1>14 DEF Accept, rows, procs, TypeInv, TypeOK, AttOK, Step
  <1>15. ASSUME NEW w \in Worker, NEW j \in Job,
                SendOk(w, j) \/ SendPermanent(w, j) PROVE TypeInv'
    <2>1. CASE SendOk(w, j)
      BY <2>1 DEF SendOk, rows, procs, TypeInv, TypeOK, AttOK, Step, Finalizer
    <2>2. CASE SendPermanent(w, j)
      BY <2>2 DEF SendPermanent, rows, procs, TypeInv, TypeOK, AttOK, Step, Finalizer
    <2> QED
      BY <1>15, <2>1, <2>2
  <1>16. ASSUME NEW w \in Worker, NEW j \in Job, SendTransient(w, j) PROVE TypeInv'
    BY <1>16
    DEF SendTransient, Fault, rows, procs, TypeInv, TypeOK, AttOK, Step, Finalizer
  <1>17. ASSUME NEW w \in Worker, NEW j \in Job, Finalize(w, j) PROVE TypeInv'
    <2>1. RowsType'
      BY <1>17, FinalizeRowType DEF Finalize
    <2> QED
      BY <1>17, <2>1
      DEF Finalize, EndTask, procs, RowsType, TypeInv, TypeOK, AttOK, Step
  <1>18. ASSUME NEW w \in Worker, NEW j \in Job, FinalizeError(w, j) PROVE TypeInv'
    <2>1. RowsType'
      BY <1>18, <1>rows, FinalizeRowType DEF FinalizeError, rows, RowsType
    <2>2. CASE tries[w][j] + 1 = FinalizeMax
      BY <1>18, <2>1, <2>2, DieType
      DEF FinalizeError, RowsType, TypeInv, TypeOK, Gone
    <2>3. CASE tries[w][j] + 1 # FinalizeMax
      <3>1. /\ tries' = [tries EXCEPT ![w][j] = @ + 1]
            /\ UNCHANGED <<procs, step, att, emails, faults>>
        BY <1>18, <2>3 DEF FinalizeError
      <3>2. tries[w][j] \in 0 .. FinalizeMax - 1
        BY DEF TypeInv, TypeOK
      <3>3. tries[w][j] + 1 \in 0 .. FinalizeMax - 1
        BY <2>3, <3>2
      <3>4. tries' \in [Worker -> [Job -> 0 .. FinalizeMax - 1]]
        BY <3>1, <3>3 DEF TypeInv, TypeOK
      <3> QED
        BY <2>1, <3>1, <3>4 DEF procs, RowsType, TypeInv, TypeOK, AttOK
    <2> QED
      BY <2>2, <2>3
  <1>19. CASE UNCHANGED vars
    BY <1>19 DEF vars, rows, procs, tasks, TypeInv, TypeOK, AttOK
  <1> QED
    BY <1>1, <1>2, <1>3, <1>4, <1>5, <1>6, <1>7, <1>8, <1>9, <1>10, <1>11,
       <1>12, <1>13, <1>14, <1>15, <1>16, <1>17, <1>18, <1>19
    DEF Next, ProcessStep, WorkerStep, DrainStep, JobStep

(* Type correctness of the worker, for any jobs, workers and settings. *)
THEOREM TypeCorrect == Spec => []TypeOK
  <1>1. TypeInv => TypeOK
    BY DEF TypeInv
  <1> QED
    BY TypeInit, TypeStep, <1>1, PTL DEF Spec

-----------------------------------------------------------------------------
(* The lease *)

(* Only a worker inside its TaskGroup has tasks, for inserted rows, under   *)
(* attempts that were counted.                                              *)
TaskOK ==
    \A w \in Worker, j \in Job :
        step[w][j] # "none" =>
            pc[w] = "work" /\ status[j] # "absent" /\ att[w][j] <= attempts[j]

(* An incarnation that has not started owns nothing. *)
FreshToken == \A w \in Worker, j \in Job : pc[w] = "off" => ~Held(w, j)

LeaseInv == TaskOK /\ FreshToken /\ FenceNamesTheClaim /\ NoOrphanLease

(* A step that ends process w, leaves other processes and their tasks alone *)
(* and takes no row from one owner to give it to another keeps the lease    *)
(* invariant.                                                               *)
LEMMA DieLease ==
    ASSUME TypeInv, LeaseInv, NEW w \in Worker, NEW how \in {"dead", "aborted"},
           Die(w, how),
           \A j \in Job :
              /\ status[j] # "absent" => status'[j] # "absent"
              /\ attempts'[j] \in Nat /\ attempts[j] <= attempts'[j]
              /\ \A v \in Worker \ {w} :
                    (status'[j] = "processing" /\ locked_by'[j] = v) =>
                       Held(v, j) /\ attempts'[j] = attempts[j],
           pc[w] # "off"
    PROVE  LeaseInv'
  <1>1. /\ pc'[w] = how /\ \A v \in Worker \ {w} : pc'[v] = pc[v]
        /\ \A j \in Job : step'[w][j] = "none"
        /\ \A v \in Worker \ {w} : step'[v] = step[v] /\ att'[v] = att[v]
    BY DEF Die, TypeInv, TypeOK
  <1>2. TaskOK'
    <2> SUFFICES ASSUME NEW v \in Worker, NEW k \in Job, step'[v][k] # "none"
                 PROVE  /\ pc'[v] = "work" /\ status'[k] # "absent"
                        /\ att'[v][k] <= attempts'[k]
      BY DEF TaskOK
    <2>1. v # w /\ step[v][k] # "none" /\ att'[v][k] = att[v][k]
      BY <1>1
    <2>2. pc[v] = "work" /\ status[k] # "absent" /\ att[v][k] <= attempts[k]
      BY <2>1 DEF LeaseInv, TaskOK
    <2>3. att[v][k] \in Nat /\ attempts[k] \in Nat
      BY DEF TypeInv, TypeOK
    <2> QED
      BY <1>1, <2>1, <2>2, <2>3
  <1>3. FreshToken'
    BY <1>1 DEF LeaseInv, FreshToken, Held
  <1>4. FenceNamesTheClaim'
    BY <1>1 DEF LeaseInv, FenceNamesTheClaim, Held
  <1>5. NoOrphanLease'
    BY <1>1 DEF LeaseInv, NoOrphanLease, Held, Live, Gone
  <1> QED
    BY <1>2, <1>3, <1>4, <1>5 DEF LeaseInv

(* The lease invariant holds initially. *)
LEMMA LeaseInit == Init => LeaseInv
  BY DEF Init, LeaseInv, TaskOK, FreshToken, FenceNamesTheClaim, NoOrphanLease,
         Held, Live, Gone

(* What a finalizer does to the fence columns. *)
LEMMA FinalizeRowLease ==
    ASSUME TypeInv, NEW w \in Worker, NEW j \in Job,
           step[w][j] \in Finalizer, FinalizeRow(w, j)
    PROVE  /\ attempts' = attempts
           /\ \A k \in Job : k # j => status'[k] = status[k] /\ locked_by'[k] = locked_by[k]
           /\ ~Held(w, j) => status'[j] = status[j] /\ locked_by'[j] = locked_by[j]
           /\ Held(w, j) => status'[j] # "processing" /\ status'[j] # "absent"
  <1>1. CASE ~Held(w, j)
    BY <1>1 DEF FinalizeRow, rows
  <1>2. CASE Held(w, j)
    <2>1. /\ status' = [status EXCEPT ![j] =
                           IF step[w][j] = "retry" THEN "pending" ELSE step[w][j]]
          /\ locked_by' = [locked_by EXCEPT ![j] =
                              IF step[w][j] = "retry" THEN NULL ELSE @]
          /\ UNCHANGED attempts
      BY <1>2 DEF FinalizeRow
    <2> QED
      BY <1>2, <2>1 DEF TypeInv, TypeOK, Finalizer
  <1> QED
    BY <1>1, <1>2

(* Every step keeps the lease invariant. *)
LEMMA LeaseStep == TypeInv /\ LeaseInv /\ [Next]_vars => LeaseInv'
  <1> SUFFICES ASSUME TypeInv, LeaseInv, [Next]_vars PROVE LeaseInv'
    OBVIOUS
  <1> USE DEF LeaseInv
  <1>1. CASE Tick
    BY <1>1 DEF Tick, tasks, TaskOK, FreshToken, FenceNamesTheClaim, NoOrphanLease,
                Held, Live
  <1>2. ASSUME NEW j \in Job, Enqueue(j) PROVE LeaseInv'
    BY <1>2 DEF Enqueue, procs, tasks, TaskOK, FreshToken, FenceNamesTheClaim,
                NoOrphanLease, Held, Live, TypeInv, TypeOK
  <1>3. ASSUME NEW w \in Worker, StartWorker(w) PROVE LeaseInv'
    BY <1>3 DEF StartWorker, rows, tasks, TaskOK, FreshToken, FenceNamesTheClaim,
                NoOrphanLease, Held, Live, Gone, TypeInv, TypeOK
  <1>4. ASSUME NEW w \in Worker, StopWorker(w) PROVE LeaseInv'
    BY <1>4, DieLease DEF StopWorker, rows, Live, Gone, Held, TypeInv, TypeOK
  <1>5. ASSUME NEW w \in Worker, Disconnect(w) \/ Reconnect(w) PROVE LeaseInv'
    BY <1>5 DEF Disconnect, Reconnect, rows, tasks, TaskOK, FreshToken,
                FenceNamesTheClaim, NoOrphanLease, Held, Live
  <1>6. ASSUME NEW w \in Worker, Renew(w) PROVE LeaseInv'
    BY <1>6 DEF Renew, tasks, TaskOK, FreshToken, FenceNamesTheClaim,
                NoOrphanLease, Held, Live
  <1>7. ASSUME NEW w \in Worker, RenewFail(w) PROVE LeaseInv'
    <2>1. CASE stale[w] > ReaperIdle
      BY <1>7, <2>1, DieLease DEF RenewFail, rows, Live, Gone, Held, TypeInv, TypeOK
    <2>2. CASE ~(stale[w] > ReaperIdle)
      BY <1>7, <2>2 DEF RenewFail, rows, tasks, TaskOK, FreshToken,
                        FenceNamesTheClaim, NoOrphanLease, Held, Live
    <2> QED
      BY <2>1, <2>2
  <1>8. ASSUME NEW w \in Worker, Wake(w) PROVE LeaseInv'
    BY <1>8 DEF Wake, rows, tasks, TaskOK, FreshToken, FenceNamesTheClaim,
                NoOrphanLease, Held, Live, Gone, TypeInv, TypeOK
  <1>9. ASSUME NEW w \in Worker, EndBatch(w) PROVE LeaseInv'
    BY <1>9 DEF EndBatch, Idle, rows, tasks, TaskOK, FreshToken, FenceNamesTheClaim,
                NoOrphanLease, Held, Live, Gone, TypeInv, TypeOK
  <1>10. ASSUME NEW w \in Worker, Reap(w) PROVE LeaseInv'
    BY <1>10, NullAssumption
    DEF Reap, ReapRows, Stale, tasks, TaskOK, FreshToken, FenceNamesTheClaim,
        NoOrphanLease, Held, Live, Gone, TypeInv, TypeOK
  <1>11. ASSUME NEW w \in Worker, ReapError(w) PROVE LeaseInv'
    <2>p. PICK S \in SUBSET Stale : ReapRows(S)
      BY <1>11 DEF ReapError
    <2>1. \A j \in Job :
            /\ status[j] # "absent" => status'[j] # "absent"
            /\ attempts'[j] = attempts[j]
            /\ status'[j] = "processing" =>
                  status[j] = "processing" /\ locked_by'[j] = locked_by[j]
      BY <2>p DEF ReapRows, TypeInv, TypeOK
    <2>2. \A j \in Job :
            /\ status[j] # "absent" => status'[j] # "absent"
            /\ attempts'[j] \in Nat /\ attempts[j] <= attempts'[j]
            /\ \A v \in Worker \ {w} :
                  status'[j] = "processing" /\ locked_by'[j] = v =>
                      Held(v, j) /\ attempts'[j] = attempts[j]
      BY <2>1 DEF Held, TypeInv, TypeOK
    <2> QED
      BY <1>11, <2>2, DieLease DEF ReapError
  <1>12. ASSUME NEW w \in Worker, Claim(w) PROVE LeaseInv'
    <2>p. PICK S \in SUBSET Due :
          /\ ClaimRows(w, S)
          /\ pc' = [pc EXCEPT ![w] = IF S = {} THEN "wait" ELSE "work"]
          /\ step' = [step EXCEPT ![w] =
                         [j \in Job |-> IF j \in S THEN "queued" ELSE "none"]]
          /\ att' = [att EXCEPT ![w] =
                        [j \in Job |-> IF j \in S THEN attempts[j] + 1 ELSE 0]]
      BY <1>12 DEF Claim
    <2>0. pc[w] = "claim"
      BY <1>12 DEF Claim
    <2>1. \A j \in S : /\ status'[j] = "processing" /\ locked_by'[j] = w
                       /\ attempts'[j] = attempts[j] + 1
                       /\ step'[w][j] = "queued" /\ att'[w][j] = attempts[j] + 1
      BY <2>p DEF ClaimRows, Due, TypeInv, TypeOK
    <2>2. \A j \in Job \ S : /\ status'[j] = status[j] /\ locked_by'[j] = locked_by[j]
                             /\ attempts'[j] = attempts[j] /\ step'[w][j] = "none"
      BY <2>p DEF ClaimRows, TypeInv, TypeOK
    <2>3. \A v \in Worker \ {w} : /\ step'[v] = step[v] /\ att'[v] = att[v]
                                  /\ pc'[v] = pc[v]
      BY <2>p DEF TypeInv, TypeOK
    <2>4. pc'[w] = IF S = {} THEN "wait" ELSE "work"
      BY <2>p DEF TypeInv, TypeOK
    <2>5. \A j \in Job : ~Held(w, j)
      BY <2>0 DEF NoOrphanLease, TaskOK, Live, Gone
    <2>6. TaskOK'
      <3> SUFFICES ASSUME NEW v \in Worker, NEW k \in Job, step'[v][k] # "none"
                   PROVE  /\ pc'[v] = "work" /\ status'[k] # "absent"
                          /\ att'[v][k] <= attempts'[k]
        BY DEF TaskOK
      <3>1. attempts[k] \in Nat /\ att[v][k] \in Nat
        BY DEF TypeInv, TypeOK
      <3>2. CASE v = w
        <4>1. k \in S
          BY <2>2, <3>2
        <4>2. pc'[w] = "work"
          BY <2>4, <4>1
        <4>3. att'[w][k] = attempts'[k] /\ attempts'[k] \in Nat
          BY <2>1, <3>1, <4>1
        <4> QED
          BY <2>1, <3>2, <4>1, <4>2, <4>3
      <3>3. CASE v # w
        <4>1. step[v][k] # "none" /\ att'[v][k] = att[v][k] /\ pc'[v] = pc[v]
          BY <2>3, <3>3
        <4>2. pc[v] = "work" /\ status[k] # "absent" /\ att[v][k] <= attempts[k]
          BY <4>1 DEF TaskOK
        <4>3. status'[k] # "absent"
          BY <2>1, <2>2, <4>2
        <4>4. attempts'[k] = attempts[k] \/ attempts'[k] = attempts[k] + 1
          BY <2>1, <2>2
        <4> QED
          BY <3>1, <4>1, <4>2, <4>3, <4>4
      <3> QED
        BY <3>2, <3>3
    <2>7. FreshToken'
      <3> SUFFICES ASSUME NEW v \in Worker, NEW k \in Job, pc'[v] = "off"
                   PROVE  ~(status'[k] = "processing" /\ locked_by'[k] = v)
        BY DEF FreshToken, Held
      <3>1. v # w /\ pc[v] = "off"
        BY <2>3, <2>4
      <3> QED
        BY <2>1, <2>2, <3>1 DEF FreshToken, Held
    <2>8. FenceNamesTheClaim'
      <3> SUFFICES ASSUME NEW v \in Worker, NEW k \in Job, step'[v][k] # "none",
                          status'[k] = "processing", locked_by'[k] = v
                   PROVE  att'[v][k] = attempts'[k]
        BY DEF FenceNamesTheClaim, Held
      <3>1. CASE k \in S
        BY <2>1, <3>1
      <3>2. CASE k \notin S
        <4>1. v # w /\ Held(v, k) /\ step[v][k] # "none"
          BY <2>2, <2>3, <3>2 DEF Held
        <4> QED
          BY <2>2, <2>3, <3>2, <4>1 DEF FenceNamesTheClaim
      <3> QED
        BY <3>1, <3>2
    <2>9. NoOrphanLease'
      <3> SUFFICES ASSUME NEW v \in Worker, NEW k \in Job, pc'[v] \notin Gone,
                          status'[k] = "processing", locked_by'[k] = v
                   PROVE  step'[v][k] # "none"
        BY DEF NoOrphanLease, Held, Live
      <3>1. CASE k \in S
        BY <2>1, <3>1
      <3>2. CASE k \notin S
        <4>1. Held(v, k)
          BY <2>2, <3>2 DEF Held
        <4>2. v # w
          BY <2>5, <4>1
        <4> QED
          BY <2>3, <4>1, <4>2 DEF NoOrphanLease, Live
      <3> QED
        BY <3>1, <3>2
    <2> QED
      BY <2>6, <2>7, <2>8, <2>9
  <1>13. ASSUME NEW w \in Worker, ClaimError(w) PROVE LeaseInv'
    <2>p. PICK S \in SUBSET Due : ClaimRows(w, S)
      BY <1>13 DEF ClaimError
    <2>1. \A j \in Job :
            /\ status[j] # "absent" => status'[j] # "absent"
            /\ attempts'[j] \in Nat /\ attempts[j] <= attempts'[j]
            /\ \A v \in Worker \ {w} :
                  status'[j] = "processing" /\ locked_by'[j] = v =>
                      Held(v, j) /\ attempts'[j] = attempts[j]
      BY <2>p DEF ClaimRows, Due, Held, TypeInv, TypeOK
    <2> QED
      BY <1>13, <2>1, DieLease DEF ClaimError
  <1>14. ASSUME NEW w \in Worker, NEW j \in Job, StartSend(w, j) PROVE LeaseInv'
    <2>1. CASE reachable[w]
      <3>1. /\ step[w][j] # "none" /\ step' = [step EXCEPT ![w][j] = "sending"]
            /\ UNCHANGED <<rows, procs, att>>
        BY <1>14, <2>1 DEF StartSend
      <3> QED
        BY <3>1 DEF rows, procs, TaskOK, FreshToken, FenceNamesTheClaim,
                    NoOrphanLease, Held, Live, TypeInv, TypeOK
    <2>2. CASE ~reachable[w]
      <3>1. pc[w] = "work" /\ Die(w, "dead") /\ UNCHANGED rows
        BY <1>14, <2>2 DEF StartSend, TaskOK
      <3>2. \A k \in Job :
              /\ status[k] # "absent" => status'[k] # "absent"
              /\ attempts'[k] \in Nat /\ attempts[k] <= attempts'[k]
              /\ \A v \in Worker \ {w} :
                    status'[k] = "processing" /\ locked_by'[k] = v =>
                        Held(v, k) /\ attempts'[k] = attempts[k]
        BY <3>1 DEF rows, Held, TypeInv, TypeOK
      <3> QED
        BY <3>1, <3>2, DieLease
    <2> QED
      BY <2>1, <2>2
  <1>15. ASSUME NEW w \in Worker, NEW j \in Job,
                Accept(w, j) \/ SendOk(w, j) \/ SendPermanent(w, j) \/ SendTransient(w, j)
         PROVE  LeaseInv'
    <2>1. /\ step[w][j] # "none"
          /\ \E t \in Step \ {"none"} : step' = [step EXCEPT ![w][j] = t]
          /\ UNCHANGED <<rows, procs, att>>
      BY <1>15 DEF Accept, SendOk, SendPermanent, SendTransient, Step, Finalizer
    <2> QED
      BY <2>1 DEF rows, procs, TaskOK, FreshToken, FenceNamesTheClaim,
                  NoOrphanLease, Held, Live, TypeInv, TypeOK
  <1>16. ASSUME NEW w \in Worker, NEW j \in Job, Finalize(w, j) PROVE LeaseInv'
    <2>1. step[w][j] \in Finalizer /\ FinalizeRow(w, j)
      BY <1>16 DEF Finalize
    <2>2. /\ step' = [step EXCEPT ![w][j] = "none"]
          /\ att' = [att EXCEPT ![w][j] = 0]
          /\ UNCHANGED procs
      BY <1>16 DEF Finalize, EndTask
    <2>3. /\ attempts' = attempts
          /\ \A k \in Job : \/ status'[k] = status[k] /\ locked_by'[k] = locked_by[k]
                            \/ status[k] # "absent" /\ status'[k] \notin {"processing", "absent"}
      BY <2>1, FinalizeRowLease DEF Held
    <2>4. status'[j] # "processing" \/ locked_by'[j] # w
      BY <2>1, FinalizeRowLease DEF Held
    <2> QED
      BY <2>2, <2>3, <2>4
      DEF procs, TaskOK, FreshToken, FenceNamesTheClaim, NoOrphanLease, Held, Live,
          TypeInv, TypeOK
  <1>17. ASSUME NEW w \in Worker, NEW j \in Job, FinalizeError(w, j) PROVE LeaseInv'
    <2>1. step[w][j] \in Finalizer /\ pc[w] = "work"
      BY <1>17 DEF FinalizeError, TaskOK, Finalizer
    <2>2. /\ attempts' = attempts
          /\ \A k \in Job : \/ status'[k] = status[k] /\ locked_by'[k] = locked_by[k]
                            \/ status[k] # "absent" /\ status'[k] \notin {"processing", "absent"}
      BY <1>17, <2>1, FinalizeRowLease DEF FinalizeError, rows, Held
    <2>3. CASE tries[w][j] + 1 = FinalizeMax
      <3>1. Die(w, "dead")
        BY <1>17, <2>3 DEF FinalizeError
      <3>2. \A k \in Job :
              /\ status[k] # "absent" => status'[k] # "absent"
              /\ attempts'[k] \in Nat /\ attempts[k] <= attempts'[k]
              /\ \A v \in Worker \ {w} :
                    status'[k] = "processing" /\ locked_by'[k] = v =>
                        Held(v, k) /\ attempts'[k] = attempts[k]
        BY <2>2 DEF Held, TypeInv, TypeOK
      <3> QED
        BY <2>1, <3>1, <3>2, DieLease
    <2>4. CASE tries[w][j] + 1 # FinalizeMax
      <3>1. UNCHANGED <<procs, step, att>>
        BY <1>17, <2>4 DEF FinalizeError
      <3> QED
        BY <2>2, <3>1 DEF procs, TaskOK, FreshToken, FenceNamesTheClaim,
                          NoOrphanLease, Held, Live
    <2> QED
      BY <2>3, <2>4
  <1>18. CASE UNCHANGED vars
    BY <1>18 DEF vars, rows, procs, tasks, TaskOK, FreshToken, FenceNamesTheClaim,
                 NoOrphanLease, Held, Live
  <1> QED
    BY <1>1, <1>2, <1>3, <1>4, <1>5, <1>6, <1>7, <1>8, <1>9, <1>10, <1>11,
       <1>12, <1>13, <1>14, <1>15, <1>16, <1>17, <1>18
    DEF Next, ProcessStep, WorkerStep, DrainStep, JobStep

(* The fence is sound: a task that still owns its row carries the row's     *)
(* current attempt, so a finalizer never applies a stale outcome.           *)
THEOREM FenceSound == Spec => []FenceNamesTheClaim
  <1>1. LeaseInv => FenceNamesTheClaim
    BY DEF LeaseInv
  <1> QED
    BY TypeInit, TypeStep, LeaseInit, LeaseStep, <1>1, PTL DEF Spec

(* No lease of a living worker is without a task. *)
THEOREM NoLeaseOrphaned == Spec => []NoOrphanLease
  <1>1. LeaseInv => NoOrphanLease
    BY DEF LeaseInv
  <1> QED
    BY TypeInit, TypeStep, LeaseInit, LeaseStep, <1>1, PTL DEF Spec

-----------------------------------------------------------------------------
(* The emails *)

(* Two workers that both think they process a row do so under different    *)
(* attempt numbers.                                                         *)
DistinctAttempts ==
    \A v, w \in Worker, j \in Job :
        v # w /\ step[v][j] # "none" /\ step[w][j] # "none" => att[v][j] # att[w][j]

(* A task only reports success for a message that was accepted. *)
SuccessWasSent ==
    \A w \in Worker, j \in Job :
        step[w][j] \in {"accepted", "completed"} => att[w][j] \in emails[j]

MailInv == DistinctAttempts /\ SuccessWasSent /\ OneEmailPerAttempt /\ CompletedWasSent

(* A step that at most drops tasks, sends nothing and closes a row only if  *)
(* it was emailed keeps the mail invariant.                                 *)
LEMMA MailFrame ==
    ASSUME TypeInv, MailInv, UNCHANGED emails,
           \A w \in Worker, j \in Job : step'[w][j] # "none" =>
               step'[w][j] = step[w][j] /\ att'[w][j] = att[w][j],
           \A j \in Job : /\ attempts'[j] \in Nat /\ attempts[j] <= attempts'[j]
                          /\ status'[j] = "completed" => emails[j] # {}
    PROVE  MailInv'
  <1>1. DistinctAttempts'
    BY DEF MailInv, DistinctAttempts
  <1>2. SuccessWasSent'
    BY DEF MailInv, SuccessWasSent
  <1>3. OneEmailPerAttempt'
    BY DEF MailInv, OneEmailPerAttempt
  <1>4. CompletedWasSent'
    <2> SUFFICES ASSUME NEW j \in Job
                 PROVE  /\ status'[j] = "completed" => emails[j] # {}
                        /\ emails[j] \subseteq 1 .. attempts'[j]
      BY DEF CompletedWasSent
    <2>1. emails[j] \subseteq 1 .. attempts[j] /\ attempts[j] \in Nat
      BY DEF MailInv, CompletedWasSent, TypeInv, TypeOK
    <2>2. emails[j] \subseteq 1 .. attempts'[j]
      BY <2>1
    <2> QED
      BY <2>2
  <1> QED
    BY <1>1, <1>2, <1>3, <1>4 DEF MailInv

(* A process that ends only drops tasks. *)
LEMMA DieDropsTasks ==
    ASSUME TypeInv, NEW w \in Worker, NEW how, Die(w, how)
    PROVE  \A v \in Worker, j \in Job : step'[v][j] # "none" =>
               step'[v][j] = step[v][j] /\ att'[v][j] = att[v][j]
  BY DEF Die, TypeInv, TypeOK

(* A finalizer completes a row only for a task that was sent. *)
LEMMA FinalizeRowMail ==
    ASSUME TypeInv, MailInv, NEW w \in Worker, NEW j \in Job,
           step[w][j] \in Finalizer, FinalizeRow(w, j)
    PROVE  \A k \in Job : /\ attempts'[k] = attempts[k]
                          /\ status'[k] = "completed" => emails[k] # {}
  <1>0. \A k \in Job : status[k] = "completed" => emails[k] # {}
    BY DEF MailInv, CompletedWasSent
  <1>1. CASE ~Held(w, j)
    BY <1>0, <1>1 DEF FinalizeRow, rows
  <1>2. CASE Held(w, j)
    <2>1. /\ status' = [status EXCEPT ![j] =
                           IF step[w][j] = "retry" THEN "pending" ELSE step[w][j]]
          /\ UNCHANGED attempts
      BY <1>2 DEF FinalizeRow
    <2>2. step[w][j] = "completed" => emails[j] # {}
      BY DEF MailInv, SuccessWasSent
    <2> QED
      BY <1>0, <2>1, <2>2 DEF TypeInv, TypeOK
  <1> QED
    BY <1>1, <1>2

(* The mail invariant holds initially. *)
LEMMA MailInit == Init => MailInv
  BY DEF Init, MailInv, DistinctAttempts, SuccessWasSent, OneEmailPerAttempt,
         CompletedWasSent

(* Every step keeps the mail invariant. *)
LEMMA MailStep == TypeInv /\ LeaseInv /\ MailInv /\ [Next]_vars => MailInv'
  <1> SUFFICES ASSUME TypeInv, LeaseInv, MailInv, [Next]_vars PROVE MailInv'
    OBVIOUS
  <1>0. \A j \in Job : /\ attempts[j] \in Nat
                       /\ status[j] = "completed" => emails[j] # {}
    BY DEF MailInv, CompletedWasSent, TypeInv, TypeOK
  <1>1. CASE Tick
    BY <1>0, <1>1, MailFrame DEF Tick, tasks
  <1>2. ASSUME NEW j \in Job, Enqueue(j) PROVE MailInv'
    BY <1>0, <1>2, MailFrame DEF Enqueue, tasks, TypeInv, TypeOK
  <1>3. ASSUME NEW w \in Worker,
               \/ StartWorker(w) \/ Disconnect(w) \/ Reconnect(w) \/ Renew(w)
               \/ Wake(w) \/ EndBatch(w)
        PROVE  MailInv'
    <2>1. UNCHANGED <<status, attempts, step, att, emails>>
      BY <1>3 DEF StartWorker, Disconnect, Reconnect, Renew, Wake, EndBatch, rows, tasks
    <2> QED
      BY <1>0, <2>1, MailFrame
  <1>4. ASSUME NEW w \in Worker, StopWorker(w) PROVE MailInv'
    BY <1>0, <1>4, MailFrame, DieDropsTasks DEF StopWorker, rows
  <1>5. ASSUME NEW w \in Worker, RenewFail(w) PROVE MailInv'
    <2>1. CASE stale[w] > ReaperIdle
      BY <1>0, <1>5, <2>1, MailFrame, DieDropsTasks DEF RenewFail, rows
    <2>2. CASE ~(stale[w] > ReaperIdle)
      BY <1>0, <1>5, <2>2, MailFrame DEF RenewFail, rows, tasks
    <2> QED
      BY <2>1, <2>2
  <1>6. ASSUME NEW w \in Worker, Reap(w) \/ ReapError(w) PROVE MailInv'
    <2>1. PICK S : ReapRows(S)
      BY <1>6 DEF Reap, ReapError
    <2>2. \A j \in Job : /\ attempts'[j] = attempts[j]
                         /\ status'[j] = "completed" => status[j] = "completed"
      BY <2>1 DEF ReapRows
    <2>3. /\ UNCHANGED emails
          /\ \A v \in Worker, j \in Job : step'[v][j] # "none" =>
                step'[v][j] = step[v][j] /\ att'[v][j] = att[v][j]
      BY <1>6, DieDropsTasks DEF Reap, ReapError, tasks
    <2> QED
      BY <1>0, <2>2, <2>3, MailFrame
  <1>7. ASSUME NEW w \in Worker, Claim(w) PROVE MailInv'
    <2>p. PICK S \in SUBSET Due :
          /\ ClaimRows(w, S)
          /\ step' = [step EXCEPT ![w] =
                         [j \in Job |-> IF j \in S THEN "queued" ELSE "none"]]
          /\ att' = [att EXCEPT ![w] =
                        [j \in Job |-> IF j \in S THEN attempts[j] + 1 ELSE 0]]
      BY <1>7 DEF Claim
    <2>1. \A j \in Job :
            /\ step'[w][j] = IF j \in S THEN "queued" ELSE "none"
            /\ j \in S => att'[w][j] = attempts[j] + 1
            /\ attempts'[j] = IF j \in S THEN attempts[j] + 1 ELSE attempts[j]
            /\ status'[j] = "completed" => status[j] = "completed"
      BY <2>p DEF ClaimRows, TypeInv, TypeOK
    <2>2. \A v \in Worker \ {w} : step'[v] = step[v] /\ att'[v] = att[v]
      BY <2>p DEF TypeInv, TypeOK
    <2>3. UNCHANGED emails
      BY <1>7 DEF Claim
    <2>4. \A v \in Worker, j \in Job :
            step[v][j] # "none" => att[v][j] \in Nat /\ att[v][j] < attempts[j] + 1
      BY <1>0 DEF LeaseInv, TaskOK, TypeInv, TypeOK
    <2>5. \A j \in Job : emails[j] \subseteq 1 .. attempts[j]
      BY DEF MailInv, CompletedWasSent
    <2>6. DistinctAttempts'
      <3> SUFFICES ASSUME NEW u \in Worker, NEW v \in Worker, NEW j \in Job, u # v,
                          step'[u][j] # "none", step'[v][j] # "none"
                   PROVE  att'[u][j] # att'[v][j]
        BY DEF DistinctAttempts
      <3>1. CASE u # w /\ v # w
        BY <2>2, <3>1 DEF MailInv, DistinctAttempts
      <3>2. CASE u = w
        BY <2>1, <2>2, <2>4, <3>2
      <3>3. CASE v = w
        BY <2>1, <2>2, <2>4, <3>3
      <3> QED
        BY <3>1, <3>2, <3>3
    <2>7. SuccessWasSent'
      BY <2>1, <2>2, <2>3 DEF MailInv, SuccessWasSent
    <2>8. OneEmailPerAttempt'
      <3> SUFFICES ASSUME NEW v \in Worker, NEW j \in Job,
                          step'[v][j] \in {"queued", "sending"}
                   PROVE  att'[v][j] \notin emails[j]
        BY <2>3 DEF OneEmailPerAttempt
      <3>1. CASE v = w
        BY <1>0, <2>1, <2>5, <3>1
      <3>2. CASE v # w
        BY <2>2, <3>2 DEF MailInv, OneEmailPerAttempt
      <3> QED
        BY <3>1, <3>2
    <2>9. CompletedWasSent'
      <3> SUFFICES ASSUME NEW j \in Job
                   PROVE  /\ status'[j] = "completed" => emails[j] # {}
                          /\ emails[j] \subseteq 1 .. attempts'[j]
        BY <2>3 DEF CompletedWasSent
      <3> QED
        BY <1>0, <2>1, <2>5
    <2> QED
      BY <2>6, <2>7, <2>8, <2>9 DEF MailInv
  <1>8. ASSUME NEW w \in Worker, ClaimError(w) PROVE MailInv'
    <2>1. PICK S : ClaimRows(w, S)
      BY <1>8 DEF ClaimError
    <2>2. \A j \in Job : /\ attempts'[j] \in Nat /\ attempts[j] <= attempts'[j]
                         /\ status'[j] = "completed" => status[j] = "completed"
      BY <1>0, <2>1 DEF ClaimRows
    <2> QED
      BY <1>0, <1>8, <2>2, MailFrame, DieDropsTasks DEF ClaimError
  <1>9. ASSUME NEW w \in Worker, NEW j \in Job, StartSend(w, j) PROVE MailInv'
    <2>1. CASE reachable[w]
      <3>1. /\ step[w][j] = "queued" /\ step' = [step EXCEPT ![w][j] = "sending"]
            /\ UNCHANGED <<rows, att, emails>>
        BY <1>9, <2>1 DEF StartSend
      <3> QED
        BY <3>1 DEF rows, MailInv, DistinctAttempts, SuccessWasSent,
                    OneEmailPerAttempt, CompletedWasSent, TypeInv, TypeOK
    <2>2. CASE ~reachable[w]
      BY <1>0, <1>9, <2>2, MailFrame, DieDropsTasks DEF StartSend, rows
    <2> QED
      BY <2>1, <2>2
  <1>10. ASSUME NEW w \in Worker, NEW j \in Job, Accept(w, j) PROVE MailInv'
    <2>1. /\ step[w][j] = "sending" /\ step' = [step EXCEPT ![w][j] = "accepted"]
          /\ emails' = [emails EXCEPT ![j] = @ \cup {att[w][j]}]
          /\ UNCHANGED <<status, attempts, att>>
      BY <1>10 DEF Accept, rows
    <2>2. DistinctAttempts'
      BY <2>1 DEF MailInv, DistinctAttempts, TypeInv, TypeOK
    <2>3. SuccessWasSent'
      BY <2>1 DEF MailInv, SuccessWasSent, TypeInv, TypeOK
    <2>4. OneEmailPerAttempt'
      <3> SUFFICES ASSUME NEW v \in Worker, NEW k \in Job,
                          step'[v][k] \in {"queued", "sending"}
                   PROVE  att[v][k] \notin emails'[k]
        BY <2>1 DEF OneEmailPerAttempt
      <3>1. step[v][k] \in {"queued", "sending"} /\ ~(v = w /\ k = j)
        BY <2>1 DEF TypeInv, TypeOK
      <3>2. att[v][k] \notin emails[k]
        BY <3>1 DEF MailInv, OneEmailPerAttempt
      <3>3. k = j => att[v][k] # att[w][j]
        BY <2>1, <3>1 DEF MailInv, DistinctAttempts
      <3> QED
        BY <2>1, <3>2, <3>3 DEF TypeInv, TypeOK
    <2>5. CompletedWasSent'
      <3>1. att[w][j] \in 1 .. attempts[j]
        BY <2>1 DEF LeaseInv, TaskOK, TypeInv, TypeOK, AttOK
      <3> QED
        BY <2>1, <3>1 DEF MailInv, CompletedWasSent, TypeInv, TypeOK
    <2> QED
      BY <2>2, <2>3, <2>4, <2>5 DEF MailInv
  <1>11. ASSUME NEW w \in Worker, NEW j \in Job,
                SendOk(w, j) \/ SendPermanent(w, j) \/ SendTransient(w, j)
         PROVE  MailInv'
    <2>1. /\ step[w][j] \in {"sending", "accepted"}
          /\ \E t \in Finalizer :
                /\ step' = [step EXCEPT ![w][j] = t]
                /\ t = "completed" => step[w][j] = "accepted"
          /\ UNCHANGED <<status, attempts, att, emails>>
      BY <1>11 DEF SendOk, SendPermanent, SendTransient, Finalizer, rows
    <2> QED
      BY <2>1 DEF MailInv, DistinctAttempts, SuccessWasSent, OneEmailPerAttempt,
                  CompletedWasSent, TypeInv, TypeOK, Finalizer
  <1>12. ASSUME NEW w \in Worker, NEW j \in Job, Finalize(w, j) PROVE MailInv'
    <2>1. \A k \in Job : /\ attempts'[k] = attempts[k]
                         /\ status'[k] = "completed" => emails[k] # {}
      BY <1>12, FinalizeRowMail DEF Finalize
    <2>2. \A v \in Worker, k \in Job : step'[v][k] # "none" =>
            step'[v][k] = step[v][k] /\ att'[v][k] = att[v][k]
      BY <1>12 DEF Finalize, EndTask, TypeInv, TypeOK
    <2> QED
      BY <1>0, <1>12, <2>1, <2>2, MailFrame DEF Finalize
  <1>13. ASSUME NEW w \in Worker, NEW j \in Job, FinalizeError(w, j) PROVE MailInv'
    <2>1. \A k \in Job : /\ attempts'[k] = attempts[k]
                         /\ status'[k] = "completed" => emails[k] # {}
      BY <1>0, <1>13, FinalizeRowMail DEF FinalizeError, rows
    <2>2. \A v \in Worker, k \in Job : step'[v][k] # "none" =>
            step'[v][k] = step[v][k] /\ att'[v][k] = att[v][k]
      <3>1. CASE tries[w][j] + 1 = FinalizeMax
        BY <1>13, <3>1, DieDropsTasks DEF FinalizeError
      <3>2. CASE tries[w][j] + 1 # FinalizeMax
        BY <1>13, <3>2 DEF FinalizeError
      <3> QED
        BY <3>1, <3>2
    <2> QED
      BY <1>0, <1>13, <2>1, <2>2, MailFrame DEF FinalizeError
  <1>14. CASE UNCHANGED vars
    BY <1>0, <1>14, MailFrame DEF vars, rows, tasks
  <1> QED
    BY <1>1, <1>2, <1>3, <1>4, <1>5, <1>6, <1>7, <1>8, <1>9, <1>10, <1>11,
       <1>12, <1>13, <1>14
    DEF Next, ProcessStep, WorkerStep, DrainStep, JobStep

(* No attempt is ever emailed twice, whatever happens to the lease. *)
THEOREM OneEmailPerAttemptHolds == Spec => []OneEmailPerAttempt
  <1>1. MailInv => OneEmailPerAttempt
    BY DEF MailInv
  <1> QED
    BY TypeInit, TypeStep, LeaseInit, LeaseStep, MailInit, MailStep, <1>1, PTL
    DEF Spec

(* A completed job was emailed. *)
THEOREM CompletedWasSentHolds == Spec => []CompletedWasSent
  <1>1. MailInv => CompletedWasSent
    BY DEF MailInv
  <1> QED
    BY TypeInit, TypeStep, LeaseInit, LeaseStep, MailInit, MailStep, <1>1, PTL
    DEF Spec

-----------------------------------------------------------------------------
(* The reaper and the heartbeat *)

(* A step after which every lease of a living process is fresh, or as old   *)
(* as it was and of the same process, whose renewal clock stands, keeps     *)
(* ReapedOnlyIfSilent.                                                      *)
LEMMA SilentFrame ==
    ASSUME TypeInv, TypeInv', ReapedOnlyIfSilent,
           \A v \in Worker, j \in Job : Live(v)' /\ Held(v, j)' =>
              \/ hb_age'[j] = 0
              \/ /\ Live(v) /\ Held(v, j)
                 /\ hb_age'[j] = hb_age[j] /\ stale'[v] = stale[v]
    PROVE  ReapedOnlyIfSilent'
  <1>1. \A v \in Worker : stale'[v] \in 0 .. ReaperIdle + 1
    BY DEF TypeInv, TypeOK
  <1>2. \A v \in Worker : stale'[v] >= 0
    BY <1>1, SettingsAssumption
  <1> QED
    BY <1>2 DEF ReapedOnlyIfSilent

(* The end of a process leaves the clocks of the others alone. *)
LEMMA DieSilent ==
    ASSUME TypeInv, NEW w \in Worker, NEW how \in Gone, Die(w, how)
    PROVE  \A v \in Worker : Live(v)' => Live(v) /\ stale'[v] = stale[v]
  BY DEF Die, Live, Gone, TypeInv, TypeOK

(* What a finalizer does to a row that stays leased: nothing. *)
LEMMA FinalizeRowSilent ==
    ASSUME TypeInv, NEW w \in Worker, NEW j \in Job,
           step[w][j] \in Finalizer, FinalizeRow(w, j)
    PROVE  \A v \in Worker, k \in Job :
              Held(v, k)' => Held(v, k) /\ hb_age'[k] = hb_age[k]
  <1>1. CASE ~Held(w, j)
    BY <1>1 DEF FinalizeRow, rows, Held
  <1>2. CASE Held(w, j)
    <2>1. \A k \in Job : k # j => hb_age'[k] = hb_age[k]
      BY <1>2 DEF FinalizeRow, TypeInv, TypeOK
    <2> QED
      BY <1>2, <2>1, FinalizeRowLease DEF Held
  <1> QED
    BY <1>1, <1>2

(* Every step keeps a lease no older than its living owner's silence. *)
LEMMA SilentStep ==
    TypeInv /\ LeaseInv /\ ReapedOnlyIfSilent /\ [Next]_vars => ReapedOnlyIfSilent'
  <1> SUFFICES ASSUME TypeInv, LeaseInv, ReapedOnlyIfSilent, [Next]_vars
               PROVE  ReapedOnlyIfSilent'
    OBVIOUS
  <1>t. TypeInv'
    BY TypeStep
  <1>1. CASE Tick
    <2> SUFFICES ASSUME NEW v \in Worker, NEW j \in Job, Live(v)', Held(v, j)'
                 PROVE  hb_age'[j] <= stale'[v]
      BY DEF ReapedOnlyIfSilent
    <2>1. Live(v) /\ Held(v, j)
      BY <1>1 DEF Tick, Live, Held
    <2>2. hb_age'[j] = Older(hb_age[j]) /\ stale'[v] = Older(stale[v])
      BY <1>1, <2>1 DEF Tick, Held
    <2>3. hb_age[j] <= stale[v]
      BY <2>1 DEF ReapedOnlyIfSilent
    <2>4. hb_age[j] \in 0 .. ReaperIdle + 1 /\ stale[v] \in 0 .. ReaperIdle + 1
      BY DEF TypeInv, TypeOK
    <2> QED
      BY <2>2, <2>3, <2>4, SettingsAssumption DEF Older
  <1>2. ASSUME NEW j \in Job, Enqueue(j) PROVE ReapedOnlyIfSilent'
    BY <1>t, <1>2, SilentFrame DEF Enqueue, procs, Live, Held, TypeInv, TypeOK
  <1>3. ASSUME NEW w \in Worker, StartWorker(w) PROVE ReapedOnlyIfSilent'
    <2>1. \A v \in Worker, j \in Job :
            Live(v)' /\ Held(v, j)' => Live(v) /\ Held(v, j)
      BY <1>3 DEF StartWorker, rows, Live, Held, LeaseInv, FreshToken, TypeInv, TypeOK
    <2> QED
      BY <1>t, <1>3, <2>1, SilentFrame DEF StartWorker, rows
  <1>4. ASSUME NEW w \in Worker, StopWorker(w) PROVE ReapedOnlyIfSilent'
    BY <1>t, <1>4, SilentFrame, DieSilent DEF StopWorker, rows, Held, Gone
  <1>5. ASSUME NEW w \in Worker,
               Disconnect(w) \/ Reconnect(w) \/ Wake(w) \/ EndBatch(w)
        PROVE  ReapedOnlyIfSilent'
    <2>1. \A v \in Worker : Live(v)' => Live(v)
      BY <1>5 DEF Disconnect, Reconnect, Wake, EndBatch, Live, Gone, TypeInv, TypeOK
    <2>2. UNCHANGED <<rows, stale>>
      BY <1>5 DEF Disconnect, Reconnect, Wake, EndBatch
    <2> QED
      BY <1>t, <2>1, <2>2, SilentFrame DEF rows, Held
  <1>6. ASSUME NEW w \in Worker, Renew(w) PROVE ReapedOnlyIfSilent'
    <2>1. /\ UNCHANGED <<status, locked_by, pc>>
          /\ \A v \in Worker : v # w => stale'[v] = stale[v]
          /\ \A j \in Job : hb_age'[j] = IF Held(w, j) THEN 0 ELSE hb_age[j]
      BY <1>6 DEF Renew, Renewed, TypeInv, TypeOK
    <2> QED
      BY <1>t, <2>1, SilentFrame DEF Live, Held
  <1>7. ASSUME NEW w \in Worker, RenewFail(w) PROVE ReapedOnlyIfSilent'
    <2>0. /\ UNCHANGED <<status, locked_by>>
          /\ \A j \in Job : hb_age'[j] = 0 \/ hb_age'[j] = hb_age[j]
      BY <1>7 DEF RenewFail, Renewed, TypeInv, TypeOK
    <2>1. CASE stale[w] > ReaperIdle
      BY <1>t, <1>7, <2>0, <2>1, SilentFrame, DieSilent DEF RenewFail, Held, Gone
    <2>2. CASE ~(stale[w] > ReaperIdle)
      BY <1>t, <1>7, <2>0, <2>2, SilentFrame DEF RenewFail, Held, Live
    <2> QED
      BY <2>1, <2>2
  <1>8. ASSUME NEW w \in Worker, Reap(w) \/ ReapError(w) PROVE ReapedOnlyIfSilent'
    <2>1. PICK S : ReapRows(S)
      BY <1>8 DEF Reap, ReapError
    <2>2. \A v \in Worker, j \in Job :
            Held(v, j)' => Held(v, j) /\ hb_age'[j] = hb_age[j]
      BY <2>1 DEF ReapRows, Held
    <2>3. \A v \in Worker : Live(v)' => Live(v) /\ stale'[v] = stale[v]
      BY <1>8, DieSilent DEF Reap, ReapError, Live, Gone, TypeInv, TypeOK
    <2> QED
      BY <1>t, <2>2, <2>3, SilentFrame
  <1>9. ASSUME NEW w \in Worker, Claim(w) \/ ClaimError(w) PROVE ReapedOnlyIfSilent'
    <2>1. PICK S : ClaimRows(w, S)
      BY <1>9 DEF Claim, ClaimError
    <2>2. \A v \in Worker, j \in Job :
            Held(v, j)' => \/ hb_age'[j] = 0
                           \/ Held(v, j) /\ hb_age'[j] = hb_age[j]
      BY <2>1 DEF ClaimRows, Held
    <2>3. \A v \in Worker : Live(v)' => Live(v) /\ stale'[v] = stale[v]
      BY <1>9, DieSilent DEF Claim, ClaimError, Live, Gone, TypeInv, TypeOK
    <2> QED
      BY <1>t, <2>2, <2>3, SilentFrame
  <1>10. ASSUME NEW w \in Worker, NEW j \in Job,
                \/ StartSend(w, j) \/ Accept(w, j) \/ SendOk(w, j)
                \/ SendPermanent(w, j) \/ SendTransient(w, j)
         PROVE  ReapedOnlyIfSilent'
    <2>1. UNCHANGED rows /\ (UNCHANGED procs \/ Die(w, "dead"))
      BY <1>10 DEF StartSend, Accept, SendOk, SendPermanent, SendTransient
    <2>2. \A v \in Worker : Live(v)' => Live(v) /\ stale'[v] = stale[v]
      BY <2>1, DieSilent DEF procs, Live, Gone
    <2> QED
      BY <1>t, <2>1, <2>2, SilentFrame DEF rows, Held
  <1>11. ASSUME NEW w \in Worker, NEW j \in Job, Finalize(w, j) \/ FinalizeError(w, j)
         PROVE  ReapedOnlyIfSilent'
    <2>1. \A v \in Worker, k \in Job :
            Held(v, k)' => Held(v, k) /\ hb_age'[k] = hb_age[k]
      BY <1>11, FinalizeRowSilent DEF Finalize, FinalizeError, rows, Held
    <2>2. UNCHANGED procs \/ Die(w, "dead")
      BY <1>11 DEF Finalize, FinalizeError
    <2>3. \A v \in Worker : Live(v)' => Live(v) /\ stale'[v] = stale[v]
      BY <2>2, DieSilent DEF procs, Live, Gone
    <2> QED
      BY <1>t, <2>1, <2>3, SilentFrame
  <1>12. CASE UNCHANGED vars
    BY <1>t, <1>12, SilentFrame DEF vars, rows, procs, Live, Held
  <1> QED
    BY <1>1, <1>2, <1>3, <1>4, <1>5, <1>6, <1>7, <1>8, <1>9, <1>10, <1>11, <1>12
    DEF Next, ProcessStep, WorkerStep, DrainStep, JobStep

(* The reaper takes a lease only from a process that is gone or has been    *)
(* silent for longer than reaper_idle.                                      *)
THEOREM ReapedOnlyIfSilentHolds == Spec => []ReapedOnlyIfSilent
  <1>1. Init => ReapedOnlyIfSilent
    BY DEF Init, ReapedOnlyIfSilent, Live, Gone
  <1> QED
    BY TypeInit, TypeStep, LeaseInit, LeaseStep, SilentStep, <1>1, PTL DEF Spec

-----------------------------------------------------------------------------
(* Rows only go forward *)

(* A finalizer never touches a settled row: behind the fence it is leased. *)
LEMMA FinalizeRowForward ==
    ASSUME TypeInv, NEW w \in Worker, NEW j \in Job,
           step[w][j] \in Finalizer, FinalizeRow(w, j)
    PROVE  RowStep
  <1>1. \A k \in Job : attempts[k] \in Nat
    BY DEF TypeInv, TypeOK
  <1> QED
    BY <1>1, FinalizeRowLease DEF RowStep, Held

(* Every step moves every row forward or leaves it. *)
LEMMA ForwardStep == TypeInv /\ [Next]_vars => [RowStep]_vars
  <1> SUFFICES ASSUME TypeInv, Next PROVE RowStep
    OBVIOUS
  <1>0. \A k \in Job : attempts[k] \in Nat
    BY DEF TypeInv, TypeOK
  <1>1. CASE UNCHANGED <<status, attempts>>
    BY <1>0, <1>1 DEF RowStep
  <1>2. ASSUME NEW j \in Job, Enqueue(j) PROVE RowStep
    BY <1>0, <1>2 DEF Enqueue, RowStep, TypeInv, TypeOK
  <1>3. ASSUME NEW w \in Worker, Reap(w) \/ ReapError(w) PROVE RowStep
    <2>1. PICK S \in SUBSET Stale : ReapRows(S)
      BY <1>3 DEF Reap, ReapError
    <2> QED
      BY <1>0, <2>1 DEF ReapRows, Stale, RowStep
  <1>4. ASSUME NEW w \in Worker, Claim(w) \/ ClaimError(w) PROVE RowStep
    <2>1. PICK S \in SUBSET Due : ClaimRows(w, S)
      BY <1>4 DEF Claim, ClaimError
    <2> QED
      BY <1>0, <2>1 DEF ClaimRows, Due, RowStep
  <1>5. ASSUME NEW w \in Worker, NEW j \in Job, Finalize(w, j) \/ FinalizeError(w, j)
        PROVE  RowStep
    BY <1>1, <1>5, FinalizeRowForward DEF Finalize, FinalizeError, rows
  <1>6. CASE Tick
    BY <1>1, <1>6 DEF Tick
  <1>7. ASSUME NEW w \in Worker,
               \/ StartWorker(w) \/ StopWorker(w) \/ Disconnect(w) \/ Reconnect(w)
               \/ Renew(w) \/ RenewFail(w) \/ Wake(w) \/ EndBatch(w)
        PROVE  RowStep
    BY <1>1, <1>7 DEF StartWorker, StopWorker, Disconnect, Reconnect, Renew,
                      RenewFail, Wake, EndBatch, rows
  <1>8. ASSUME NEW w \in Worker, NEW j \in Job,
               \/ StartSend(w, j) \/ Accept(w, j) \/ SendOk(w, j)
               \/ SendPermanent(w, j) \/ SendTransient(w, j)
        PROVE  RowStep
    BY <1>1, <1>8 DEF StartSend, Accept, SendOk, SendPermanent, SendTransient, rows
  <1> QED
    BY <1>2, <1>3, <1>4, <1>5, <1>6, <1>7, <1>8 DEF Next, ProcessStep, WorkerStep, DrainStep, JobStep

(* Settled rows stay settled and attempts never go back, in every step. *)
THEOREM TerminalIsFinalHolds == Spec => TerminalIsFinal
  BY TypeInit, TypeStep, ForwardStep, PTL DEF Spec, TerminalIsFinal

-----------------------------------------------------------------------------
(* Outbox implements Delivery *)

(* The emails of a job are finitely many. *)
LEMMA EmailsFinite ==
    ASSUME TypeInv, MailInv, NEW j \in Job
    PROVE  IsFiniteSet(emails[j]) /\ Cardinality(emails[j]) \in Nat
  <1>1. emails[j] \subseteq 1 .. attempts[j] /\ attempts[j] \in Nat
    BY DEF MailInv, CompletedWasSent, TypeInv, TypeOK
  <1>2. IsFiniteSet(1 .. attempts[j])
    BY <1>1, FS_Interval
  <1>3. IsFiniteSet(emails[j])
    BY <1>1, <1>2, FS_Subset
  <1> QED
    BY <1>3, FS_CardinalityType

(* A step that sends nothing and closes no row is a stuttering step. *)
LEMMA OpenStutters ==
    ASSUME UNCHANGED emails,
           \A j \in Job : \/ status'[j] = status[j]
                          \/ /\ status[j] \in {"pending", "processing"}
                             /\ status'[j] \in {"pending", "processing"}
    PROVE  UNCHANGED D!vars
  <1>1. \A j \in Job : JobState(j)' = JobState(j)
    BY DEF JobState
  <1> QED
    BY <1>1 DEF D!vars

(* A finalizer closes its row, behind the fence, or stutters. *)
LEMMA FinalizeRefines ==
    ASSUME TypeInv, MailInv, NEW w \in Worker, NEW j \in Job,
           step[w][j] \in Finalizer, FinalizeRow(w, j), UNCHANGED emails
    PROVE  [D!Next]_D!vars
  <1>1. CASE ~Held(w, j)
    <2>1. UNCHANGED status
      BY <1>1 DEF FinalizeRow, rows
    <2> QED
      BY <2>1, OpenStutters
  <1>2. CASE Held(w, j)
    <2>1. status' = [status EXCEPT ![j] =
                       IF step[w][j] = "retry" THEN "pending" ELSE step[w][j]]
      BY <1>2 DEF FinalizeRow
    <2>2. status \in [Job -> Status] /\ status[j] = "processing"
      BY <1>2 DEF TypeInv, TypeOK, Held
    <2>3. \A k \in Job : k # j => JobState(k)' = JobState(k)
      BY <2>1, <2>2 DEF JobState
    <2>4. JobState(j) = "open"
      BY <2>2 DEF JobState
    <2>5. CASE step[w][j] = "retry"
      BY <2>1, <2>2, <2>5, OpenStutters
    <2>6. CASE step[w][j] = "completed"
      <3>1. emails[j] # {}
        BY <2>6 DEF MailInv, SuccessWasSent
      <3>2. Cardinality(emails[j]) > 0
        BY <3>1, EmailsFinite, FS_EmptySet
      <3>3. JobState(j)' = "completed"
        BY <2>1, <2>2, <2>6 DEF JobState
      <3>4. D!Complete(j)
        BY <2>3, <2>4, <3>2, <3>3 DEF D!Complete
      <3> QED
        BY <3>4 DEF D!Next
    <2>7. CASE step[w][j] = "failed"
      <3>1. JobState(j)' = "failed"
        BY <2>1, <2>2, <2>7 DEF JobState
      <3>2. D!Fail(j)
        BY <2>3, <2>4, <3>1 DEF D!Fail
      <3> QED
        BY <3>2 DEF D!Next
    <2> QED
      BY <2>5, <2>6, <2>7 DEF Finalizer
  <1> QED
    BY <1>1, <1>2

(* Every step of the worker is a step of Delivery or stutters. *)
LEMMA DeliveryStep ==
    TypeInv /\ LeaseInv /\ MailInv /\ [Next]_vars => [D!Next]_D!vars
  <1> SUFFICES ASSUME TypeInv, LeaseInv, MailInv, [Next]_vars PROVE [D!Next]_D!vars
    OBVIOUS
  <1>1. CASE Tick \/ UNCHANGED vars
    BY <1>1, OpenStutters DEF Tick, vars, rows
  <1>2. ASSUME NEW j \in Job, Enqueue(j) PROVE [D!Next]_D!vars
    <2>1. /\ status[j] = "absent" /\ UNCHANGED emails
          /\ status' = [status EXCEPT ![j] = "pending"]
          /\ status \in [Job -> Status]
      BY <1>2 DEF Enqueue, TypeInv, TypeOK
    <2>2. JobState(j) = "absent" /\ JobState(j)' = "open"
      BY <2>1 DEF JobState
    <2>3. \A k \in Job : k # j => JobState(k)' = JobState(k)
      BY <2>1 DEF JobState
    <2>4. D!Enqueue(j)
      BY <2>1, <2>2, <2>3 DEF D!Enqueue
    <2> QED
      BY <2>4 DEF D!Next
  <1>3. ASSUME NEW w \in Worker,
               \/ StartWorker(w) \/ StopWorker(w) \/ Disconnect(w) \/ Reconnect(w)
               \/ Renew(w) \/ RenewFail(w) \/ Wake(w) \/ EndBatch(w)
        PROVE  [D!Next]_D!vars
    <2>1. UNCHANGED <<status, emails>>
      BY <1>3 DEF StartWorker, StopWorker, Disconnect, Reconnect, Renew, RenewFail,
                  Wake, EndBatch, rows
    <2> QED
      BY <2>1, OpenStutters
  <1>4. ASSUME NEW w \in Worker, Reap(w) \/ ReapError(w) PROVE [D!Next]_D!vars
    <2>1. PICK S \in SUBSET Stale : ReapRows(S)
      BY <1>4 DEF Reap, ReapError
    <2>2. UNCHANGED emails
      BY <1>4 DEF Reap, ReapError
    <2> QED
      BY <2>1, <2>2, OpenStutters DEF ReapRows, Stale
  <1>5. ASSUME NEW w \in Worker, Claim(w) \/ ClaimError(w) PROVE [D!Next]_D!vars
    <2>1. PICK S \in SUBSET Due : ClaimRows(w, S)
      BY <1>5 DEF Claim, ClaimError
    <2>2. UNCHANGED emails
      BY <1>5 DEF Claim, ClaimError
    <2> QED
      BY <2>1, <2>2, OpenStutters DEF ClaimRows, Due
  <1>6. ASSUME NEW w \in Worker, NEW j \in Job, Accept(w, j) PROVE [D!Next]_D!vars
    <2>1. /\ step[w][j] = "sending" /\ UNCHANGED status
          /\ emails' = [emails EXCEPT ![j] = @ \cup {att[w][j]}]
      BY <1>6 DEF Accept, rows
    <2>2. emails'[j] = emails[j] \cup {att[w][j]} /\ att[w][j] \notin emails[j]
      BY <2>1 DEF MailInv, OneEmailPerAttempt, TypeInv, TypeOK
    <2>3. Cardinality(emails'[j]) = Cardinality(emails[j]) + 1
      BY <2>2, EmailsFinite, FS_AddElement
    <2>4. \A k \in Job : k # j => emails'[k] = emails[k]
      BY <2>1 DEF TypeInv, TypeOK
    <2>5. JobState(j) # "absent"
      BY <2>1 DEF JobState, LeaseInv, TaskOK
    <2>6. \A k \in Job : JobState(k)' = JobState(k)
      BY <2>1 DEF JobState
    <2>7. D!Send(j)
      BY <2>3, <2>4, <2>5, <2>6 DEF D!Send
    <2> QED
      BY <2>7 DEF D!Next
  <1>7. ASSUME NEW w \in Worker, NEW j \in Job,
               \/ StartSend(w, j) \/ SendOk(w, j) \/ SendPermanent(w, j)
               \/ SendTransient(w, j)
        PROVE  [D!Next]_D!vars
    <2>1. UNCHANGED <<status, emails>>
      BY <1>7 DEF StartSend, SendOk, SendPermanent, SendTransient, rows
    <2> QED
      BY <2>1, OpenStutters
  <1>8. ASSUME NEW w \in Worker, NEW j \in Job, Finalize(w, j) PROVE [D!Next]_D!vars
    BY <1>8, FinalizeRefines DEF Finalize
  <1>9. ASSUME NEW w \in Worker, NEW j \in Job, FinalizeError(w, j)
        PROVE  [D!Next]_D!vars
    BY <1>9, FinalizeRefines, OpenStutters DEF FinalizeError, rows
  <1> QED
    BY <1>1, <1>2, <1>3, <1>4, <1>5, <1>6, <1>7, <1>8, <1>9
    DEF Next, ProcessStep, WorkerStep, DrainStep, JobStep

(* The worker implements at-least-once delivery (Delivery). *)
THEOREM ImplementsDelivery == Spec => AtLeastOnce
  <1>1. Init => D!Init
    BY FS_EmptySet DEF Init, D!Init, JobState
  <1> QED
    BY TypeInit, TypeStep, LeaseInit, LeaseStep, MailInit, MailStep, DeliveryStep,
       <1>1, PTL
    DEF Spec, AtLeastOnce, D!Spec
=============================================================================
