---------------------------- MODULE WakeupProofs ----------------------------
(***************************************************************************)
(* Theorems about Wakeup, for every set of jobs and of workers and every   *)
(* value of the settings: the channel only adds to the outbox, and no      *)
(* wake-up is lost.                                                        *)
(***************************************************************************)
EXTENDS Wakeup, OutboxProofs

(* The channel exists with its process, and a signal is under way only on a *)
(* connection that listens.                                                 *)
ChannelInv ==
    /\ conn \in [Worker -> Conn]
    /\ signal \in [Worker -> BOOLEAN]
    /\ wake \in [Worker -> BOOLEAN]
    /\ \A w \in Worker : /\ conn[w] = "none" <=> pc[w] \in Gone
                         /\ conn[w] = "none" => ~wake[w]
                         /\ signal[w] => Attached(w)

(* Jobs that no worker has claimed yet *)
New == {j \in Job : status[j] = "pending" /\ attempts[j] = 0}

(* A job that was never claimed is due, and what is leased was claimed. *)
NewIsDue ==
    \A j \in Job : /\ status[j] \in {"absent", "pending"} /\ attempts[j] = 0 => due_in[j] <= 0
                   /\ status[j] = "processing" => attempts[j] > 0

(* Nobody is cut off from the database without a fault. *)
Connected == faults = 0 => \A w \in Worker : reachable[w]

(* A worker that will wait without another claim. *)
Content(w) == pc[w] = "wait" \/ (pc[w] = "work" /\ ~full[w])

(* A new job is seen: by the signal on its way, by the wake it sets, or by   *)
(* a claim that is still to come.                                           *)
SeenByAll ==
    \A w \in Worker :
        faults = 0 /\ Content(w) /\ conn[w] = "listening" /\ ~wake[w] /\ ~signal[w] => New = {}

WakeInv == NewIsDue /\ Connected /\ SeenByAll

-----------------------------------------------------------------------------
(* The outbox inside *)

(* A step of the composition is a step of the outbox, or leaves it alone.   *)
LEMMA OutboxStep ==
    ASSUME [Next_Wakeup]_wvars
    PROVE  [Next]_vars
  BY DEF Next_Wakeup, wvars, Next, Notify, Subscribe, CatchUp, Deliver, ListenStep, Drop,
         DropEscapes, Wakened, Polled, WorkerStep

(* With the channel the worker still implements the outbox: waits that end   *)
(* by a signal are waits that may end at any time there.                     *)
THEOREM WakeupImplementsOutbox == Spec_Wakeup => Spec
  <1>1. Init_Wakeup => Init
    BY DEF Init_Wakeup
  <1>2. [Next_Wakeup]_wvars => [Next]_vars
    BY OutboxStep
  <1> QED
    BY <1>1, <1>2, PTL DEF Spec_Wakeup, Spec

(* So leases keep their guarantees under lost connections and lost          *)
(* notifications: no lease is orphaned, and only silent owners are reaped.  *)
THEOREM LeasesSurviveTheChannel == Spec_Wakeup => [](NoOrphanLease /\ ReapedOnlyIfSilent)
  BY WakeupImplementsOutbox, NoLeaseOrphaned, ReapedOnlyIfSilentHolds, PTL

-----------------------------------------------------------------------------
(* The channel *)

(* How a step of the outbox moves a process: one that is gone stays gone,   *)
(* and one that starts was off.                                             *)
LEMMA GoneStays ==
    ASSUME TypeInv, [Next]_vars, NEW w \in Worker, pc[w] \in {"dead", "aborted"}
    PROVE  pc'[w] \in Gone
  <1> USE DEF TypeInv, TypeOK, Gone
  <1>1. ASSUME NEW v \in Worker, NEW how \in Gone, Die(v, how) PROVE pc'[w] \in Gone
    BY <1>1 DEF Die
  <1>2. CASE UNCHANGED pc
    BY <1>2
  <1>3. CASE Tick \/ \E j \in Job : Enqueue(j)
    BY <1>3 DEF Tick, Enqueue, procs
  <1>4. ASSUME NEW v \in Worker, StartWorker(v) \/ Wake(v) \/ Reap(v) \/ Claim(v) \/ EndBatch(v)
        PROVE  pc'[w] \in Gone
    BY <1>4 DEF StartWorker, Wake, Reap, Claim, EndBatch
  <1>5. ASSUME NEW v \in Worker, StopWorker(v) \/ ReapError(v) \/ ClaimError(v)
        PROVE  pc'[w] \in Gone
    BY <1>1, <1>5 DEF StopWorker, ReapError, ClaimError
  <1>6. ASSUME NEW v \in Worker, Disconnect(v) \/ Reconnect(v) \/ Renew(v)
        PROVE  pc'[w] \in Gone
    BY <1>2, <1>6 DEF Disconnect, Reconnect, Renew
  <1>7. ASSUME NEW v \in Worker, RenewFail(v) PROVE pc'[w] \in Gone
    BY <1>1, <1>2, <1>7 DEF RenewFail
  <1>8. ASSUME NEW v \in Worker, NEW j \in Job, JobStep(v, j) PROVE pc'[w] \in Gone
    BY <1>1, <1>2, <1>8 DEF JobStep, StartSend, Accept, SendOk, SendPermanent, SendTransient,
                            Finalize, FinalizeError, procs
  <1>9. CASE UNCHANGED vars
    BY <1>2, <1>9 DEF vars, procs
  <1> QED
    BY <1>3, <1>4, <1>5, <1>6, <1>7, <1>8, <1>9 DEF Next, ProcessStep, WorkerStep, DrainStep

(* What the outbox's steps, but those of the trigger and of the wait, do to  *)
(* the channel of each worker.                                               *)
LEMMA ChannelEffect ==
    ASSUME TypeInv, ChannelInv, [Next]_vars, Channel, NEW w \in Worker
    PROVE  \/ /\ conn'[w] = "none" /\ ~signal'[w] /\ ~wake'[w] /\ pc'[w] \in Gone
           \/ /\ pc[w] = "off" /\ pc'[w] \notin Gone
              /\ conn'[w] = "connecting" /\ ~signal'[w] /\ ~wake'[w]
           \/ /\ pc[w] \notin Gone /\ pc'[w] \notin Gone
              /\ conn'[w] = conn[w] /\ signal'[w] = signal[w] /\ wake'[w] = wake[w]
  <1> USE DEF Channel, KeepWake
  <1>1. CASE pc'[w] \in Gone
    BY <1>1 DEF ChannelInv
  <1>2. CASE pc'[w] \notin Gone /\ pc[w] = "off"
    BY <1>2 DEF ChannelInv, Attached, Gone
  <1>3. CASE pc'[w] \notin Gone /\ pc[w] # "off"
    <2>1. pc[w] \notin Gone
      BY <1>3, GoneStays DEF Gone
    <2> QED
      BY <1>3, <2>1 DEF ChannelInv
  <1> QED
    BY <1>1, <1>2, <1>3

(* Every step keeps the channel's state one the code can be in. *)
LEMMA ChannelStep == TypeInv /\ ChannelInv /\ [Next_Wakeup]_wvars => ChannelInv'
  <1> SUFFICES ASSUME TypeInv, ChannelInv, [Next_Wakeup]_wvars PROVE ChannelInv'
    OBVIOUS
  <1>0. [Next]_vars
    BY OutboxStep
  <1> USE DEF ChannelInv, Attached
  <1>1. CASE Channel
    <2>1. conn' \in [Worker -> Conn] /\ signal' \in [Worker -> BOOLEAN] /\ wake' \in [Worker -> BOOLEAN]
      BY <1>1 DEF Channel, KeepWake, Conn
    <2>2. ASSUME NEW w \in Worker
          PROVE  /\ conn'[w] = "none" <=> pc'[w] \in Gone
                 /\ conn'[w] = "none" => ~wake'[w]
                 /\ signal'[w] => Attached(w)'
      BY <1>0, <1>1, ChannelEffect
    <2> QED
      BY <2>1, <2>2
  <1>2. ASSUME NEW j \in Job, Notify(j) PROVE ChannelInv'
    BY <1>2 DEF Notify, Enqueue, procs
  <1>3. ASSUME NEW w \in Worker, Subscribe(w) PROVE ChannelInv'
    BY <1>3 DEF Subscribe, vars, procs, Conn
  <1>4. ASSUME NEW w \in Worker, CatchUp(w) PROVE ChannelInv'
    BY <1>4 DEF CatchUp, vars, procs, Conn
  <1>5. ASSUME NEW w \in Worker, Deliver(w) PROVE ChannelInv'
    BY <1>5 DEF Deliver, vars, procs, Conn
  <1>6. ASSUME NEW w \in Worker, Drop(w) \/ DropEscapes(w) PROVE ChannelInv'
    BY <1>6 DEF Drop, DropEscapes, vars, procs, Conn
  <1>7. ASSUME NEW w \in Worker, Wakened(w) \/ Polled(w) PROVE ChannelInv'
    BY <1>7 DEF Wakened, Polled, Wake, Gone, TypeInv, TypeOK
  <1>8. CASE UNCHANGED wvars
    BY <1>8 DEF wvars, channel, vars, procs
  <1> QED
    BY <1>1, <1>2, <1>3, <1>4, <1>5, <1>6, <1>7, <1>8 DEF Next_Wakeup, ListenStep

-----------------------------------------------------------------------------
(* Wake-ups *)

(* The initial state has no job and no worker. *)
LEMMA WakeInit == Init_Wakeup => WakeInv
  BY DEF Init_Wakeup, Init, WakeInv, NewIsDue, Connected, SeenByAll, New

(* Steps that keep the columns of a job, or close it, return it or claim it, *)
(* leave no job new that was not.                                            *)
LEMMA NewRows ==
    ASSUME TypeInv, NewIsDue,
           \A j \in Job :
              \/ /\ status'[j] = status[j] /\ attempts'[j] = attempts[j]
                 /\ due_in'[j] \in Int
                 /\ attempts[j] = 0 => due_in'[j] <= due_in[j]
              \/ status[j] = "processing" /\ attempts'[j] = attempts[j] /\ status'[j] # "absent"
              \/ status'[j] = "processing" /\ attempts'[j] = attempts[j] + 1
    PROVE  NewIsDue' /\ New' \subseteq New
  <1> SUFFICES ASSUME NEW j \in Job
               PROVE  /\ status'[j] \in {"absent", "pending"} /\ attempts'[j] = 0 => due_in'[j] <= 0
                      /\ status'[j] = "processing" => attempts'[j] > 0
                      /\ status'[j] = "pending" /\ attempts'[j] = 0 =>
                            status[j] = "pending" /\ attempts[j] = 0
    BY DEF NewIsDue, New
  <1>1. attempts[j] \in Nat /\ due_in[j] \in Int
    BY DEF TypeInv, TypeOK
  <1> QED
    BY <1>1 DEF NewIsDue

(* The reaper returns leased rows. *)
LEMMA ReapNew ==
    ASSUME TypeInv, NewIsDue, NEW S \in SUBSET Stale, ReapRows(S)
    PROVE  NewIsDue' /\ New' \subseteq New
  BY NewRows DEF ReapRows, Stale, TypeInv, TypeOK

(* A claim counts the attempt. *)
LEMMA ClaimNew ==
    ASSUME TypeInv, NewIsDue, NEW w \in Worker, NEW S \in SUBSET Due, ClaimRows(w, S)
    PROVE  NewIsDue' /\ New' \subseteq New /\ New' \cap S = {}
  <1>1. NewIsDue' /\ New' \subseteq New
    BY NewRows DEF ClaimRows, TypeInv, TypeOK
  <1>2. New' \cap S = {}
    BY DEF ClaimRows, New, Due
  <1> QED
    BY <1>1, <1>2

(* A finalizer writes a leased row, or none. *)
LEMMA FinalizeNew ==
    ASSUME TypeInv, NewIsDue, NEW w \in Worker, NEW j \in Job,
           step[w][j] \in Finalizer, FinalizeRow(w, j)
    PROVE  NewIsDue' /\ New' \subseteq New
  <1>1. CASE ~Held(w, j)
    BY <1>1, NewRows DEF FinalizeRow, rows, TypeInv, TypeOK
  <1>2. CASE Held(w, j)
    <2>1. /\ status' = [status EXCEPT ![j] =
                           IF step[w][j] = "retry" THEN "pending" ELSE step[w][j]]
          /\ due_in' = [due_in EXCEPT ![j] =
                           IF step[w][j] = "retry" THEN backoff_delay(att[w][j]) ELSE 0]
          /\ UNCHANGED attempts
      BY <1>2 DEF FinalizeRow
    <2>2. status[j] = "processing" /\ status'[j] # "absent"
      BY <1>2, <2>1 DEF Held, TypeInv, TypeOK, Finalizer
    <2>3. \A k \in Job \ {j} : status'[k] = status[k] /\ due_in'[k] = due_in[k]
      BY <2>1 DEF TypeInv, TypeOK
    <2> QED
      BY <2>1, <2>2, <2>3, NewRows DEF TypeInv, TypeOK
  <1> QED
    BY <1>1, <1>2

(* Only the trigger's insert makes a job new. *)
LEMMA NewShrinks ==
    ASSUME TypeInv, NewIsDue,
           Tick \/ \E w \in Worker : ProcessStep(w) \/ WorkerStep(w)
    PROVE  NewIsDue' /\ New' \subseteq New
  <1>0. CASE UNCHANGED rows
    BY <1>0, NewRows DEF rows, TypeInv, TypeOK
  <1>1. CASE Tick
    <2>1. \A j \in Job : due_in'[j] \in Int /\ due_in'[j] <= due_in[j]
      BY <1>1, SettingsAssumption DEF Tick, Nearer, TypeInv, TypeOK
    <2> QED
      BY <1>1, <2>1, NewRows DEF Tick
  <1>2. ASSUME NEW w \in Worker, StartWorker(w) \/ StopWorker(w) \/ Disconnect(w) \/ Reconnect(w)
                                   \/ Wake(w) \/ EndBatch(w)
        PROVE  UNCHANGED rows
    BY <1>2 DEF StartWorker, StopWorker, Disconnect, Reconnect, Wake, EndBatch
  <1>3. ASSUME NEW w \in Worker, Renew(w) \/ RenewFail(w) PROVE NewIsDue' /\ New' \subseteq New
    BY <1>3, NewRows DEF Renew, RenewFail, TypeInv, TypeOK
  <1>4. ASSUME NEW w \in Worker, Reap(w) \/ ReapError(w) PROVE NewIsDue' /\ New' \subseteq New
    BY <1>4, ReapNew DEF Reap, ReapError
  <1>5. ASSUME NEW w \in Worker, Claim(w) \/ ClaimError(w) PROVE NewIsDue' /\ New' \subseteq New
    BY <1>5, ClaimNew DEF Claim, ClaimError
  <1>6. ASSUME NEW w \in Worker, NEW j \in Job, Finalize(w, j) \/ FinalizeError(w, j)
        PROVE  NewIsDue' /\ New' \subseteq New
    BY <1>0, <1>6, FinalizeNew DEF Finalize, FinalizeError
  <1>7. ASSUME NEW w \in Worker, NEW j \in Job,
               StartSend(w, j) \/ Accept(w, j) \/ SendOk(w, j) \/ SendPermanent(w, j)
                 \/ SendTransient(w, j)
        PROVE  UNCHANGED rows
    BY <1>7 DEF StartSend, Accept, SendOk, SendPermanent, SendTransient
  <1> QED
    BY <1>0, <1>1, <1>2, <1>3, <1>4, <1>5, <1>6, <1>7
    DEF ProcessStep, WorkerStep, DrainStep, JobStep

(* Every step of the outbox counts the faults that cut a worker off. *)
LEMMA ConnectedStep ==
    ASSUME TypeInv, Connected, [Next]_vars
    PROVE  Connected' /\ (faults' = 0 => faults = 0)
  <1> USE DEF TypeInv, TypeOK, Connected
  <1>1. ASSUME NEW w \in Worker, NEW how, Die(w, how), UNCHANGED faults \/ Fault
        PROVE  Connected' /\ (faults' = 0 => faults = 0)
    BY <1>1 DEF Die, Fault
  <1>2. CASE UNCHANGED reachable /\ (UNCHANGED faults \/ Fault)
    BY <1>2 DEF Fault
  <1>3. CASE Tick \/ \E j \in Job : Enqueue(j)
    BY <1>2, <1>3 DEF Tick, Enqueue, procs
  <1>4. ASSUME NEW w \in Worker, StartWorker(w) \/ Wake(w) \/ Reap(w) \/ Claim(w) \/ EndBatch(w)
                                   \/ Renew(w)
        PROVE  Connected' /\ (faults' = 0 => faults = 0)
    BY <1>2, <1>4 DEF StartWorker, Wake, Reap, Claim, EndBatch, Renew
  <1>5. ASSUME NEW w \in Worker, StopWorker(w) \/ ReapError(w) \/ ClaimError(w)
        PROVE  Connected' /\ (faults' = 0 => faults = 0)
    BY <1>1, <1>5 DEF StopWorker, ReapError, ClaimError
  <1>6. ASSUME NEW w \in Worker, Disconnect(w) \/ Reconnect(w)
        PROVE  Connected' /\ (faults' = 0 => faults = 0)
    BY <1>6 DEF Disconnect, Reconnect, Fault
  <1>7. ASSUME NEW w \in Worker, RenewFail(w)
        PROVE  Connected' /\ (faults' = 0 => faults = 0)
    BY <1>1, <1>2, <1>7 DEF RenewFail
  <1>8. ASSUME NEW w \in Worker, NEW j \in Job, JobStep(w, j)
        PROVE  Connected' /\ (faults' = 0 => faults = 0)
    BY <1>1, <1>2, <1>8 DEF JobStep, StartSend, Accept, SendOk, SendPermanent, SendTransient,
                            Finalize, FinalizeError, procs
  <1>9. CASE UNCHANGED vars
    BY <1>2, <1>9 DEF vars, procs
  <1> QED
    BY <1>3, <1>4, <1>5, <1>6, <1>7, <1>8, <1>9 DEF Next, ProcessStep, WorkerStep, DrainStep

(* A claim that leaves its worker content has taken all new jobs: nobody is *)
(* cut off, so no row was skipped as locked.                                *)
LEMMA ClaimTakesAll ==
    ASSUME TypeInv, NewIsDue, Connected, faults = 0, NEW w \in Worker, Claim(w), Content(w)'
    PROVE  New' = {}
  <1>1. PICK S \in SUBSET Due :
          /\ ClaimSet(S) /\ ClaimRows(w, S)
          /\ pc' = [pc EXCEPT ![w] = IF S = {} THEN "wait" ELSE "work"]
          /\ full' = [full EXCEPT ![w] = Cardinality(S) = ClaimBatch]
    BY DEF Claim
  <1>2. pc'[w] = (IF S = {} THEN "wait" ELSE "work")
          /\ full'[w] = (Cardinality(S) = ClaimBatch)
    BY <1>1 DEF TypeInv, TypeOK
  <1>3. Cardinality(S) # ClaimBatch
    <2>1. CASE S = {}
      BY <2>1, FS_EmptySet, SettingsAssumption
    <2>2. CASE S # {}
      BY <1>2, <2>2 DEF Content
    <2> QED
      BY <2>1, <2>2
  <1>4. \A j \in Job : ~RowLocked(j)
    BY DEF Connected, RowLocked
  <1>5. Due \subseteq S
    BY <1>1, <1>3, <1>4 DEF ClaimSet, Due
  <1>6. New' \subseteq New /\ New' \cap S = {}
    BY <1>1, ClaimNew
  <1>7. New \subseteq Due
    BY DEF New, Due, NewIsDue
  <1> QED
    BY <1>5, <1>6, <1>7

(* No other step makes a worker content that was not. *)
LEMMA ContentStep ==
    ASSUME TypeInv, [Next]_vars, NEW w \in Worker, Content(w)', ~Content(w)
    PROVE  Claim(w)
  <1> USE DEF TypeInv, TypeOK, Content
  <1>1. ASSUME NEW v \in Worker, NEW how \in {"dead", "aborted"}, Die(v, how) PROVE FALSE
    BY <1>1 DEF Die
  <1>2. CASE UNCHANGED <<pc, full>>
    BY <1>2
  <1>3. CASE Tick \/ \E j \in Job : Enqueue(j)
    BY <1>3 DEF Tick, Enqueue, procs
  <1>4. ASSUME NEW v \in Worker, StartWorker(v) \/ Wake(v) \/ Reap(v) \/ EndBatch(v) PROVE FALSE
    BY <1>4 DEF StartWorker, Wake, Reap, EndBatch
  <1>5. ASSUME NEW v \in Worker, StopWorker(v) \/ ReapError(v) \/ ClaimError(v) PROVE FALSE
    BY <1>1, <1>5 DEF StopWorker, ReapError, ClaimError
  <1>6. ASSUME NEW v \in Worker, Disconnect(v) \/ Reconnect(v) \/ Renew(v) PROVE FALSE
    BY <1>2, <1>6 DEF Disconnect, Reconnect, Renew
  <1>7. ASSUME NEW v \in Worker, RenewFail(v) PROVE FALSE
    BY <1>1, <1>2, <1>7 DEF RenewFail
  <1>8. ASSUME NEW v \in Worker, NEW j \in Job, JobStep(v, j) PROVE FALSE
    BY <1>1, <1>2, <1>8 DEF JobStep, StartSend, Accept, SendOk, SendPermanent, SendTransient,
                            Finalize, FinalizeError, procs
  <1>9. ASSUME NEW v \in Worker, Claim(v) PROVE Claim(w)
    <2>1. CASE v = w
      BY <1>9, <2>1
    <2>2. CASE v # w
      <3>1. pc'[w] = pc[w] /\ full'[w] = full[w]
        BY <1>9, <2>2 DEF Claim
      <3> QED
        BY <3>1
    <2> QED
      BY <2>1, <2>2
  <1>10. CASE UNCHANGED vars
    BY <1>2, <1>10 DEF vars, procs
  <1> QED
    BY <1>3, <1>4, <1>5, <1>6, <1>7, <1>8, <1>9, <1>10
    DEF Next, ProcessStep, WorkerStep, DrainStep

(* Every step keeps every new job seen by every worker that listens. *)
LEMMA WakeStep ==
    TypeInv /\ ChannelInv /\ WakeInv /\ [Next_Wakeup]_wvars => WakeInv'
  <1> SUFFICES ASSUME TypeInv, ChannelInv, NewIsDue, Connected, SeenByAll, [Next_Wakeup]_wvars
               PROVE  NewIsDue' /\ Connected' /\ SeenByAll'
    BY DEF WakeInv
  <1>0. [Next]_vars
    BY OutboxStep
  <1>1. Connected' /\ (faults' = 0 => faults = 0)
    BY <1>0, ConnectedStep
  <1>2. CASE \/ Tick /\ Channel
             \/ \E w \in Worker : (ProcessStep(w) \/ DrainStep(w)) /\ Channel
    <2>1. NewIsDue' /\ New' \subseteq New
      BY <1>2, NewShrinks DEF WorkerStep
    <2>2. ASSUME NEW w \in Worker, faults' = 0, Content(w)', conn'[w] = "listening",
                 ~wake'[w], ~signal'[w]
          PROVE  New' = {}
      <3>1. conn[w] = "listening" /\ ~wake[w] /\ ~signal[w]
        BY <1>0, <1>2, <2>2, ChannelEffect
      <3>2. CASE Content(w)
        BY <1>1, <2>1, <2>2, <3>1, <3>2 DEF SeenByAll
      <3>3. CASE ~Content(w)
        BY <1>0, <1>1, <2>2, <3>3, ContentStep, ClaimTakesAll
      <3> QED
        BY <3>2, <3>3
    <2> QED
      BY <1>1, <2>1, <2>2 DEF SeenByAll
  <1>3. ASSUME NEW j \in Job, Notify(j) PROVE NewIsDue' /\ SeenByAll'
    <2>1. NewIsDue'
      BY <1>3 DEF Notify, Enqueue, NewIsDue, TypeInv, TypeOK
    <2>2. \A w \in Worker : conn'[w] = "listening" => signal'[w]
      BY <1>3 DEF Notify, Attached
    <2> QED
      BY <2>1, <2>2 DEF SeenByAll
  <1>4. ASSUME NEW w \in Worker, ListenStep(w) \/ Drop(w) \/ DropEscapes(w)
        PROVE  NewIsDue' /\ SeenByAll'
    <2>1. UNCHANGED vars
      BY <1>4 DEF ListenStep, Subscribe, CatchUp, Deliver, Drop, DropEscapes
    <2>2. NewIsDue'
      BY <2>1 DEF vars, rows, NewIsDue
    <2>3. ASSUME NEW v \in Worker, conn'[v] = "listening", ~wake'[v], ~signal'[v]
          PROVE  conn[v] = "listening" /\ ~wake[v] /\ ~signal[v]
      BY <1>4, <2>3 DEF ListenStep, Subscribe, CatchUp, Deliver, Drop, DropEscapes, ChannelInv
    <2>4. New' = New /\ faults' = faults /\ \A v \in Worker : Content(v)' <=> Content(v)
      BY <2>1 DEF vars, rows, procs, New, Content
    <2> QED
      BY <2>2, <2>3, <2>4 DEF SeenByAll
  <1>5. ASSUME NEW w \in Worker, Wakened(w) \/ Polled(w) PROVE NewIsDue' /\ SeenByAll'
    <2>1. /\ pc' = [pc EXCEPT ![w] = "reap"]
          /\ wake' = [wake EXCEPT ![w] = FALSE]
          /\ UNCHANGED <<rows, full, faults, conn, signal>>
      BY <1>5 DEF Wakened, Polled, Wake
    <2>2. NewIsDue' /\ New' = New
      BY <2>1 DEF rows, NewIsDue, New
    <2>3. ~Content(w)'
      BY <2>1 DEF Content, TypeInv, TypeOK
    <2>4. \A v \in Worker \ {w} : (Content(v)' <=> Content(v)) /\ wake'[v] = wake[v]
      BY <2>1 DEF Content, TypeInv, TypeOK, ChannelInv
    <2> QED
      BY <2>1, <2>2, <2>3, <2>4 DEF SeenByAll
  <1>6. CASE UNCHANGED wvars
    <2>1. UNCHANGED <<rows, pc, full, faults, conn, signal, wake>>
      BY <1>6 DEF wvars, vars, channel, procs
    <2> QED
      BY <1>1, <2>1 DEF rows, NewIsDue, SeenByAll, New, Content
  <1> QED
    BY <1>1, <1>2, <1>3, <1>4, <1>5, <1>6 DEF Next_Wakeup

(* No wake-up is lost (NoLostWakeup): without faults, a worker that waits on *)
(* a live LISTEN connection leaves no new job unclaimed.                     *)
THEOREM NoWakeupIsLost == Spec_Wakeup => []NoLostWakeup
  <1>1. Init_Wakeup => TypeInv /\ ChannelInv
    BY TypeInit DEF Init_Wakeup, ChannelInv, Init, Conn, Gone, Attached
  <1>2. TypeInv /\ ChannelInv /\ [Next_Wakeup]_wvars => TypeInv' /\ ChannelInv'
    BY OutboxStep, TypeStep, ChannelStep
  <1>3. TypeInv /\ WakeInv => NoLostWakeup
    BY DEF TypeInv, TypeOK, WakeInv, SeenByAll, NoLostWakeup, Content, New, Due
  <1> QED
    BY WakeInit, WakeStep, <1>1, <1>2, <1>3, PTL DEF Spec_Wakeup
=============================================================================
