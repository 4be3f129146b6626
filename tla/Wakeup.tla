------------------------------- MODULE Wakeup -------------------------------
(***************************************************************************)
(* How a worker learns that there is work: the AFTER INSERT trigger that   *)
(* notifies at COMMIT, the LISTEN connection of consumer._listen with its  *)
(* reconnects, the asyncio.Event wake and the wait of consumer.run with    *)
(* its fallback poll, composed with the outbox the worker drains.          *)
(*                                                                         *)
(* The LISTEN connection is its own TCP connection, apart from the pool    *)
(* the rest of the worker uses, and may be lost at any time, any number of *)
(* times.  A notification on its way is one flag: the payload is empty and *)
(* a second one adds nothing.                                              *)
(***************************************************************************)
EXTENDS Outbox

VARIABLES
    conn,       \* the LISTEN connection of the worker's _listen task
    signal,     \* a notification the server has sent on that connection
    wake        \* the asyncio.Event shared by _listen and run

channel == <<conn, signal, wake>>
wvars   == <<vars, channel>>

(* none: no process; connecting: not connected, or lost and not noticed    *)
(* yet; subscribed: LISTEN is committed; listening: wake was set once;     *)
(* ended: the _listen task is over.                                         *)
Conn == {"none", "connecting", "subscribed", "listening", "ended"}

Init_Wakeup ==
    /\ Init
    /\ conn = [w \in Worker |-> "none"]
    /\ signal = [w \in Worker |-> FALSE]
    /\ wake = [w \in Worker |-> FALSE]

Attached(w) == conn[w] \in {"subscribed", "listening"}

-----------------------------------------------------------------------------
(* mutant: wake.clear() after the drain instead of before it *)
KeepWake_ClearAfterDrain(w) ==
    wake[w] /\ ~(pc[w] \in {"claim", "work"} /\ pc'[w] = "wait")

(* A drain leaves wake alone: what the callback sets meanwhile is kept. *)
KeepWake(w) == wake[w]

(* What a step of the outbox does to the channel: _listen starts and ends   *)
(* with its process.                                                        *)
Channel ==
    /\ conn' = [w \in Worker |-> IF pc'[w] \in Gone THEN "none"
                                 ELSE IF pc[w] = "off" THEN "connecting"
                                 ELSE conn[w]]
    /\ signal' = [w \in Worker |-> signal[w] /\ pc'[w] \notin Gone]
    /\ wake' = [w \in Worker |-> KeepWake(w) /\ pc'[w] \notin Gone]

(* trg_notify_pending_job: the row and the notification become visible at   *)
(* the same COMMIT, to every connection that listens then.                  *)
Notify(j) ==
    /\ Enqueue(j)
    /\ signal' = [w \in Worker |-> signal[w] \/ Attached(w)]
    /\ UNCHANGED <<conn, wake>>

(* asyncpg.connect and add_listener: LISTEN is committed at the server. *)
Subscribe(w) ==
    /\ conn[w] = "connecting"
    /\ conn' = [conn EXCEPT ![w] = "subscribed"]
    /\ UNCHANGED <<vars, signal, wake>>

(* mutant: no catch-up drain after a reconnect *)
CatchUp_Nothing(w) ==
    /\ conn[w] = "subscribed"
    /\ conn' = [conn EXCEPT ![w] = "listening"]
    /\ UNCHANGED <<vars, signal, wake>>

(* add_listener has returned: force a drain for what was missed. *)
CatchUp(w) ==
    /\ conn[w] = "subscribed"
    /\ conn' = [conn EXCEPT ![w] = "listening"]
    /\ wake' = [wake EXCEPT ![w] = TRUE]
    /\ UNCHANGED <<vars, signal>>

(* mutant: the callback does not set the event *)
Deliver_Ignored(w) ==
    /\ signal[w]
    /\ signal' = [signal EXCEPT ![w] = FALSE]
    /\ UNCHANGED <<vars, conn, wake>>

(* The callback of add_listener, run by asyncpg's reader. *)
Deliver(w) ==
    /\ signal[w]
    /\ signal' = [signal EXCEPT ![w] = FALSE]
    /\ wake' = [wake EXCEPT ![w] = TRUE]
    /\ UNCHANGED <<vars, conn>>

(* The connection is lost with what is on its way; the statement under way  *)
(* or the next one (LISTEN, SELECT 1) fails with a PostgresError or an      *)
(* OSError, and the loop connects again.                                    *)
Drop(w) ==
    /\ Attached(w)
    /\ conn' = [conn EXCEPT ![w] = "connecting"]
    /\ signal' = [signal EXCEPT ![w] = FALSE]
    /\ UNCHANGED <<vars, wake>>

(* The loss is seen by asyncpg while the task sleeps: conn.execute raises   *)
(* InterfaceError, which is neither an OSError nor a PostgresError, so it   *)
(* leaves the while loop and ends the task, which nobody awaits.            *)
DropEscapes(w) ==
    /\ conn[w] = "listening"
    /\ conn' = [conn EXCEPT ![w] = "ended"]
    /\ signal' = [signal EXCEPT ![w] = FALSE]
    /\ UNCHANGED <<vars, wake>>

(* wake.wait() returns; the next thing run does is wake.clear(). *)
Wakened(w) ==
    /\ wake[w] /\ Wake(w)
    /\ wake' = [wake EXCEPT ![w] = FALSE]
    /\ UNCHANGED <<conn, signal>>

(* mutant: the wait has a timeout only while the connection is down *)
Polled_WhileConnecting(w) ==
    /\ conn[w] = "connecting" /\ Wake(w)
    /\ wake' = [wake EXCEPT ![w] = FALSE]
    /\ UNCHANGED <<conn, signal>>

(* wait_for times out after worker_fallback_poll_interval. *)
Polled(w) ==
    /\ Wake(w)
    /\ wake' = [wake EXCEPT ![w] = FALSE]
    /\ UNCHANGED <<conn, signal>>

ListenStep(w) == Subscribe(w) \/ CatchUp(w) \/ Deliver(w)

Next_Wakeup ==
    \/ Tick /\ Channel
    \/ \E j \in Job : Notify(j)
    \/ \E w \in Worker :
          \/ (ProcessStep(w) \/ DrainStep(w)) /\ Channel
          \/ ListenStep(w) \/ Drop(w) \/ DropEscapes(w)
          \/ Wakened(w) \/ Polled(w)

Spec_Wakeup == Init_Wakeup /\ [][Next_Wakeup]_wvars

(* As in Outbox, but for the wait: here it ends when wake is set, and       *)
(* nothing is asked of the poll.  _listen runs when it can.                 *)
Fairness_Wakeup ==
    /\ WF_wvars(Tick /\ Channel)
    /\ \A w \in Worker :
          /\ WF_wvars(StartWorker(w) /\ Channel)
          /\ WF_wvars((Renew(w) \/ RenewFail(w)) /\ Channel)
          /\ WF_wvars(DrainStep(w) /\ Channel)
          /\ WF_wvars(Wakened(w)) /\ WF_wvars(ListenStep(w))
          /\ \A j \in Job : WF_wvars(JobStep(w, j) /\ Channel)

FairSpec_Wakeup == Spec_Wakeup /\ Fairness_Wakeup

-----------------------------------------------------------------------------
(* No lost wake-up: while no process is stopped or cut off, a worker that   *)
(* waits on a live LISTEN connection, with no signal under way, leaves no   *)
(* new job unclaimed.  The poll is there for retries, whose due time comes  *)
(* without a NOTIFY, and for faults.                                        *)
NoLostWakeup ==
    \A w \in Worker :
        /\ faults = 0 /\ pc[w] = "wait" /\ conn[w] = "listening"
        /\ ~wake[w] /\ ~signal[w]
        => \A j \in Due : attempts[j] > 0

(* A worker whose LISTEN connection stays up in the end, however often it   *)
(* was lost before, gets every new job claimed without the fallback poll,   *)
(* if no other worker is ever cut off from the database: FOR UPDATE SKIP    *)
(* LOCKED passes over a row that a doomed transaction has locked, and       *)
(* nothing notifies when the rollback frees it.                             *)
NewJobsNeedNoPoll ==
    \A w \in Worker :
        /\ <>[](conn[w] = "listening")
        /\ [](\A v \in Worker \ {w} : reachable[v])
        => \A j \in Job : status[j] = "pending" ~> attempts[j] > 0

(* While one worker stays up and its waits time out, every job settles,     *)
(* whatever becomes of its LISTEN connection: notifications lost with it,   *)
(* a retry that nobody notifies, even the end of the _listen task.          *)
PollSettlesEveryJob ==
    \A w \in Worker :
        /\ [](pc[w] \notin {"dead", "aborted"}) /\ WF_wvars(Polled(w))
        => \A j \in Job : status[j] = "pending" ~> status[j] \in {"completed", "failed"}
=============================================================================
