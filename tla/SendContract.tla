---------------------------- MODULE SendContract ----------------------------
(***************************************************************************)
(* What consumer._process_one promises to the rest of the worker, and what *)
(* module Outbox takes for granted in its actions StartSend to             *)
(* SendTransient: at most Concurrency sends at a time; a send that the     *)
(* mail server did not accept ends as a transient or permanent failure; an *)
(* accepted one can only be completed.  A process that stops drops what it *)
(* was doing.                                                              *)
(***************************************************************************)
EXTENDS Naturals, FiniteSets

CONSTANTS Task, Concurrency

VARIABLE phase

Phase == {"queued", "sending", "accepted", "completed", "transient", "permanent"}

Init == phase = [j \in Task |-> "queued"]

Move(j, from, to) == phase[j] = from /\ phase' = [phase EXCEPT ![j] = to]

Busy == {i \in Task : phase[i] # "queued"}

Start(j) ==
    /\ Cardinality(Busy) < Concurrency
    /\ Move(j, "queued", "sending")

Result(j) ==
    \/ Move(j, "sending", "accepted") \/ Move(j, "accepted", "completed")
    \/ Move(j, "sending", "transient") \/ Move(j, "sending", "permanent")

(* The finalizer has run. *)
Finish(j) ==
    \E end \in {"completed", "transient", "permanent"} : Move(j, end, "queued")

Stop == phase' = [j \in Task |-> "queued"]

Next == Stop \/ \E j \in Task : Start(j) \/ Result(j) \/ Finish(j)

Spec == Init /\ [][Next]_phase
=============================================================================
