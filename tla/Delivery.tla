------------------------------ MODULE Delivery ------------------------------
(***************************************************************************)
(* What the notification pipeline promises for a job row, workers, leases  *)
(* and attempts left out: at-least-once delivery.  A job stays open until  *)
(* it is closed for good; it is closed as completed only if some email for *)
(* it was sent.  Emails may be repeated, and one that is under way may     *)
(* still arrive after the job was closed.                                  *)
(***************************************************************************)
EXTENDS Naturals

CONSTANT Job

VARIABLES state, sent

vars == <<state, sent>>

Init == state = [j \in Job |-> "absent"] /\ sent = [j \in Job |-> 0]

Enqueue(j) ==
    /\ state[j] = "absent"
    /\ state' = [state EXCEPT ![j] = "open"]
    /\ UNCHANGED sent

Send(j) ==
    /\ state[j] # "absent"
    /\ sent' = [sent EXCEPT ![j] = @ + 1]
    /\ UNCHANGED state

Complete(j) ==
    /\ state[j] = "open" /\ sent[j] > 0
    /\ state' = [state EXCEPT ![j] = "completed"]
    /\ UNCHANGED sent

Fail(j) ==
    /\ state[j] = "open"
    /\ state' = [state EXCEPT ![j] = "failed"]
    /\ UNCHANGED sent

Next == \E j \in Job : Enqueue(j) \/ Send(j) \/ Complete(j) \/ Fail(j)

Spec == Init /\ [][Next]_vars
=============================================================================
