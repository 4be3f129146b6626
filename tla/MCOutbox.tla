------------------------------ MODULE MCOutbox ------------------------------
(* Model-checking instances of Outbox. *)
EXTENDS Outbox, TLC

(* Sound for the safety runs: jobs and worker incarnations are interchangeable. *)
Symmetry == Permutations(Job) \cup Permutations(Worker)
=============================================================================
