------------------------------ MODULE MCBooking ------------------------------
(* Model-checking instances of Booking. *)
EXTENDS Booking, TLC

(* Sound for the safety runs: students and request slots are interchangeable. *)
Symmetry == Permutations(Student) \cup Permutations(Request)
=============================================================================
