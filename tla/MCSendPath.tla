----------------------------- MODULE MCSendPath -----------------------------
(* Model-checking instances of SendPath. *)
EXTENDS SendPath, TLC

(* Tasks, clients, users and tokens are interchangeable. *)
Symmetry == Permutations(Task) \cup Permutations(Client)
              \cup Permutations(User) \cup Permutations(Token)
=============================================================================
