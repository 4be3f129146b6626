---------------------------- MODULE MCAccounts ----------------------------
(* Small instances of Accounts for TLC. *)
EXTENDS Accounts, TLC

(* No definition tells emails, passwords, subjects, clients or request      *)
(* slots apart.                                                             *)
Symmetry == Permutations(Email) \cup Permutations(Password) \cup Permutations(Subject)
              \cup Permutations(Client) \cup Permutations(Request)
=============================================================================
