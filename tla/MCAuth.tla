------------------------------- MODULE MCAuth -------------------------------
(* AuthSession on small sets of users and calls, for TLC. *)
EXTENDS AuthSession, TLC

Symmetry == Permutations(Users) \cup Permutations(Logins) \cup Permutations(Calls)
=============================================================================
