-------------------------- MODULE MCLoginSessions --------------------------
(* LoginSessions for TLC: requests and passwords are interchangeable. *)
EXTENDS LoginSessions, TLC

Symmetry == Permutations(Request) \cup Permutations(Password)

=============================================================================
