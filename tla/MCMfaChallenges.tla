-------------------------- MODULE MCMfaChallenges --------------------------
(* MfaChallenges for TLC: requests are interchangeable. *)
EXTENDS MfaTickets, TLC

Symmetry == Permutations(Request)

=============================================================================
