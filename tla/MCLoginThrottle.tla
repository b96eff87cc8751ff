-------------------------- MODULE MCLoginThrottle --------------------------
(* LoginThrottle for TLC: logins, accounts and addresses are each          *)
(* interchangeable.                                                        *)
EXTENDS LoginThrottle, TLC

Symmetry == Permutations(Account) \cup Permutations(Address) \cup Permutations(Request)

=============================================================================
