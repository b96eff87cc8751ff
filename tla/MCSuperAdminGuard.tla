------------------------- MODULE MCSuperAdminGuard -------------------------
(* SuperAdminGuard for TLC: accounts and transactions are interchangeable. *)
EXTENDS SuperAdminGuard, TLC

Symmetry == Permutations(User) \cup Permutations(Tx)

=============================================================================
