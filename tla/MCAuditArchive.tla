--------------------------- MODULE MCAuditArchive ---------------------------
(* AuditArchive for TLC: three rows, of which two may meet a failure.      *)
EXTENDS AuditArchive

AllExpired == expired = Id

(* Bound: the last row expires in the first second, or not at all, and a   *)
(* behaviour in which it does has no failure.  Neither is an action that   *)
(* the fairness speaks of.                                                 *)
Bounded == AllExpired' => failures' = 0 /\ (AllExpired \/ second = 1)

MCSpec == Init /\ [][Next /\ Bounded]_vars /\ Fairness

=============================================================================
