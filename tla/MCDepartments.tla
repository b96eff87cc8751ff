--------------------------- MODULE MCDepartments ---------------------------
(* Departments for TLC: requests, users and the departments below the root *)
(* are each interchangeable.                                               *)
EXTENDS Departments, TLC

Symmetry ==
    Permutations(Request) \cup Permutations(User) \cup Permutations(Dept \ {Root})

=============================================================================
