---------------------------- MODULE MCRoleGrants ----------------------------
(* RoleGrants for TLC: two administrators, super_admin and two more roles. *)
EXTENDS RoleGrants, TLC

CONSTANTS u1, u2, s1, s2, super, r1, r2

MCOwner == (s1 :> u1) @@ (s2 :> u2)

MCPerm == {"role:write", "role:permissions:write", "user:roles:write",
           "user:super_admin:grant", "role:directory:read",
           "permission:directory:read"}

MCRequires == [p \in MCPerm |->
    IF p = "role:permissions:write"
    THEN {"role:directory:read", "permission:directory:read"} ELSE {}]

Manager == MCPerm \ {"user:super_admin:grant"}
Assigner == {"user:roles:write", "user:super_admin:grant"}

MCOffers == {{}, {"role:permissions:write", "role:directory:read"},
             Manager \ {"user:roles:write"}, Assigner}

MCRoleLists == {{}, {super}, {r1, r2}}

(* Both manage through r1 while r2, which u2 has too, lies inactive with   *)
(* more than they have, or the work is divided between two roles, or r2 is yet to be created.   *)
MCStart ==
    LET Cat(st, ps, mu2) ==
            [status |-> (super :> "active") @@ (r1 :> "active") @@ (r2 :> st),
             perms |-> (super :> MCPerm) @@ (r1 :> Manager) @@ (r2 :> ps),
             member |-> (u1 :> {r1}) @@ (u2 :> mu2)]
    IN {Cat("inactive", Assigner, {r1, r2}), Cat("active", Assigner, {r2}),
        Cat("absent", {}, {})}

Symmetry == Permutations(Request) \cup Permutations(Token)

=============================================================================
