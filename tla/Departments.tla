---------------------------- MODULE Departments ----------------------------
(***************************************************************************)
(* The departments of one organization and the users in them               *)
(* (services/departments.rs, repositories/departments.rs, and the          *)
(* department of services/users.rs update).                                *)
(*                                                                         *)
(* Every operation validates on the pool and writes in a transaction of    *)
(* its own afterwards; that is where requests come between one another.    *)
(* The foreign keys of the schema are checked by the write.  The reads of  *)
(* one validation are one step, and so are the statements of one           *)
(* transaction.  Codes and names are left out, and the permission and      *)
(* step-up checks before the operations.                                   *)
(***************************************************************************)
EXTENDS Naturals, FiniteSets

CONSTANTS
    Dept,       \* department ids; one is never used again (BIGSERIAL)
    Root,       \* the department without parent
    User,       \* the users of the organization
    Request,    \* requests in flight
    None        \* NULL

ASSUME DepartmentsAssumption ==
    /\ IsFiniteSet(Dept)
    /\ Root \in Dept
    /\ None \notin Dept \cup User

VARIABLES
    status,     \* departments.status, or whether there is a row
    parent,     \* departments.parent_id
    home,       \* users.department_id
    gone,       \* users with deleted_at
    logged,     \* audit_logs.department_id, of all rows
    req,        \* the requests
    raced       \* history: a move was written that was checked before another

departments == <<status, parent>>
users == <<home, gone>>
vars == <<departments, users, logged, req, raced>>

Pc == {"idle", "create", "update", "delete", "assign"}
Scope == {"organization", "department_and_children", "department"}

(* late: history, a department was moved since this move was checked. *)
RequestState ==
    [pc : Pc, actor : User \cup {None}, dept : Dept \cup {None},
     parent : Dept \cup {None}, status : {"active", "inactive", "same"},
     member : User \cup {None}, late : BOOLEAN]

Idle == [pc |-> "idle", actor |-> None, dept |-> None, parent |-> None,
         status |-> "same", member |-> None, late |-> FALSE]

TypeOK ==
    /\ status \in [Dept -> {"absent", "active", "inactive", "deleted"}]
    /\ parent \in [Dept -> Dept \cup {None}]
    /\ home \in [User -> Dept \cup {None}]
    /\ gone \in SUBSET User
    /\ logged \in SUBSET Dept
    /\ req \in [Request -> RequestState]
    /\ raced \in BOOLEAN

(* The migration's root department, every user in it. *)
Init ==
    /\ status = [d \in Dept |-> IF d = Root THEN "active" ELSE "absent"]
    /\ parent = [d \in Dept |-> None]
    /\ home = [u \in User |-> Root]
    /\ gone = {}
    /\ logged = {}
    /\ req = [p \in Request |-> Idle]
    /\ raced = FALSE

-----------------------------------------------------------------------------
Exists(d) == status[d] \in {"active", "inactive"}

Children(d) == {e \in Dept : Exists(e) /\ parent[e] = d}

(* The users with department_id = d, and those of them not deleted. *)
Members(d) == {u \in User : home[u] = d}
LiveMembers(d) == Members(d) \ gone

(* A set that has the parent of each of its members. *)
UpClosed(S) == \A e \in S : parent[e] \in S \cup {None}

(* The departments on the way up from d: the least such set that has the   *)
(* parent of d.                                                            *)
Above(d) ==
    {e \in Dept : \A S \in SUBSET (Dept \ {e}) :
        parent[d] \in S \cup {None} => ~UpClosed(S)}

(* The recursive queries: d and the departments on the way down. *)
Below(d) == {e \in Dept : Exists(e) /\ (e = d \/ d \in Above(e))}

(* visible_departments of an actor u; all is organization here. *)
Visible(u, scope) ==
    CASE scope = "organization" -> Below(Root)
      [] scope = "department" -> {home[u]} \ {None}
      [] OTHER -> IF home[u] = None THEN {} ELSE Below(home[u])

(* find_by_id_for_actor *)
VisibleUser(scope, see, v) ==
    v \notin gone /\ (scope = "organization" \/ home[v] \in see)

(* An actor whose query returns: UNION ALL does not end on a cycle. *)
CanAct(p, u, scope, see) ==
    /\ req[p].pc = "idle"
    /\ u \notin gone
    /\ scope # "department" => \A d \in see : d \notin Above(d)

(* audit_logs::record: the row refers to the actor's department as the     *)
(* transaction leaves it.                                                  *)
Log(u) == logged' = logged \cup ({home'[u]} \ {None})

Submit(p, r) == req' = [req EXCEPT ![p] = r]
Done(p) == req' = [req EXCEPT ![p] = Idle]

(* validate_parent, validate_assignment: visible and active. *)
Usable(see, d) == d \in see /\ status[d] = "active"

-----------------------------------------------------------------------------
(* create *)
CreateCheck(p, u, scope, see, up, s) ==
    /\ scope # "department"
    /\ Usable(see, up)
    /\ Submit(p, [Idle EXCEPT !.pc = "create", !.actor = u, !.parent = up, !.status = s])
    /\ UNCHANGED <<departments, users, logged, raced>>

CreateWrite(p, d) ==
    /\ req[p].pc = "create"
    /\ status[d] = "absent"
    /\ UNCHANGED <<users, raced>>
    /\ IF Exists(req[p].parent)
       THEN /\ status' = [status EXCEPT ![d] = req[p].status]
            /\ parent' = [parent EXCEPT ![d] = req[p].parent]
            /\ Log(req[p].actor)
       ELSE UNCHANGED <<departments, logged>>
    /\ Done(p)

(* Mutant: only the department itself is refused as its parent. *)
NoCycleButSelf(d, up) == up # d

(* parent_would_create_cycle *)
NoCycle(d, up) == up \notin Below(d)

(* update: a parent that is the current one is not validated, but written. *)
UpdateCheck(p, u, see, d, up, s) ==
    /\ d \in see
    /\ parent[d] # None
    /\ up # None \/ s # "same"
    /\ up \in {None, parent[d]} \/ (up # d /\ Usable(see, up) /\ NoCycle(d, up))
    /\ Submit(p, [Idle EXCEPT !.pc = "update", !.actor = u, !.dept = d,
                              !.parent = up, !.status = s])
    /\ UNCHANGED <<departments, users, logged, raced>>

(* COALESCE($3, parent_id) *)
NewParent(r) == IF r.parent = None THEN parent[r.dept] ELSE r.parent

(* Mutant: a status the request leaves out is written all the same. *)
StatusRaw(r) == r.status

(* COALESCE($6, status) *)
NewStatus(r) == IF r.status = "same" THEN status[r.dept] ELSE r.status

(* The other moves were checked before this one was written: history, kept *)
(* until the first of them is written.                                     *)
Outdate(p) ==
    req' = [q \in Request |->
        IF q = p THEN Idle
        ELSE [req[q] EXCEPT !.late = ~raced' /\ req[q].pc = "update"
                                             /\ req[q].parent # None]]

UpdateWrite(p) ==
    LET r == req[p] IN
    /\ r.pc = "update"
    /\ UNCHANGED users
    /\ IF Exists(r.dept) /\ (r.parent = None \/ Exists(r.parent))
       THEN /\ parent' = [parent EXCEPT ![r.dept] = NewParent(r)]
            /\ status' = [status EXCEPT ![r.dept] = NewStatus(r)]
            /\ Log(r.actor)
            /\ IF parent' # parent
               THEN raced' = (raced \/ r.late) /\ Outdate(p)
               ELSE Done(p) /\ UNCHANGED raced
       ELSE UNCHANGED <<departments, logged, raced>> /\ Done(p)

(* delete *)
DeleteCheck(p, u, see, d) ==
    /\ d \in see
    /\ parent[d] # None
    /\ Children(d) = {} /\ LiveMembers(d) = {}
    /\ Submit(p, [Idle EXCEPT !.pc = "delete", !.actor = u, !.dept = d])
    /\ UNCHANGED <<departments, users, logged, raced>>

(* Mutant: the checks are not made again, and the schema has no keys. *)
IsThere(d) == Exists(d)

(* delete_if_empty: its conditions, and the key of audit_logs; the keys of *)
(* users and departments add nothing to the conditions.                    *)
IsFree(d) ==
    /\ Exists(d) /\ parent[d] # None
    /\ Children(d) = {} /\ LiveMembers(d) = {}
    /\ d \notin logged

(* The users that are deleted lose their department with it. *)
DeleteWrite(p) ==
    LET d == req[p].dept IN
    /\ req[p].pc = "delete"
    /\ IF IsFree(d)
       THEN /\ status' = [status EXCEPT ![d] = "deleted"]
            /\ home' = [u \in User |-> IF u \in Members(d) \cap gone THEN None ELSE home[u]]
            /\ Log(req[p].actor)
       ELSE UNCHANGED <<status, home, logged>>
    /\ Done(p)
    /\ UNCHANGED <<parent, gone, raced>>

-----------------------------------------------------------------------------
(* users::update with a department; nobody moves himself. *)
AssignCheck(p, u, scope, see, v, d) ==
    /\ v # u /\ VisibleUser(scope, see, v)
    /\ Usable(see, d)
    /\ Submit(p, [Idle EXCEPT !.pc = "assign", !.actor = u, !.member = v, !.dept = d])
    /\ UNCHANGED <<departments, users, logged, raced>>

AssignWrite(p) ==
    LET r == req[p] IN
    /\ r.pc = "assign"
    /\ IF r.member \notin gone /\ Exists(r.dept)
       THEN home' = [home EXCEPT ![r.member] = r.dept] /\ Log(r.actor)
       ELSE UNCHANGED <<home, logged>>
    /\ Done(p)
    /\ UNCHANGED <<departments, gone, raced>>

(* users::delete by another user *)
SoftDelete(u, scope, v) ==
    /\ u # v /\ u \notin gone /\ VisibleUser(scope, Visible(u, scope), v)
    /\ gone' = gone \cup {v}
    /\ UNCHANGED <<departments, home, req, raced>>
    /\ Log(u)

(* A login, or any other audited operation of the user u. *)
Act(u) ==
    /\ u \notin gone
    /\ UNCHANGED <<departments, users, req, raced>>
    /\ Log(u)

(* The first part of a request, for an actor that is authenticated. *)
Check(p, u, scope) ==
    LET see == Visible(u, scope) IN
    /\ CanAct(p, u, scope, see)
    /\ \/ \E up \in Dept, s \in {"active", "inactive"} :
             CreateCheck(p, u, scope, see, up, s)
       \/ \E d \in Dept, up \in Dept \cup {None}, s \in {"active", "inactive", "same"} :
             UpdateCheck(p, u, see, d, up, s)
       \/ \E d \in Dept : DeleteCheck(p, u, see, d)
       \/ \E v \in User, d \in Dept : AssignCheck(p, u, scope, see, v, d)

Write(p) ==
    \/ \E d \in Dept : CreateWrite(p, d)
    \/ UpdateWrite(p) \/ DeleteWrite(p) \/ AssignWrite(p)

Next ==
    \/ \E p \in Request, u \in User, scope \in Scope : Check(p, u, scope)
    \/ \E p \in Request : Write(p)
    \/ \E u, v \in User, scope \in Scope : SoftDelete(u, scope, v)
    \/ \E u \in User : Act(u)

Spec == Init /\ [][Next]_vars

-----------------------------------------------------------------------------
(* Properties *)

(* The foreign keys of the migration, kept by the queries' own conditions  *)
(* and not by luck: whatever requests race, no department, user or audit   *)
(* row refers to a department that is gone, and only the root has no       *)
(* parent.                                                                 *)
NoDangling ==
    /\ \A d \in Dept : Exists(d) => IF d = Root THEN parent[d] = None
                                    ELSE parent[d] # None /\ Exists(parent[d])
    /\ \A u \in User : home[u] # None => Exists(home[u])
    /\ \A d \in logged : Exists(d)

(* "上级部门不能是当前部门或其下级部门" (services/departments.rs:117): the  *)
(* departments are a tree, every one of them is below the root.            *)
IsTree == \A d \in Dept : Exists(d) => d \in Below(Root)

(* What parent_would_create_cycle achieves although it is not part of the  *)
(* transaction that writes: a cycle needs a move that was checked before   *)
(* another move was written.  Creations, deletions, deactivations and      *)
(* moves of users in between do no harm, nor does a move to the parent     *)
(* that the department had when it was read, which is not validated.       *)
TreeUnlessRaced == raced \/ IsTree

(* repositories/departments.rs:192, and the conflicts that                 *)
(* services/departments.rs:169-176 reports: once a department has no child *)
(* and no active member, nothing keeps it alive.                           *)
EmptyIsFree ==
    \A d \in Dept : Exists(d) /\ parent[d] # None
                    /\ Children(d) = {} /\ LiveMembers(d) = {} => d \notin logged

=============================================================================
