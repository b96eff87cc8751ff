--------------------------- MODULE SuperAdminGuard ---------------------------
(***************************************************************************)
(* Who holds the built-in super_admin role, and the guard that keeps the   *)
(* last active holder from being suspended, deleted or stripped of it      *)
(* (services/users.rs, protect_last_super_admin).                          *)
(*                                                                         *)
(* The operations are PostgreSQL transactions at READ COMMITTED.  Their    *)
(* statements are separate steps: a statement sees what is committed plus  *)
(* what its own transaction wrote, waits for row locks, and the writes     *)
(* become visible together at COMMIT.  The guard is two statements, SELECT *)
(* ... FOR UPDATE on the role's row and a count of its active holders; an  *)
(* INSERT into user_roles takes the conflicting KEY SHARE lock on the role *)
(* row through its foreign key.                                            *)
(*                                                                         *)
(* Which actor may run what, with which data scope, is not modelled here.  *)
(***************************************************************************)
EXTENDS Naturals, FiniteSets

CONSTANTS
    User,       \* user ids, the not yet created ones included
    Role,       \* roles
    Super,      \* the role whose code is super_admin
    Tx,         \* transactions (requests)
    None        \* no value

ASSUME RoleAssumption == Super \in Role

ASSUME NoneAssumption ==
    None \notin User \cup {"absent", "active", "inactive", "deleted"}

VARIABLES
    status,     \* users: the committed status; "absent" is no row yet
    roles,      \* user_roles: the committed role ids of each user
    tx          \* the transactions

adminVars == <<status, roles, tx>>

Status == {"absent", "active", "inactive", "deleted"}

Op == {"create", "bootstrap", "activate", "disable", "delete", "assign"}

(* The statement a transaction is about to run. *)
Pc == {"idle", "next", "guard", "users", "snapshot", "roles", "insert"}

(* todo and user: the accounts still to do and the current one.  locked:   *)
(* the role row is locked FOR UPDATE.  wrote, deleted, inserted: the       *)
(* uncommitted writes to users and user_roles.  seen: the role rows in the *)
(* snapshot of a DELETE that is waiting.                                   *)
Transaction ==
    [pc : Pc, op : Op, todo : SUBSET User, user : User \cup {None},
     grant : SUBSET Role, locked : BOOLEAN, seen : SUBSET Role,
     wrote : [User -> Status \cup {None}],
     deleted : [User -> SUBSET Role], inserted : [User -> SUBSET Role]]

NoTransaction ==
    [pc |-> "idle", op |-> "create", todo |-> {}, user |-> None, grant |-> {},
     locked |-> FALSE, seen |-> {},
     wrote |-> [u \in User |-> None],
     deleted |-> [u \in User |-> {}], inserted |-> [u \in User |-> {}]]

AdminTypeOK ==
    /\ status \in [User -> Status]
    /\ roles \in [User -> SUBSET Role]
    /\ tx \in [Tx -> Transaction]

(* Some active super_admin exists: bootstrap_super_admin has been run. *)
AdminInit ==
    /\ status \in [User -> {"absent", "active", "inactive"}]
    /\ roles \in [User -> SUBSET Role]
    /\ \A u \in User : status[u] = "absent" => roles[u] = {}
    /\ \E u \in User : status[u] = "active" /\ Super \in roles[u]
    /\ tx = [t \in Tx |-> NoTransaction]

-----------------------------------------------------------------------------
Exists(u) == status[u] \in {"active", "inactive"}

(* What the statements of transaction r see of user u. *)
StatusSeen(r, u) == IF r.wrote[u] = None THEN status[u] ELSE r.wrote[u]

RolesSeen(r, u) == (roles[u] \ r.deleted[u]) \cup r.inserted[u]

ActiveSuperAdmins == {u \in User : status[u] = "active" /\ Super \in roles[u]}

ActiveSuperAdminsSeen(r) ==
    {u \in User : StatusSeen(r, u) = "active" /\ Super \in RolesSeen(r, u)}

(* Row locks follow from the uncommitted writes. *)
KeyShare(t) == \E u \in User : Super \in tx[t].inserted[u]

RoleRowFree(t) == \A s \in Tx \ {t} : ~tx[s].locked /\ ~KeyShare(s)

NoOneGuards(t) == \A s \in Tx \ {t} : ~tx[s].locked

UserRowFree(t, u) == \A s \in Tx \ {t} : tx[s].wrote[u] = None

(* protect_last_super_admin is called before the write. *)
Guarded(r) ==
    \/ r.op \in {"disable", "delete"}
    \/ r.op = "assign" /\ Super \notin r.grant

(* Mutant: the status of the request is stored as it came. *)
NewStatusUnchecked(op) ==
    CASE op \in {"create", "bootstrap", "activate"} -> "active"
      [] op = "disable" -> "disabled"
      [] op = "delete" -> "deleted"

(* The two statuses that are not active, inactive and suspended, are one   *)
(* here: nothing tells them apart.                                         *)
NewStatus(op) ==
    CASE op \in {"create", "bootstrap", "activate"} -> "active"
      [] op = "disable" -> "inactive"
      [] op = "delete" -> "deleted"

-----------------------------------------------------------------------------
(* The checks made before the transaction begins, on other connections. *)
Begin(t, op, us, grant) ==
    /\ tx[t].pc = "idle"
    /\ tx' = [tx EXCEPT ![t] = [NoTransaction EXCEPT
                !.pc = "next", !.op = op, !.todo = us, !.grant = grant]]
    /\ UNCHANGED <<status, roles>>

(* users::create, with the roles of the request. *)
Create(t, u, grant) ==
    /\ status[u] = "absent"
    /\ Begin(t, "create", {u}, grant)

(* bootstrap_super_admin: an existing account is activated, otherwise one  *)
(* is created; super_admin becomes its only role.                          *)
Bootstrap(t, u) ==
    /\ status[u] # "deleted"
    /\ Begin(t, IF Exists(u) THEN "bootstrap" ELSE "create", {u}, {Super})

(* users::update with a status. *)
UpdateStatus(t, u, op) ==
    /\ op \in {"activate", "disable"}
    /\ Exists(u)
    /\ Begin(t, op, {u}, {})

(* users::delete, and delete_many for more than one user. *)
Delete(t, us) ==
    /\ us # {}
    /\ \A u \in us : Exists(u)
    /\ Begin(t, "delete", us, {})

(* users::assign_roles, and assign_roles_many for more than one user. *)
AssignRoles(t, us, grant) ==
    /\ us # {}
    /\ \A u \in us : Exists(u)
    /\ Begin(t, "assign", us, grant)

-----------------------------------------------------------------------------
(* The statements *)

(* The loop over the accounts of the request. *)
NextUser(t) ==
    /\ tx[t].pc = "next"
    /\ \E u \in tx[t].todo :
         tx' = [tx EXCEPT ![t].user = u, ![t].todo = @ \ {u},
                  ![t].pc = IF Guarded(tx[t]) THEN "guard"
                            ELSE IF tx[t].op = "assign" THEN "snapshot"
                                 ELSE "users"]
    /\ UNCHANGED <<status, roles>>

(* An error ends the transaction: everything it wrote is gone. *)
Rollback(t) ==
    /\ tx' = [tx EXCEPT ![t] = NoTransaction]
    /\ UNCHANGED <<status, roles>>

(* Mutant: the count is made without locking the role row. *)
GuardWithoutLock(t) ==
    LET u == tx[t].user
        admins == ActiveSuperAdminsSeen(tx[t])
    IN  /\ tx[t].pc = "guard"
        /\ IF u \in admins /\ Cardinality(admins) <= 1
           THEN Rollback(t)
           ELSE /\ tx' = [tx EXCEPT ![t].pc = IF tx[t].op = "assign" THEN "snapshot"
                                                                     ELSE "users"]
                /\ UNCHANGED <<status, roles>>

(* Mutant: the transaction is kept open until another super_admin exists. *)
GuardRetries(t) ==
    LET u == tx[t].user
        admins == ActiveSuperAdminsSeen(tx[t])
    IN  /\ tx[t].pc = "guard"
        /\ RoleRowFree(t)
        /\ ~(u \in admins /\ Cardinality(admins) <= 1)
        /\ tx' = [tx EXCEPT ![t].locked = TRUE,
                     ![t].pc = IF tx[t].op = "assign" THEN "snapshot" ELSE "users"]
        /\ UNCHANGED <<status, roles>>

(* super_admin_guard_state and protect_last_super_admin. *)
Guard(t) ==
    LET u == tx[t].user
        admins == ActiveSuperAdminsSeen(tx[t])
    IN  /\ tx[t].pc = "guard"
        /\ RoleRowFree(t)
        /\ IF u \in admins /\ Cardinality(admins) <= 1
           THEN Rollback(t)
           ELSE /\ tx' = [tx EXCEPT ![t].locked = TRUE,
                            ![t].pc = IF tx[t].op = "assign" THEN "snapshot"
                                                             ELSE "users"]
                /\ UNCHANGED <<status, roles>>

(* A new account has no roles for assign_roles to delete. *)
AfterWrite(op) == IF op \in {"activate", "disable"} THEN "next"
                  ELSE IF op = "create" THEN "insert" ELSE "snapshot"

(* create, activate_bootstrap_account, update_profile, soft_delete: one    *)
(* statement on the users row.  Its WHERE clause is evaluated on the row   *)
(* as it is when the lock is granted.                                      *)
WriteUser(t) ==
    LET u == tx[t].user
        op == tx[t].op
    IN  /\ tx[t].pc = "users"
        /\ UserRowFree(t, u)
        /\ IF IF op = "create" THEN status[u] # "absent" ELSE ~Exists(u)
           THEN Rollback(t)
           ELSE /\ \E s \in {NewStatus(op)} \cup
                            (IF op = "create" THEN {"inactive"} ELSE {}) :
                     tx' = [tx EXCEPT ![t].wrote[u] = s,
                              ![t].pc = AfterWrite(op)]
                /\ UNCHANGED <<status, roles>>

(* DELETE FROM user_roles WHERE user_id = u: the snapshot of the statement *)
Snapshot(t) ==
    /\ tx[t].pc = "snapshot"
    /\ tx' = [tx EXCEPT ![t].seen = RolesSeen(tx[t], tx[t].user), ![t].pc = "roles"]
    /\ UNCHANGED <<status, roles>>

(* ... and the deletion: rows another transaction is deleting are waited   *)
(* for and, once gone, skipped; rows it inserted meanwhile are not seen.   *)
DeleteRoles(t) ==
    LET u == tx[t].user IN
    /\ tx[t].pc = "roles"
    /\ \A s \in Tx \ {t} : tx[s].deleted[u] \cap tx[t].seen = {}
    /\ tx' = [tx EXCEPT ![t].deleted[u] = tx[t].seen \cap roles[u],
                        ![t].seen = {},
                        ![t].pc = IF tx[t].op = "delete" THEN "next" ELSE "insert"]
    /\ UNCHANGED <<status, roles>>

(* INSERT INTO user_roles: waits for the role row and for the same row of  *)
(* another transaction; a row that is there already violates the key.      *)
InsertRoles(t) ==
    LET u == tx[t].user
        grant == tx[t].grant
    IN  /\ tx[t].pc = "insert"
        /\ Super \in grant => NoOneGuards(t)
        /\ \A s \in Tx \ {t} : tx[s].inserted[u] \cap grant = {}
        /\ IF grant \cap (roles[u] \ tx[t].deleted[u]) # {}
           THEN Rollback(t)
           ELSE /\ tx' = [tx EXCEPT ![t].inserted[u] = grant, ![t].pc = "next"]
                /\ UNCHANGED <<status, roles>>


Commit(t) ==
    /\ tx[t].pc = "next"
    /\ tx[t].todo = {}
    /\ status' = [u \in User |-> StatusSeen(tx[t], u)]
    /\ roles' = [u \in User |-> RolesSeen(tx[t], u)]
    /\ tx' = [tx EXCEPT ![t] = NoTransaction]

(* The client goes away, the connection breaks, or PostgreSQL picks the    *)
(* transaction to break a deadlock.                                        *)
Abort(t) ==
    /\ tx[t].pc # "idle"
    /\ Rollback(t)

-----------------------------------------------------------------------------
Request(t) ==
    \/ \E u \in User, grant \in SUBSET Role : Create(t, u, grant)
    \/ \E u \in User : Bootstrap(t, u)
    \/ \E u \in User, op \in {"activate", "disable"} : UpdateStatus(t, u, op)
    \/ \E us \in SUBSET User : Delete(t, us)
    \/ \E us \in SUBSET User, grant \in SUBSET Role : AssignRoles(t, us, grant)

Statement(t) ==
    \/ NextUser(t) \/ Guard(t) \/ WriteUser(t) \/ Snapshot(t)
    \/ DeleteRoles(t) \/ InsertRoles(t) \/ Commit(t)

AdminNext == \E t \in Tx : Request(t) \/ Statement(t) \/ Abort(t)

AdminSpec == AdminInit /\ [][AdminNext]_adminVars

(* Whom a waiting statement waits for. *)
WaitsFor(t) ==
    LET u == tx[t].user IN
    {s \in Tx \ {t} :
        \/ tx[t].pc = "guard" /\ (tx[s].locked \/ KeyShare(s))
        \/ tx[t].pc = "users" /\ tx[s].wrote[u] # None
        \/ tx[t].pc = "roles" /\ tx[s].deleted[u] \cap tx[t].seen # {}
        \/ tx[t].pc = "insert" /\ \/ Super \in tx[t].grant /\ tx[s].locked
                                  \/ tx[s].inserted[u] \cap tx[t].grant # {}}

(* The deadlock check of PostgreSQL (external) finds t among transactions  *)
(* that all wait for one another.                                          *)
Deadlocked(t) ==
    \E S \in SUBSET Tx : t \in S /\ \A s \in S : WaitsFor(s) \cap S # {}

(* A request that has begun goes on, and a deadlock is found.  The         *)
(* fairness of a statement is strong because PostgreSQL queues the waiters *)
(* of a row: a transaction that begins later does not overtake them for    *)
(* ever.                                                                   *)
AdminFairSpec ==
    /\ AdminSpec
    /\ \A t \in Tx : /\ SF_adminVars(Statement(t))
                     /\ WF_adminVars(Deadlocked(t) /\ Abort(t))

-----------------------------------------------------------------------------
(* Properties *)

(* docs/architecture.md:27: the last active super_admin is not suspended,  *)
(* deleted or deprived of the role, by any interleaving of requests that   *)
(* each leave another one standing.                                        *)
AdminRemains == ActiveSuperAdmins # {}

(* Nobody waits for ever: whatever rows the requests lock, in whatever     *)
(* order their lists name the accounts, each of them ends.                 *)
RequestsEnd == \A t \in Tx : tx[t].pc # "idle" ~> tx[t].pc = "idle"

=============================================================================
