----------------------------- MODULE RoleGrants -----------------------------
(***************************************************************************)
(* Roles, their permissions and their members, and the re-authentication   *)
(* that stands before every change of them (services/roles.rs,             *)
(* services/step_up.rs, services/module_unlock.rs, handlers/roles.rs, and  *)
(* the role assignment of services/users.rs).                              *)
(*                                                                         *)
(* A request is admitted by its handler (session, permission, then the     *)
(* step-up token, spent in a transaction of its own, or the unlock of the  *)
(* module), is validated on the pool (its reads taken as one step), and    *)
(* writes later in a transaction of its own.  The statements of            *)
(* put_permissions are two steps: its DELETE sees the rows committed       *)
(* before it, not those another request inserts meanwhile.  So are those   *)
(* of delete_if_unassigned, whose NOT EXISTS is not evaluated again after  *)
(* it has waited for the row.                                              *)
(*                                                                         *)
(* The users here are the ordinary ones; the last super administrator and  *)
(* the row locks of user_roles are the matter of SuperAdminGuard, the data *)
(* scope of the actor that of Departments.  Names and colours are left out. *)
(***************************************************************************)
EXTENDS Naturals, FiniteSets

CONSTANTS
    User, Session, Owner,       \* users, their sessions, whose each is
    Role, Super,                \* role ids (BIGSERIAL), the built-in super_admin
    Perm, Requires,             \* permission codes, what each needs beside it
    RoleWrite, RolePermissionWrite, UserRoleWrite, SuperGrant,
    Start,                      \* bound: catalogues of roles to start from
    Offers,                     \* bound: the permission lists requests name
    RoleLists,                  \* bound: the role lists requests name
    Token,                      \* bound: the step-up tokens ever issued
    Request,                    \* requests in flight
    None                        \* no value

RoleStatus == {"absent", "active", "inactive", "deleted"}

ASSUME GrantsAssumption ==
    /\ Owner \in [Session -> User]
    /\ Super \in Role
    /\ Requires \in [Perm -> SUBSET Perm]
    /\ Offers \subseteq SUBSET Perm /\ RoleLists \subseteq SUBSET Role
    /\ {RoleWrite, RolePermissionWrite, UserRoleWrite, SuperGrant} \subseteq Perm
    /\ None \notin Role \cup Session \cup Token
    /\ \A c \in Start : /\ c.status \in [Role -> RoleStatus]
                       /\ c.perms \in [Role -> SUBSET Perm]
                       /\ c.member \in [User -> SUBSET Role]
                       /\ \A r \in Role : \A p \in c.perms[r] : Requires[p] \subseteq c.perms[r]

VARIABLES
    status,     \* roles.is_active, or whether there is a row
    perms,      \* role_permissions
    member,     \* user_roles
    tokens,     \* auth_step_up_tokens
    unlocked,   \* sessions with an auth_module_unlocks row for roles in force
    req,        \* the requests
    ceiling,    \* history: what the users could do together at the start
    backs       \* history: the changes written on the strength of each token

roles == <<status, perms, member>>
vars == <<roles, tokens, unlocked, req, ceiling, backs>>

Op == {"create", "rename", "activate", "deactivate", "delete", "put", "assign"}
StepUpScope == {"roles.permissions.write", "roles.sensitive", "roles.delete",
                "users.roles.write"}

TokenRow == [session : Session, scope : StepUpScope,
             state : {"open", "consumed", "expired"}]

ASSUME RowAssumption == None \notin TokenRow

(* super: SuperGrant is among the permission codes of the ActorContext;     *)
(* seen: the rows of role_permissions that a DELETE has found.              *)
RequestState ==
    [pc : {"idle", "admitted", "checked", "insert", "remove"}, op : Op,
     session : Session \cup {None}, token : Token \cup {None},
     super : BOOLEAN, role : Role \cup {None}, perms : SUBSET Perm,
     users : SUBSET User, roles : SUBSET Role, seen : SUBSET Perm]

(* What the body and the path of a request name. *)
Submitted(op, r, P, U, R) ==
    [pc |-> "idle", op |-> op, session |-> None, token |-> None, super |-> FALSE,
     role |-> r, perms |-> P, users |-> U, roles |-> R, seen |-> {}]

Idle == Submitted("rename", None, {}, {}, {})

TypeOK ==
    /\ status \in [Role -> RoleStatus]
    /\ perms \in [Role -> SUBSET Perm]
    /\ member \in [User -> SUBSET Role]
    /\ tokens \in [Token -> TokenRow \cup {None}]
    /\ unlocked \in SUBSET Session
    /\ req \in [Request -> RequestState]
    /\ ceiling \in SUBSET Perm
    /\ backs \in [Token -> Nat]

-----------------------------------------------------------------------------
Exists(r) == status[r] \in {"active", "inactive"}

(* permission_codes_by_user, and the permission_codes of auth_context *)
Held(u) == UNION {perms[r] : r \in {q \in member[u] : status[q] = "active"}}

HeldByAny == UNION {Held(u) : u \in User}

(* codes_by_role_ids: inactive roles count as well. *)
CodesOf(R) == UNION {perms[r] : r \in R}

(* Mutant: one of the permissions a code needs is enough. *)
SomeDependency(P) == \A p \in P : Requires[p] = {} \/ Requires[p] \cap P # {}

(* validate_permission_dependencies *)
Dependencies(P) == \A p \in P : Requires[p] \subseteq P

Init ==
    /\ \E c \in Start : status = c.status /\ perms = c.perms /\ member = c.member
    /\ tokens = [t \in Token |-> None]
    /\ unlocked = {}
    /\ req = [p \in Request |-> Idle]
    /\ ceiling = HeldByAny
    /\ backs = [t \in Token |-> 0]

-----------------------------------------------------------------------------
(* Re-authentication *)

(* Mutant: the token is not bound to the session it was issued in. *)
IssueUnbound(s, scope, t) ==
    /\ tokens[t] = None
    /\ tokens' = [tokens EXCEPT ![t] = [session |-> None, scope |-> scope, state |-> "open"]]
    /\ UNCHANGED <<roles, unlocked, req, ceiling, backs>>

(* step_up::issue after verify_reauthentication; prune removes dead rows. *)
IssueToken(s, scope, t) ==
    /\ tokens[t] = None
    /\ tokens' = [tokens EXCEPT ![t] = [session |-> s, scope |-> scope, state |-> "open"]]
    /\ UNCHANGED <<roles, unlocked, req, ceiling, backs>>

(* expires_at: TOKEN_TTL_SECS *)
ExpireToken(t) ==
    /\ tokens[t] # None /\ tokens[t].state = "open"
    /\ tokens' = [tokens EXCEPT ![t].state = "expired"]
    /\ UNCHANGED <<roles, unlocked, req, ceiling, backs>>

(* module_unlock::issue: ON CONFLICT only moves the expiry. *)
Unlock(s) ==
    /\ unlocked' = unlocked \cup {s}
    /\ UNCHANGED <<roles, tokens, req, ceiling, backs>>

(* expires_at: UNLOCK_TTL_SECS *)
Relock(s) ==
    /\ s \in unlocked
    /\ unlocked' = unlocked \ {s}
    /\ UNCHANGED <<roles, tokens, req, ceiling, backs>>

-----------------------------------------------------------------------------
(* The handlers *)

(* RequirePermission, and auth.require of create with permissions *)
HandlerCodes(op, P) ==
    CASE op = "put" -> {RolePermissionWrite}
      [] op = "assign" -> {UserRoleWrite}
      [] op = "create" /\ P # {} -> {RoleWrite, RolePermissionWrite}
      [] OTHER -> {RoleWrite}

NeedsStepUp(op, P) == op # "rename" /\ (op = "create" => P # {})

ScopeOf(op) ==
    CASE op \in {"create", "put"} -> "roles.permissions.write"
      [] op \in {"activate", "deactivate"} -> "roles.sensitive"
      [] op = "delete" -> "roles.delete"
      [] OTHER -> "users.roles.write"

(* Mutant: the UPDATE does not ask for consumed_at IS NULL. *)
ConsumableTwice(t, s, scope) ==
    /\ tokens[t] # None
    /\ tokens[t].session = s /\ tokens[t].scope = scope
    /\ tokens[t].state # "expired"

(* The WHERE clause of step_up::consume; the user is the session's. *)
Consumable(t, s, scope) ==
    /\ tokens[t] # None
    /\ tokens[t].session = s /\ tokens[t].scope = scope
    /\ tokens[t].state = "open"

(* module_unlock::require *)
Unlocked(s) == s \in unlocked

(* A request that authenticates, has the handler's permissions, and spends *)
(* its token or meets an unlocked module.                                  *)
Admit(p, s, t, o) ==
    LET held == Held(Owner[s]) IN
    /\ req[p].pc = "idle"
    /\ HandlerCodes(o.op, o.perms) \subseteq held
    /\ IF NeedsStepUp(o.op, o.perms)
       THEN /\ t # None /\ Consumable(t, s, ScopeOf(o.op))
            /\ tokens' = [tokens EXCEPT ![t].state = "consumed"]
       ELSE /\ t = None /\ Unlocked(s)
            /\ UNCHANGED tokens
    /\ req' = [req EXCEPT ![p] = [o EXCEPT !.pc = "admitted", !.session = s,
                                           !.token = t,
                                           !.super = SuperGrant \in held]]
    /\ UNCHANGED <<roles, unlocked, ceiling, backs>>

-----------------------------------------------------------------------------
(* The services' validation *)

(* Mutant: a role is activated without a look at what it contains. *)
MayActivateAny(u, r) == TRUE

(* update with is_active = true: validate_permission_grant_scope *)
MayActivate(u, r) == perms[r] \subseteq Held(u)

(* validate_role_grant_scope *)
MayAssign(u, super, R) ==
    /\ \A r \in R : status[r] = "active"
    /\ Super \in R => super
    /\ CodesOf(R) \subseteq Held(u)

MayPut(u, P) == Dependencies(P) /\ P \subseteq Held(u)

Members(r) == {u \in User : r \in member[u]}

Valid(o) ==
    LET u == Owner[o.session] IN
    CASE o.op = "create" -> MayPut(u, o.perms)
      [] o.op = "put" -> Exists(o.role) /\ o.role # Super /\ MayPut(u, o.perms)
      [] o.op = "deactivate" -> Exists(o.role) /\ o.role # Super
      [] o.op = "activate" -> MayActivate(u, o.role)
      [] o.op = "delete" -> Exists(o.role) /\ o.role # Super /\ Members(o.role) = {}
      [] o.op = "assign" -> MayAssign(u, o.super, o.roles)
      [] OTHER -> TRUE

(* A request that is refused has spent its token all the same. *)
Check(p) ==
    /\ req[p].pc = "admitted"
    /\ req' = [req EXCEPT ![p] = IF Valid(req[p]) THEN [req[p] EXCEPT !.pc = "checked"]
                                                 ELSE Idle]
    /\ UNCHANGED <<roles, tokens, unlocked, ceiling, backs>>

-----------------------------------------------------------------------------
(* The transactions *)

Done(p) == req' = [req EXCEPT ![p] = Idle]

Count(p) ==
    backs' = IF req[p].token = None THEN backs
             ELSE [backs EXCEPT ![req[p].token] = @ + 1]

(* create: the role is active from the start (DEFAULT true). *)
CreateWrite(p, r) ==
    /\ req[p].pc = "checked" /\ req[p].op = "create"
    /\ status[r] = "absent"
    /\ status' = [status EXCEPT ![r] = "active"]
    /\ perms' = [perms EXCEPT ![r] = req[p].perms]
    /\ Count(p) /\ Done(p)
    /\ UNCHANGED <<member, tokens, unlocked, ceiling>>

(* update: only is_active matters here. *)
UpdateWrite(p) ==
    LET r == req[p].role IN
    /\ req[p].pc = "checked" /\ req[p].op \in {"rename", "activate", "deactivate"}
    /\ IF Exists(r)
       THEN /\ status' = [status EXCEPT ![r] = CASE req[p].op = "activate" -> "active"
                                                 [] req[p].op = "deactivate" -> "inactive"
                                                 [] OTHER -> @]
            /\ Count(p)
       ELSE UNCHANGED <<status, backs>>
    /\ Done(p)
    /\ UNCHANGED <<perms, member, tokens, unlocked, ceiling>>

(* delete_if_unassigned: the rows of user_roles it can see, *)
DeleteSnapshot(p) ==
    LET r == req[p].role IN
    /\ req[p].pc = "checked" /\ req[p].op = "delete"
    /\ req' = [req EXCEPT ![p] = IF Exists(r) /\ Members(r) = {}
                                 THEN [req[p] EXCEPT !.pc = "remove"] ELSE Idle]
    /\ UNCHANGED <<roles, tokens, unlocked, ceiling, backs>>

(* and the deletion, which cascades to permissions and members. *)
DeleteWrite(p) ==
    LET r == req[p].role IN
    /\ req[p].pc = "remove"
    /\ IF Exists(r)
       THEN /\ status' = [status EXCEPT ![r] = "deleted"]
            /\ perms' = [perms EXCEPT ![r] = {}]
            /\ member' = [u \in User |-> member[u] \ {r}]
            /\ Count(p)
       ELSE UNCHANGED <<roles, backs>>
    /\ Done(p)
    /\ UNCHANGED <<tokens, unlocked, ceiling>>

(* assign_permissions: DELETE ... WHERE role_id = $1 *)
PutDelete(p) ==
    /\ req[p].pc = "checked" /\ req[p].op = "put"
    /\ req' = [req EXCEPT ![p].pc = "insert", ![p].seen = perms[req[p].role]]
    /\ UNCHANGED <<roles, tokens, unlocked, ceiling, backs>>

(* The rows the request did not find and so leaves in place. *)
Unseen(p) == perms[req[p].role] \ req[p].seen

(* Rows deleted by p are gone for the others; those inserted again are new *)
(* rows, which they have not found.                                        *)
Forget(p) ==
    req' = [q \in Request |->
        IF q = p THEN Idle
        ELSE IF req[q].pc = "insert" /\ req[q].role = req[p].role
             THEN [req[q] EXCEPT !.seen = @ \ req[p].seen] ELSE req[q]]

(* The INSERTs and the commit: the primary key refuses a row that is there *)
(* already, the foreign key one of a role that is gone.                    *)
PutInsert(p) ==
    LET r == req[p].role IN
    /\ req[p].pc = "insert"
    /\ IF req[p].perms \cap Unseen(p) = {} /\ (Exists(r) \/ req[p].perms = {})
       THEN /\ perms' = [perms EXCEPT ![r] = Unseen(p) \cup req[p].perms]
            /\ Count(p) /\ Forget(p)
       ELSE Done(p) /\ UNCHANGED <<perms, backs>>
    /\ UNCHANGED <<status, member, tokens, unlocked, ceiling>>

(* assign_roles and assign_roles_many *)
AssignWrite(p) ==
    /\ req[p].pc = "checked" /\ req[p].op = "assign"
    /\ IF \A r \in req[p].roles : Exists(r)
       THEN /\ member' = [u \in User |-> IF u \in req[p].users THEN req[p].roles
                                                               ELSE member[u]]
            /\ Count(p)
       ELSE UNCHANGED <<member, backs>>
    /\ Done(p)
    /\ UNCHANGED <<status, perms, tokens, unlocked, ceiling>>

-----------------------------------------------------------------------------
(* What a client may send; a batch does not name the actor himself. *)
Submissions(s) ==
    {Submitted("create", None, P, {}, {}) : P \in Offers}
    \cup {Submitted(op, r, {}, {}, {}) :
            op \in {"rename", "activate", "deactivate", "delete"}, r \in Role}
    \cup {Submitted("put", r, P, {}, {}) : r \in Role, P \in Offers}
    \cup {Submitted("assign", None, {}, U, R) :
            U \in {V \in SUBSET User : V # {} /\ (Owner[s] \in V => V = {Owner[s]})},
            R \in RoleLists}

Reauthenticate(s) ==
    \/ \E scope \in StepUpScope, t \in Token : IssueToken(s, scope, t)
    \/ Unlock(s)

Proceed(p) ==
    \/ Check(p)
    \/ \E r \in Role : CreateWrite(p, r)
    \/ UpdateWrite(p) \/ DeleteSnapshot(p) \/ DeleteWrite(p)
    \/ PutDelete(p) \/ PutInsert(p) \/ AssignWrite(p)

Next ==
    \/ \E s \in Session : Reauthenticate(s)
    \/ \E t \in Token : ExpireToken(t)
    \/ \E s \in Session : Relock(s)
    \/ \E p \in Request, s \in Session, t \in Token \cup {None} :
          \E o \in Submissions(s) : Admit(p, s, t, o)
    \/ \E p \in Request : Proceed(p)

Spec == Init /\ [][Next]_vars

-----------------------------------------------------------------------------
(* Properties *)

(* "不能授予操作者自身未拥有的权限" (services/roles.rs:406) and             *)
(* "不能分配包含操作者自身未拥有权限的角色" (services/users.rs:611), taken  *)
(* together over time: the checks are made on the pool, long before the    *)
(* writes, against roles that change meanwhile.  Whatever requests the     *)
(* ordinary users interleave, and whatever inactive or unassigned roles    *)
(* lie about, they never hold a permission that none of them held at the   *)
(* start.                                                                  *)
NoEscalation == HeldByAny \subseteq ceiling

(* services/roles.rs:374 and 381: a role that may grant permissions has    *)
(* the permissions to read them.  Two replacements of one role that        *)
(* overlap leave the union of both lists (PutInsert); even so, and after   *)
(* every other operation, the dependencies hold.                           *)
DependenciesHold == \A r \in Role : \A p \in perms[r] : Requires[p] \subseteq perms[r]

(* Every change that needs it is written on a re-authentication of its own: *)
(* a token backs one request, of the session and for the kind of change it  *)
(* was issued for, although it is spent before the change is validated and  *)
(* two requests may present it at once.                                     *)
TokenBacksOne ==
    /\ \A t \in Token : backs[t] <= 1
    /\ \A p \in Request : req[p].pc # "idle" /\ NeedsStepUp(req[p].op, req[p].perms) =>
          LET t == req[p].token IN
          /\ tokens[t].session = req[p].session
          /\ tokens[t].scope = ScopeOf(req[p].op)
          /\ tokens[t].state = "consumed"
          /\ backs[t] = 0
          /\ \A q \in Request \ {p} : req[q].token # t

(* What the name put_permissions says: the list written last is the role's. *)
(* It does not hold of two that overlap.                                    *)
LastPutStands ==
    [][\A p \in Request : req[p].pc = "insert" /\ req'[p].pc = "idle" /\ perms' # perms
          => perms'[req[p].role] = req[p].perms]_vars

=============================================================================
