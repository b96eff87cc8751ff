-------------------------- MODULE RoleGrantsProofs --------------------------
(***************************************************************************)
(* That no interleaving of role changes gives the users a permission that  *)
(* none of them held, and that permissions keep their dependencies, for    *)
(* every catalogue of roles, every number of users and requests.           *)
(***************************************************************************)
EXTENDS RoleGrants, TLAPS

(* A submitted request is a request record. *)
LEMMA SubmittedTyped ==
    ASSUME NEW op \in Op, NEW r \in Role \cup {None}, NEW P \in SUBSET Perm,
           NEW U \in SUBSET User, NEW R \in SUBSET Role
    PROVE  /\ Submitted(op, r, P, U, R) \in RequestState
           /\ Submitted(op, r, P, U, R).op = op
           /\ Submitted(op, r, P, U, R).role = r
BY DEF Submitted, RequestState

(* So is the record of a request that is over. *)
LEMMA IdleTyped == Idle \in RequestState /\ Idle.pc = "idle" /\ Idle.token = None
<1>1. Idle \in RequestState BY SubmittedTyped DEF Idle, Op
<1>2. Idle.pc = "idle" /\ Idle.token = None BY DEF Idle, Submitted
<1> QED BY <1>1, <1>2

(* What a client may send is a request record, and names a role where the  *)
(* operation has one (the path parameter of the handlers).                 *)
LEMMA SubmissionTyped ==
    ASSUME NEW s \in Session, NEW o \in Submissions(s)
    PROVE  /\ o \in RequestState
           /\ o.op \notin {"create", "assign"} => o.role \in Role
<1> USE GrantsAssumption
<1>1. CASE \E P \in Offers : o = Submitted("create", None, P, {}, {})
  BY <1>1, SubmittedTyped DEF Op
<1>2. CASE \E op \in {"rename", "activate", "deactivate", "delete"}, r \in Role :
              o = Submitted(op, r, {}, {}, {})
  BY <1>2, SubmittedTyped DEF Op
<1>3. CASE \E r \in Role, P \in Offers : o = Submitted("put", r, P, {}, {})
  BY <1>3, SubmittedTyped DEF Op
<1>4. CASE \E U \in SUBSET User, R \in RoleLists : o = Submitted("assign", None, {}, U, R)
  BY <1>4, SubmittedTyped DEF Op
<1> QED
  BY <1>1, <1>2, <1>3, <1>4 DEF Submissions

-----------------------------------------------------------------------------
(* Types.  TypeOK is inductive with what it leaves open: a request under   *)
(* way is of a session, and names a role if its operation has one.         *)
Named ==
    \A p \in Request : req[p].pc # "idle" =>
        /\ req[p].session \in Session
        /\ req[p].op \notin {"create", "assign"} => req[p].role \in Role
        /\ req[p].pc = "insert" => req[p].op = "put"
        /\ req[p].pc = "remove" => req[p].op = "delete"

(* The initial states have the types of TypeOK. *)
LEMMA TypeInit == Init => TypeOK
BY GrantsAssumption, IdleTyped DEF Init, TypeOK, HeldByAny, Held

(* Issuing a token or an unlock (step_up::issue, module_unlock::issue). *)
LEMMA TypeReauthenticate ==
    ASSUME TypeOK, NEW s \in Session, Reauthenticate(s)
    PROVE  TypeOK'
<1>1. CASE \E scope \in StepUpScope, t \in Token : IssueToken(s, scope, t)
  BY <1>1 DEF TypeOK, IssueToken, TokenRow, roles
<1>2. CASE Unlock(s)
  BY <1>2 DEF TypeOK, Unlock, roles
<1> QED BY <1>1, <1>2 DEF Reauthenticate

(* The expiry of a token. *)
LEMMA TypeExpire ==
    ASSUME TypeOK, NEW t \in Token, ExpireToken(t)
    PROVE  TypeOK'
BY DEF TypeOK, ExpireToken, TokenRow, roles

(* The expiry of an unlock. *)
LEMMA TypeRelock ==
    ASSUME TypeOK, NEW s \in Session, Relock(s)
    PROVE  TypeOK'
BY DEF TypeOK, Relock, roles

(* The handler's admission, the token spent. *)
LEMMA TypeAdmit ==
    ASSUME TypeOK, NEW p \in Request, NEW s \in Session, NEW t \in Token \cup {None},
           NEW o \in Submissions(s), Admit(p, s, t, o)
    PROVE  TypeOK'
<1>1. o \in RequestState BY SubmissionTyped
<1>2. [o EXCEPT !.pc = "admitted", !.session = s, !.token = t,
                !.super = SuperGrant \in Held(Owner[s])] \in RequestState
  <2>1. ASSUME NEW b \in BOOLEAN
        PROVE  [o EXCEPT !.pc = "admitted", !.session = s, !.token = t, !.super = b]
                 \in RequestState
    BY <1>1, ZenonT(60) DEF RequestState
  <2>2. (SuperGrant \in Held(Owner[s])) \in BOOLEAN BY SMT
  <2> QED BY <2>1, <2>2, Zenon
<1>3. req' \in [Request -> RequestState]
  BY <1>2 DEF TypeOK, Admit
<1>4. tokens' \in [Token -> TokenRow \cup {None}]
  <2>1. CASE UNCHANGED tokens BY <2>1 DEF TypeOK
  <2>2. CASE /\ t # None /\ Consumable(t, s, ScopeOf(o.op))
             /\ tokens' = [tokens EXCEPT ![t].state = "consumed"]
    BY <2>2 DEF TypeOK, Consumable, TokenRow
  <2> QED BY <2>1, <2>2 DEF Admit
<1> QED BY <1>3, <1>4 DEF Admit, TypeOK, roles

(* The history of what a token has backed stays a count. *)
LEMMA TypeCount ==
    ASSUME TypeOK, NEW p \in Request, Count(p)
    PROVE  backs' \in [Token -> Nat]
<1>1. req[p].token \in Token \cup {None} BY DEF TypeOK, RequestState
<1> QED BY <1>1 DEF TypeOK, Count

(* The end of a request. *)
LEMMA TypeDone ==
    ASSUME TypeOK, NEW p \in Request, Done(p)
    PROVE  req' \in [Request -> RequestState]
BY IdleTyped DEF TypeOK, Done

(* The validation and the statements of a request. *)
LEMMA TypeProceed ==
    ASSUME TypeOK, Named, NEW p \in Request, Proceed(p)
    PROVE  TypeOK'
<1>0. req[p] \in RequestState BY DEF TypeOK
<1>1. CASE Check(p)
  <2>1. [req[p] EXCEPT !.pc = "checked"] \in RequestState BY <1>0 DEF RequestState
  <2> QED BY <1>1, <2>1, IdleTyped DEF TypeOK, Check, roles
<1>2. ASSUME NEW r \in Role, CreateWrite(p, r) PROVE TypeOK'
  <2>1. req[p].perms \subseteq Perm BY <1>0 DEF RequestState
  <2> QED BY <1>2, <2>1, TypeCount, TypeDone DEF TypeOK, CreateWrite, RoleStatus
<1>3. CASE UpdateWrite(p)
  <2>1. status' \in [Role -> RoleStatus]
    BY <1>3 DEF TypeOK, UpdateWrite, RoleStatus
  <2>2. backs' \in [Token -> Nat]
    BY <1>3, TypeCount DEF TypeOK, UpdateWrite
  <2> QED BY <1>3, <2>1, <2>2, TypeDone DEF TypeOK, UpdateWrite
<1>4. CASE DeleteSnapshot(p)
  <2>1. [req[p] EXCEPT !.pc = "remove"] \in RequestState BY <1>0 DEF RequestState
  <2> QED BY <1>4, <2>1, IdleTyped DEF TypeOK, DeleteSnapshot, roles
<1>5. CASE DeleteWrite(p)
  <2>1. CASE Exists(req[p].role)
    BY <1>5, <2>1, TypeCount, TypeDone DEF TypeOK, DeleteWrite, RoleStatus
  <2>2. CASE ~Exists(req[p].role)
    BY <1>5, <2>2, TypeDone DEF TypeOK, DeleteWrite, roles
  <2> QED BY <2>1, <2>2
<1>6. CASE PutDelete(p)
  <2>1. perms[req[p].role] \subseteq Perm
    BY <1>6 DEF TypeOK, Named, PutDelete
  <2> QED BY <1>6, <1>0, <2>1 DEF PutDelete, TypeOK, RequestState, roles
<1>7. CASE PutInsert(p)
  <2>1. req' \in [Request -> RequestState]
    <3>1. ASSUME NEW q \in Request
          PROVE  [req[q] EXCEPT !.seen = @ \ req[p].seen] \in RequestState
      BY DEF TypeOK, RequestState
    <3> QED BY <1>7, <3>1, IdleTyped DEF PutInsert, Forget, Done, TypeOK
  <2>2. backs' \in [Token -> Nat]
    BY <1>7, TypeCount DEF TypeOK, PutInsert
  <2>3. perms' \in [Role -> SUBSET Perm]
    BY <1>0, <1>7 DEF TypeOK, PutInsert, RequestState, Unseen
  <2> QED BY <1>7, <2>1, <2>2, <2>3 DEF TypeOK, PutInsert
<1>8. CASE AssignWrite(p)
  <2>1. backs' \in [Token -> Nat]
    BY <1>8, TypeCount DEF TypeOK, AssignWrite
  <2>2. member' \in [User -> SUBSET Role]
    BY <1>0, <1>8 DEF TypeOK, AssignWrite, RequestState
  <2> QED BY <1>8, <2>1, <2>2, TypeDone DEF TypeOK, AssignWrite
<1> QED BY <1>1, <1>2, <1>3, <1>4, <1>5, <1>6, <1>7, <1>8 DEF Proceed

(* Every step keeps the types. *)
LEMMA TypeNext == TypeOK /\ Named /\ [Next]_vars => TypeOK'
<1> SUFFICES ASSUME TypeOK, Named, [Next]_vars PROVE TypeOK'
  OBVIOUS
<1>1. CASE UNCHANGED vars
  BY <1>1 DEF vars, roles, TypeOK
<1>2. CASE Next
  BY <1>2, TypeReauthenticate, TypeExpire, TypeRelock, TypeAdmit, TypeProceed DEF Next
<1> QED BY <1>1, <1>2

(* What a step of p leaves of another request: all of it, save the rows    *)
(* that a replacement has deleted before the other could.                  *)
LEMMA OthersKept ==
    ASSUME TypeOK, NEW p \in Request, Proceed(p), NEW q \in Request \ {p}
    PROVE  \/ req'[q] = req[q]
           \/ req'[q] = [req[q] EXCEPT !.seen = @ \ req[p].seen]
BY DEF TypeOK, Proceed, Check, CreateWrite, UpdateWrite, DeleteSnapshot, DeleteWrite,
       PutDelete, PutInsert, AssignWrite, Done, Forget

(* A request ends, or moves to its next stage. *)
LEMMA OwnMoves ==
    ASSUME TypeOK, NEW p \in Request, Proceed(p)
    PROVE  \/ req'[p] = Idle
           \/ /\ req[p].pc = "admitted" /\ Valid(req[p])
              /\ req'[p] = [req[p] EXCEPT !.pc = "checked"]
           \/ /\ req[p].pc = "checked" /\ req[p].op = "delete"
              /\ req'[p] = [req[p] EXCEPT !.pc = "remove"]
           \/ /\ req[p].pc = "checked" /\ req[p].op = "put"
              /\ req'[p] = [req[p] EXCEPT !.pc = "insert", !.seen = perms[req[p].role]]
BY DEF TypeOK, Proceed, Check, CreateWrite, UpdateWrite, DeleteSnapshot, DeleteWrite,
       PutDelete, PutInsert, AssignWrite, Done, Forget

(* No request is under way at the start. *)
LEMMA NamedInit == Init => Named
BY IdleTyped DEF Init, Named

(* A request keeps its session and its role from admission to its end. *)
LEMMA NamedNext == TypeOK /\ Named /\ [Next]_vars => Named'
<1> SUFFICES ASSUME TypeOK, Named, [Next]_vars PROVE Named'
  OBVIOUS
<1>1. CASE req' = req
  BY <1>1 DEF Named
<1>2. ASSUME NEW p \in Request, NEW s \in Session, NEW t \in Token \cup {None},
             NEW o \in Submissions(s), Admit(p, s, t, o)
      PROVE  Named'
  <2>1. /\ o \in RequestState
        /\ o.op \notin {"create", "assign"} => o.role \in Role
    BY SubmissionTyped
  <2>2. /\ req'[p].pc = "admitted" /\ req'[p].session = s
        /\ req'[p].op = o.op /\ req'[p].role = o.role
    BY <1>2, <2>1 DEF Admit, TypeOK, RequestState
  <2>3. \A q \in Request \ {p} : req'[q] = req[q]
    BY <1>2 DEF Admit, TypeOK
  <2> QED BY <2>1, <2>2, <2>3 DEF Named
<1>3. ASSUME NEW p \in Request, Proceed(p) PROVE Named'
  <2>1. ASSUME NEW q \in Request \ {p}, req'[q].pc # "idle"
        PROVE  /\ req'[q].pc = req[q].pc /\ req'[q].op = req[q].op
               /\ req'[q].session = req[q].session /\ req'[q].role = req[q].role
    <3>1. CASE req'[q] = req[q] BY <3>1
    <3>2. CASE req'[q] = [req[q] EXCEPT !.seen = @ \ req[p].seen]
      BY <3>2 DEF TypeOK, RequestState
    <3> QED BY <1>3, <3>1, <3>2, OthersKept
  <2>2. /\ req'[p].pc # "idle" =>
             /\ req[p].pc # "idle"
             /\ req'[p].op = req[p].op
             /\ req'[p].session = req[p].session /\ req'[p].role = req[p].role
        /\ req'[p].pc = "insert" => req[p].op = "put"
        /\ req'[p].pc = "remove" => req[p].op = "delete"
    <3>1. CASE req'[p] = Idle BY <3>1, IdleTyped
    <3>2. CASE /\ req[p].pc = "admitted"
               /\ req'[p] = [req[p] EXCEPT !.pc = "checked"]
      BY <3>2 DEF TypeOK, RequestState
    <3>3. CASE /\ req[p].pc = "checked" /\ req[p].op = "delete"
               /\ req'[p] = [req[p] EXCEPT !.pc = "remove"]
      BY <3>3 DEF TypeOK, RequestState
    <3>4. CASE /\ req[p].pc = "checked" /\ req[p].op = "put"
               /\ req'[p] = [req[p] EXCEPT !.pc = "insert", !.seen = perms[req[p].role]]
      BY <3>4 DEF TypeOK, RequestState
    <3> QED BY <1>3, <3>1, <3>2, <3>3, <3>4, OwnMoves
  <2> QED BY <2>1, <2>2 DEF Named
<1> QED
  BY <1>1, <1>2, <1>3 DEF Next, vars, roles, Reauthenticate, IssueToken, Unlock,
                          ExpireToken, Relock

(* TypeOK holds of every behaviour. *)
THEOREM TypeCorrect == Spec => []TypeOK
<1>1. Spec => [](TypeOK /\ Named)
  BY TypeInit, TypeNext, NamedInit, NamedNext, PTL DEF Spec
<1> QED BY <1>1, PTL

-----------------------------------------------------------------------------
(* NoEscalation.  A role is safe when it has nothing beyond the ceiling.   *)
(* A safe role stays safe, whatever is written to it; what a request has   *)
(* been checked for is safe; and so is what an overlapping replacement     *)
(* leaves of a role.                                                       *)
Safe(r) == perms[r] \subseteq ceiling

(* What is in force is safe. *)
MemberSafe ==
    \A u \in User : \A r \in member[u] : status[r] = "active" => Safe(r)

(* What has been checked, and will be written, is safe. *)
Past(p) == req[p].pc \in {"checked", "insert", "remove"}

CheckedSafe ==
    \A p \in Request : Past(p) =>
        /\ req[p].op \in {"create", "put"} => req[p].perms \subseteq ceiling
        /\ req[p].op = "activate" => Safe(req[p].role)
        /\ req[p].op = "assign" => \A r \in req[p].roles : Safe(r)
        /\ req[p].pc = "insert" => Unseen(p) \subseteq ceiling

SafeInv == MemberSafe /\ CheckedSafe

(* While what is in force is safe, an actor holds nothing above the ceiling. *)
LEMMA HeldBelow ==
    ASSUME TypeOK, MemberSafe, NEW u \in User
    PROVE  Held(u) \subseteq ceiling
BY DEF MemberSafe, Held, Safe

(* NoEscalation is MemberSafe, role by role. *)
LEMMA HeldSafe ==
    ASSUME TypeOK
    PROVE  MemberSafe <=> NoEscalation
<1>1. ASSUME MemberSafe PROVE NoEscalation
  BY <1>1, HeldBelow DEF NoEscalation, HeldByAny
<1>2. ASSUME NoEscalation, NEW u \in User, NEW r \in member[u], status[r] = "active",
             NEW x \in perms[r]
      PROVE  x \in ceiling
  <2>1. perms[r] \in {perms[z] : z \in {q \in member[u] : status[q] = "active"}}
    BY <1>2
  <2>2. x \in Held(u) BY <2>1 DEF Held
  <2>3. x \in HeldByAny BY <2>2 DEF HeldByAny
  <2> QED BY <1>2, <2>3 DEF NoEscalation
<1>3. ASSUME NoEscalation PROVE MemberSafe
  BY <1>2, <1>3 DEF MemberSafe, Safe
<1> QED BY <1>1, <1>3

(* The ceiling is what the users hold at the start. *)
LEMMA SafeInit == Init => SafeInv
<1> SUFFICES ASSUME Init PROVE SafeInv OBVIOUS
<1>1. NoEscalation BY DEF Init, NoEscalation
<1>2. MemberSafe BY <1>1, TypeInit, HeldSafe
<1>3. CheckedSafe BY IdleTyped DEF Init, CheckedSafe, Past
<1> QED BY <1>2, <1>3 DEF SafeInv

(* What validation lets through is safe. *)
LEMMA ValidSafe ==
    ASSUME TypeOK, Named, SafeInv, NEW p \in Request, req[p].pc = "admitted",
           Valid(req[p])
    PROVE  /\ req[p].op \in {"create", "put"} => req[p].perms \subseteq ceiling
           /\ req[p].op = "activate" => Safe(req[p].role)
           /\ req[p].op = "assign" => \A r \in req[p].roles : Safe(r)
<1>1. Held(Owner[req[p].session]) \subseteq ceiling
  BY GrantsAssumption, HeldBelow DEF Named, SafeInv
<1>2. CASE req[p].op \in {"create", "put"}
  BY <1>1, <1>2 DEF Valid, MayPut
<1>3. CASE req[p].op = "activate"
  BY <1>1, <1>3 DEF Valid, MayActivate, Safe
<1>4. CASE req[p].op = "assign"
  BY <1>1, <1>4 DEF Valid, MayAssign, CodesOf, Safe
<1> QED BY <1>2, <1>3, <1>4

(* Whatever is written to a role is safe, so a safe role stays so. *)
LEMMA WritesSafe ==
    ASSUME TypeOK, Named, SafeInv, NEW p \in Request, Proceed(p)
    PROVE  /\ ceiling' = ceiling
           /\ \A r \in Role : perms'[r] = perms[r] \/ perms'[r] \subseteq ceiling
<1>1. ceiling' = ceiling
  BY DEF Proceed, Check, CreateWrite, UpdateWrite, DeleteSnapshot, DeleteWrite,
         PutDelete, PutInsert, AssignWrite
<1>2. ASSUME NEW r \in Role, CreateWrite(p, r)
      PROVE  \A z \in Role : perms'[z] = perms[z] \/ perms'[z] \subseteq ceiling
  BY <1>2 DEF TypeOK, CreateWrite, SafeInv, CheckedSafe, Past
<1>3. CASE PutInsert(p)
  BY <1>3 DEF TypeOK, PutInsert, SafeInv, CheckedSafe, Past, Named
<1>4. CASE DeleteWrite(p)
  BY <1>4 DEF TypeOK, DeleteWrite, roles
<1>5. CASE perms' = perms BY <1>1, <1>5
<1> QED BY <1>1, <1>2, <1>3, <1>4, <1>5
        DEF Proceed, Check, UpdateWrite, DeleteSnapshot, PutDelete, AssignWrite, roles

(* Creation, activation and assignment put only safe roles in force. *)
LEMMA MemberSafeProceed ==
    ASSUME TypeOK, Named, SafeInv, NEW p \in Request, Proceed(p)
    PROVE  MemberSafe'
<1>0. \A r \in Role : Safe(r) => Safe(r)'
  BY WritesSafe DEF Safe
<1>1. CASE status' = status /\ member' = member
  BY <1>0, <1>1 DEF TypeOK, SafeInv, MemberSafe
<1>2. ASSUME NEW r \in Role, CreateWrite(p, r) PROVE MemberSafe'
  <2>1. Safe(r)'
    BY <1>2 DEF CreateWrite, TypeOK, SafeInv, CheckedSafe, Past, Safe
  <2> QED BY <1>0, <1>2, <2>1 DEF TypeOK, CreateWrite, SafeInv, MemberSafe
<1>3. CASE UpdateWrite(p)
  <2>1. req[p].op = "activate" => Safe(req[p].role)
    BY <1>3 DEF UpdateWrite, SafeInv, CheckedSafe, Past
  <2>2. \A r \in Role : status'[r] = "active" =>
           status[r] = "active" \/ (r = req[p].role /\ req[p].op = "activate")
    BY <1>3 DEF UpdateWrite, TypeOK
  <2>3. member' = member BY <1>3 DEF UpdateWrite
  <2> QED BY <1>0, <2>1, <2>2, <2>3 DEF TypeOK, SafeInv, MemberSafe
<1>4. CASE DeleteWrite(p)
  <2>1. \A r \in Role : status'[r] = "active" => status[r] = "active"
    BY <1>4 DEF DeleteWrite, TypeOK, roles
  <2>2. \A u \in User : member'[u] \subseteq member[u]
    BY <1>4 DEF DeleteWrite, TypeOK, roles
  <2> QED BY <1>0, <2>1, <2>2 DEF TypeOK, SafeInv, MemberSafe
<1>5. CASE AssignWrite(p)
  <2>1. \A r \in req[p].roles : Safe(r)
    BY <1>5 DEF AssignWrite, SafeInv, CheckedSafe, Past
  <2>2. \A u \in User : member'[u] = member[u] \/ member'[u] = req[p].roles
    BY <1>5 DEF AssignWrite, TypeOK
  <2>3. req[p].roles \subseteq Role BY DEF TypeOK, RequestState
  <2>4. status' = status BY <1>5 DEF AssignWrite
  <2> QED BY <1>0, <2>1, <2>2, <2>3, <2>4 DEF TypeOK, SafeInv, MemberSafe
<1> QED BY <1>1, <1>2, <1>3, <1>4, <1>5
        DEF Proceed, Check, DeleteSnapshot, PutDelete, PutInsert, roles

(* The rows another replacement has not found are safe, whoever wrote them. *)
LEMMA UnseenSafe ==
    ASSUME TypeOK, Named, SafeInv, NEW p \in Request, Proceed(p),
           NEW q \in Request \ {p}, req[q].pc = "insert"
    PROVE  Unseen(q)' \subseteq ceiling
<1>0. Unseen(q) \subseteq ceiling /\ req[q].role \in Role
  BY DEF SafeInv, CheckedSafe, Past, Named
<1>1. CASE perms'[req[q].role] = perms[req[q].role] /\ req'[q] = req[q]
  BY <1>0, <1>1 DEF Unseen
<1>2. CASE perms'[req[q].role] \subseteq ceiling
  <2>1. req'[q].role = req[q].role
    <3>1. CASE req'[q] = req[q] BY <3>1
    <3>2. CASE req'[q] = [req[q] EXCEPT !.seen = @ \ req[p].seen]
      BY <3>2 DEF TypeOK, RequestState
    <3> QED BY <3>1, <3>2, OthersKept
  <2> QED BY <1>2, <2>1 DEF Unseen
<1>3. CASE req'[q] # req[q]
  <2>1. PutInsert(p) /\ req'[q] = [req[q] EXCEPT !.seen = @ \ req[p].seen]
        /\ req[q].role = req[p].role /\ perms' = [perms EXCEPT ![req[p].role] =
                                             Unseen(p) \cup req[p].perms]
    BY <1>3 DEF TypeOK, Proceed, Check, CreateWrite, UpdateWrite, DeleteSnapshot,
                DeleteWrite, PutDelete, PutInsert, AssignWrite, Done, Forget
  <2>2. req[p].perms \subseteq ceiling /\ Unseen(p) \subseteq ceiling
    BY <2>1 DEF PutInsert, SafeInv, CheckedSafe, Past, Named
  <2>3. perms'[req[q].role] \subseteq ceiling
    BY <1>0, <2>1, <2>2 DEF TypeOK
  <2> QED BY <1>2, <2>3
<1> QED BY <1>0, <1>1, <1>2, <1>3, WritesSafe

(* What was checked on the pool is still safe when it is written. *)
LEMMA CheckedSafeProceed ==
    ASSUME TypeOK, Named, SafeInv, NEW p \in Request, Proceed(p)
    PROVE  CheckedSafe'
<1>0. \A r \in Role : Safe(r) => Safe(r)'
  BY WritesSafe DEF Safe
<1>c. ceiling' = ceiling BY WritesSafe
<1>1. ASSUME NEW q \in Request \ {p}, Past(q)'
      PROVE  /\ req'[q].op \in {"create", "put"} => req'[q].perms \subseteq ceiling'
             /\ req'[q].op = "activate" => Safe(req[q].role)'
             /\ req'[q].op = "assign" => \A r \in req'[q].roles : Safe(r)'
             /\ req'[q].pc = "insert" => Unseen(q)' \subseteq ceiling'
  <2>1. /\ req'[q].pc = req[q].pc /\ req'[q].op = req[q].op
        /\ req'[q].perms = req[q].perms /\ req'[q].role = req[q].role
        /\ req'[q].roles = req[q].roles
    <3>1. CASE req'[q] = req[q] BY <3>1
    <3>2. CASE req'[q] = [req[q] EXCEPT !.seen = @ \ req[p].seen]
      BY <3>2 DEF TypeOK, RequestState
    <3> QED BY <3>1, <3>2, OthersKept
  <2>2. Past(q) BY <1>1, <2>1 DEF Past
  <2>3. req[q].op = "activate" => req[q].role \in Role
    BY <2>2 DEF Named, Past
  <2>4. req[q].roles \subseteq Role BY DEF TypeOK, RequestState
  <2> QED BY <1>0, <1>c, <2>1, <2>2, <2>3, <2>4, UnseenSafe
           DEF SafeInv, CheckedSafe, Safe
<1>2. ASSUME Past(p)'
      PROVE  /\ req'[p].op \in {"create", "put"} => req'[p].perms \subseteq ceiling'
             /\ req'[p].op = "activate" => Safe(req[p].role)'
             /\ req'[p].op = "assign" => \A r \in req'[p].roles : Safe(r)'
             /\ req'[p].pc = "insert" => Unseen(p)' \subseteq ceiling'
  <2>1. CASE /\ req[p].pc = "admitted" /\ Valid(req[p])
             /\ req'[p] = [req[p] EXCEPT !.pc = "checked"]
    <3>1. /\ req'[p].pc = "checked" /\ req'[p].op = req[p].op
          /\ req'[p].perms = req[p].perms /\ req'[p].role = req[p].role
          /\ req'[p].roles = req[p].roles
      BY <2>1 DEF TypeOK, RequestState
    <3>2. req[p].op = "activate" => req[p].role \in Role BY <2>1 DEF Named
    <3>3. req[p].roles \subseteq Role BY DEF TypeOK, RequestState
    <3> QED BY <1>0, <1>c, <2>1, <3>1, <3>2, <3>3, ValidSafe DEF Safe
  <2>2. CASE /\ req[p].pc = "checked" /\ req[p].op = "delete"
             /\ req'[p] = [req[p] EXCEPT !.pc = "remove"]
    BY <2>2 DEF TypeOK, RequestState
  <2>3. CASE /\ req[p].pc = "checked" /\ req[p].op = "put"
             /\ req'[p] = [req[p] EXCEPT !.pc = "insert", !.seen = perms[req[p].role]]
    <3>1. /\ req'[p].pc = "insert" /\ req'[p].op = "put" /\ req'[p].perms = req[p].perms
          /\ req'[p].role = req[p].role /\ req'[p].seen = perms[req[p].role]
      BY <2>3 DEF TypeOK, RequestState
    <3>2. PutDelete(p)
      BY <2>3, <3>1, IdleTyped DEF Proceed, Check, CreateWrite, UpdateWrite,
         DeleteSnapshot, DeleteWrite, PutInsert, AssignWrite, Done, Forget
    <3>3. Unseen(p)' = {}
      BY <3>1, <3>2 DEF Unseen, PutDelete, roles
    <3> QED BY <1>c, <2>3, <3>1, <3>3 DEF SafeInv, CheckedSafe, Past
  <2> QED BY <1>2, <2>1, <2>2, <2>3, OwnMoves, IdleTyped DEF Past
<1> QED BY <1>1, <1>2 DEF CheckedSafe

(* Admission writes nothing but the token. *)
LEMMA SafeAdmit ==
    ASSUME TypeOK, Named, SafeInv, NEW p \in Request, NEW s \in Session,
           NEW t \in Token \cup {None}, NEW o \in Submissions(s), Admit(p, s, t, o)
    PROVE  SafeInv'
<1>1. o \in RequestState BY SubmissionTyped
<1>2. req'[p].pc = "admitted" BY <1>1 DEF Admit, TypeOK, RequestState
<1>3. \A q \in Request \ {p} : req'[q] = req[q] BY DEF Admit, TypeOK
<1>4. UNCHANGED <<status, perms, member, ceiling>> BY DEF Admit, roles
<1>5. MemberSafe' BY <1>4 DEF SafeInv, MemberSafe, Safe
<1>6. CheckedSafe'
  BY <1>2, <1>3, <1>4 DEF SafeInv, CheckedSafe, Past, Safe, Unseen
<1> QED BY <1>5, <1>6 DEF SafeInv

(* SafeInv is inductive. *)
LEMMA SafeNext == TypeOK /\ Named /\ SafeInv /\ [Next]_vars => SafeInv'
<1> SUFFICES ASSUME TypeOK, Named, SafeInv, [Next]_vars PROVE SafeInv'
  OBVIOUS
<1>1. CASE UNCHANGED <<roles, req, ceiling>>
  BY <1>1 DEF roles, SafeInv, MemberSafe, CheckedSafe, Past, Safe, Unseen
<1>2. ASSUME NEW p \in Request, Proceed(p) PROVE SafeInv'
  BY <1>2, MemberSafeProceed, CheckedSafeProceed DEF SafeInv
<1> QED
  BY <1>1, <1>2, SafeAdmit DEF Next, vars, Reauthenticate, IssueToken, Unlock,
                                ExpireToken, Relock

(* services/roles.rs:406 and services/users.rs:611 over time, for every    *)
(* catalogue of roles and any number of users and overlapping requests:    *)
(* the users never hold a permission that none of them held at the start.  *)
THEOREM NeverEscalates == Spec => []NoEscalation
<1>1. Spec => [](TypeOK /\ Named /\ SafeInv)
  BY TypeInit, TypeNext, NamedInit, NamedNext, SafeInit, SafeNext, PTL DEF Spec
<1>2. TypeOK /\ SafeInv => NoEscalation BY HeldSafe DEF SafeInv
<1> QED BY <1>1, <1>2, PTL

-----------------------------------------------------------------------------
(* DependenciesHold.  What a replacement leaves of a role is what none of  *)
(* the replacements under way has found: the invariant speaks of every set *)
(* of them at once, the empty one included.                                *)
Left(r, S) == {x \in perms[r] : \A q \in S : x \notin req[q].seen}

Inserting(r) == {q \in Request : req[q].pc = "insert" /\ req[q].role = r}

LeftClosed ==
    \A r \in Role : \A S \in SUBSET Inserting(r) : Dependencies(Left(r, S))

(* A role whose permissions are being replaced has its row, or lost it     *)
(* with all of its permissions.                                            *)
CheckedClosed ==
    \A p \in Request : Past(p) =>
        /\ req[p].op \in {"create", "put"} => Dependencies(req[p].perms)
        /\ req[p].op = "put" =>
              \/ Exists(req[p].role)
              \/ status[req[p].role] = "deleted" /\ perms[req[p].role] = {}
        /\ req[p].pc = "insert" /\ Exists(req[p].role) =>
              req[p].seen \subseteq perms[req[p].role]

DepInv == LeftClosed /\ CheckedClosed

(* The empty set of replacements gives the property itself. *)
LEMMA DepInvHolds == DepInv => DependenciesHold
<1> SUFFICES ASSUME DepInv, NEW r \in Role PROVE Dependencies(perms[r])
  BY DEF DependenciesHold, Dependencies
<1>1. Dependencies(Left(r, {})) BY DEF DepInv, LeftClosed
<1>2. Left(r, {}) = perms[r] BY DEF Left
<1> QED BY <1>1, <1>2

(* The roles to start from keep their dependencies. *)
LEMMA DepInit == Init => DepInv
<1> SUFFICES ASSUME Init PROVE DepInv OBVIOUS
<1>1. \A r \in Role : Dependencies(perms[r])
  BY GrantsAssumption DEF Init, Dependencies
<1>2. \A r \in Role : Inserting(r) = {}
  BY IdleTyped DEF Init, Inserting
<1>3. \A r \in Role : Left(r, {}) = perms[r] BY DEF Left
<1>4. LeftClosed
  <2> SUFFICES ASSUME NEW r \in Role, NEW S \in SUBSET Inserting(r)
               PROVE  Dependencies(Left(r, S))
    BY DEF LeftClosed
  <2>1. S = {} BY <1>2
  <2> QED BY <1>1, <1>3, <2>1
<1>5. CheckedClosed BY IdleTyped DEF Init, CheckedClosed, Past
<1> QED BY <1>4, <1>5 DEF DepInv

(* Lists that keep the dependencies keep them together. *)
LEMMA ClosedUnion ==
    ASSUME NEW A, NEW B, Dependencies(A), Dependencies(B)
    PROVE  Dependencies(A \cup B)
BY DEF Dependencies

(* A step that leaves the permissions and the replacements under way as    *)
(* they were.                                                              *)
LEMMA LeftKept ==
    ASSUME LeftClosed, NEW r \in Role, perms'[r] = perms[r],
           NEW S \in SUBSET Inserting(r),
           \A q \in S : req'[q].seen = req[q].seen
    PROVE  Dependencies({x \in perms'[r] : \A q \in S : x \notin req'[q].seen})
<1>1. {x \in perms'[r] : \A q \in S : x \notin req'[q].seen} = Left(r, S)
  BY DEF Left
<1> QED BY <1>1 DEF LeftClosed

(* Whether the INSERTs of a replacement go through. *)
Inserts(p) ==
    /\ req[p].perms \cap Unseen(p) = {}
    /\ Exists(req[p].role) \/ req[p].perms = {}

(* assign_permissions itself: beside the rows that neither it nor the      *)
(* others have found stand those it inserts, and the others will not find  *)
(* these either.                                                           *)
LEMMA LeftInsert ==
    ASSUME TypeOK, Named, DepInv, NEW p \in Request, PutInsert(p), Inserts(p),
           NEW S \in SUBSET Inserting(req[p].role), p \notin S
    PROVE  Dependencies({x \in perms'[req[p].role] : \A q \in S : x \notin req'[q].seen})
<1> DEFINE r == req[p].role
<1>0. r \in Role /\ req[p].op = "put" /\ req[p].pc = "insert"
  BY DEF PutInsert, Named
<1>1. /\ perms'[r] = Unseen(p) \cup req[p].perms
      /\ req[p].perms \cap Unseen(p) = {}
      /\ Exists(r) \/ req[p].perms = {}
      /\ Forget(p)
  BY <1>0 DEF PutInsert, Inserts, TypeOK
<1>2. \A q \in S : req'[q].seen = req[q].seen \ req[p].seen
  BY <1>1 DEF Forget, Inserting, TypeOK, RequestState
<1>3. \A q \in S : Exists(r) => req[q].seen \subseteq perms[r]
  BY DEF DepInv, CheckedClosed, Past, Inserting
<1>4. \A x \in req[p].perms, q \in S : x \notin req'[q].seen
  BY <1>1, <1>2, <1>3 DEF Unseen
<1>5. {x \in perms'[r] : \A q \in S : x \notin req'[q].seen}
        = Left(r, S \cup {p}) \cup req[p].perms
  BY <1>1, <1>2, <1>4 DEF Left, Unseen
<1>6. Dependencies(Left(r, S \cup {p}))
  <2>1. S \cup {p} \in SUBSET Inserting(r) BY <1>0 DEF Inserting
  <2> QED BY <1>0, <2>1 DEF DepInv, LeftClosed
<1>7. Dependencies(req[p].perms)
  BY <1>0 DEF DepInv, CheckedClosed, Past
<1> QED BY <1>5, <1>6, <1>7, ClosedUnion

(* Every statement of a request keeps LeftClosed. *)
LEMMA LeftProceed ==
    ASSUME TypeOK, Named, DepInv, NEW p \in Request, Proceed(p)
    PROVE  LeftClosed'
<1> SUFFICES ASSUME NEW r \in Role, NEW S \in SUBSET Inserting(r)'
             PROVE  Dependencies({x \in perms'[r] : \A q \in S : x \notin req'[q].seen})
  BY DEF LeftClosed, Left, Dependencies
<1>0. \A q \in S \ {p} : q \in Inserting(r)
  <2> SUFFICES ASSUME NEW q \in S \ {p} PROVE q \in Inserting(r) OBVIOUS
  <2>1. q \in Request \ {p} /\ req'[q].pc = "insert" /\ req'[q].role = r
    BY DEF Inserting
  <2>2. CASE req'[q] = req[q] BY <2>1, <2>2 DEF Inserting
  <2>3. CASE req'[q] = [req[q] EXCEPT !.seen = @ \ req[p].seen]
    BY <2>1, <2>3 DEF Inserting, TypeOK, RequestState
  <2> QED BY <2>1, <2>2, <2>3, OthersKept
<1>1. CASE p \in S
  <2>1. req'[p].pc = "insert" /\ req'[p].role = r BY <1>1 DEF Inserting
  <2>2. PutDelete(p)
    <3>1. req'[p] # Idle BY <2>1, IdleTyped
    <3>2. CASE Check(p)
      BY <2>1, <3>1, <3>2 DEF Check, TypeOK, RequestState
    <3>3. CASE DeleteSnapshot(p)
      BY <2>1, <3>1, <3>3 DEF DeleteSnapshot, TypeOK, RequestState
    <3> QED BY <3>1, <3>2, <3>3 DEF Proceed, CreateWrite, UpdateWrite, DeleteWrite,
               PutInsert, AssignWrite, Done, Forget, TypeOK
  <2>3. req'[p].seen = perms[req[p].role] /\ req'[p].role = req[p].role
    BY <2>2 DEF PutDelete, TypeOK, RequestState
  <2>4. perms' = perms BY <2>2 DEF PutDelete, roles
  <2>5. {x \in perms'[r] : \A q \in S : x \notin req'[q].seen} = {}
    BY <1>1, <2>1, <2>3, <2>4
  <2> QED BY <2>5 DEF Dependencies
<1>2. CASE p \notin S
  <2>0. S \in SUBSET Inserting(r) BY <1>0, <1>2
  <2>1. CASE PutInsert(p) /\ Inserts(p)
    <3>1. CASE r = req[p].role
      BY <1>2, <2>0, <2>1, <3>1, LeftInsert
    <3>2. CASE r # req[p].role
      <4>1. perms'[r] = perms[r] BY <2>1, <3>2 DEF PutInsert, Inserts, TypeOK
      <4>2. \A q \in S : req'[q].seen = req[q].seen
        BY <1>2, <2>0, <2>1, <3>2 DEF PutInsert, Inserts, Forget, Inserting, TypeOK
      <4> QED BY <2>0, <4>1, <4>2, LeftKept DEF DepInv
    <3> QED BY <3>1, <3>2
  <2>2. ASSUME NEW z \in Role, CreateWrite(p, z), z = r
        PROVE  Dependencies({x \in perms'[r] : \A q \in S : x \notin req'[q].seen})
    <3>1. S = {}
      BY <2>0, <2>2 DEF CreateWrite, DepInv, CheckedClosed, Past, Inserting, Named, Exists
    <3>2. perms'[r] = req[p].perms BY <2>2 DEF CreateWrite, TypeOK
    <3>3. Dependencies(req[p].perms)
      BY <2>2 DEF CreateWrite, DepInv, CheckedClosed, Past
    <3>4. {x \in perms'[r] : \A q \in S : x \notin req'[q].seen} = req[p].perms
      BY <3>1, <3>2
    <3> QED BY <3>3, <3>4
  <2>3. CASE DeleteWrite(p) /\ perms'[r] = {}
    <3>1. {x \in perms'[r] : \A q \in S : x \notin req'[q].seen} = {} BY <2>3
    <3> QED BY <3>1 DEF Dependencies
  <2>4. CASE perms'[r] = perms[r] /\ ~(PutInsert(p) /\ Inserts(p))
    <3>1. \A q \in S : req'[q].seen = req[q].seen
      BY <1>2, <2>0, <2>4 DEF Proceed, Check, CreateWrite, UpdateWrite, DeleteSnapshot,
         DeleteWrite, PutDelete, PutInsert, AssignWrite, Done, Inserts, Inserting, TypeOK
    <3> QED BY <2>0, <2>4, <3>1, LeftKept DEF DepInv
  <2>5. \/ perms'[r] = perms[r]
        \/ PutInsert(p) /\ Inserts(p)
        \/ \E z \in Role : CreateWrite(p, z) /\ z = r
        \/ DeleteWrite(p) /\ perms'[r] = {}
    BY DEF Proceed, Check, CreateWrite, UpdateWrite, DeleteSnapshot, DeleteWrite,
           PutDelete, PutInsert, AssignWrite, Inserts, TypeOK, roles
  <2> QED BY <2>1, <2>2, <2>3, <2>4, <2>5
<1> QED BY <1>1, <1>2

(* A role that a replacement is for keeps its row, or loses it with all of *)
(* its permissions.                                                        *)
LEMMA RoleStays ==
    ASSUME TypeOK, Named, DepInv, NEW p \in Request, Proceed(p), NEW r \in Role,
           \/ Exists(r)
           \/ status[r] = "deleted" /\ perms[r] = {}
    PROVE  /\ Exists(r)' \/ (status'[r] = "deleted" /\ perms'[r] = {})
           /\ Exists(r)' => Exists(r)
<1>1. ASSUME NEW z \in Role, CreateWrite(p, z)
      PROVE  /\ Exists(r)' \/ (status'[r] = "deleted" /\ perms'[r] = {})
             /\ Exists(r)' => Exists(r)
  BY <1>1 DEF CreateWrite, Exists, TypeOK
<1>2. CASE UpdateWrite(p)
  BY <1>2 DEF UpdateWrite, Exists, TypeOK
<1>3. CASE DeleteWrite(p)
  BY <1>3 DEF DeleteWrite, Exists, TypeOK, roles
<1>4. CASE PutInsert(p)
  <2>1. status' = status BY <1>4 DEF PutInsert
  <2>2. CASE Exists(r) BY <2>1, <2>2 DEF Exists
  <2>3. CASE status[r] = "deleted" /\ perms[r] = {}
    <3>1. perms'[r] = {} BY <1>4, <2>3 DEF PutInsert, Unseen, Exists, TypeOK
    <3> QED BY <2>1, <2>3, <3>1 DEF Exists
  <2> QED BY <2>2, <2>3
<1>5. CASE UNCHANGED <<status, perms>> BY <1>5 DEF Exists
<1> QED BY <1>1, <1>2, <1>3, <1>4, <1>5
        DEF Proceed, Check, DeleteSnapshot, PutDelete, AssignWrite, roles

(* The rows a replacement has found are there until it deletes them, or    *)
(* another replacement does.                                               *)
LEMMA SeenStays ==
    ASSUME TypeOK, Named, DepInv, NEW p \in Request, Proceed(p), NEW r \in Role,
           NEW q \in Request \ {p}, req[q].pc = "insert", req[q].role = r, Exists(r)'
    PROVE  req'[q].seen \subseteq perms'[r]
<1>0. Past(q) /\ req[q].op = "put" BY DEF Named, Past
<1>1. Exists(r) BY <1>0, RoleStays DEF DepInv, CheckedClosed
<1>2. req[q].seen \subseteq perms[r] BY <1>0, <1>1 DEF DepInv, CheckedClosed
<1>3. CASE PutInsert(p) /\ Inserts(p)
  <2>1. CASE req[p].role = r
    <3>1. perms'[r] = Unseen(p) \cup req[p].perms
      BY <1>3, <2>1 DEF PutInsert, Inserts, TypeOK
    <3>2. req'[q].seen = req[q].seen \ req[p].seen
      BY <1>3, <2>1 DEF PutInsert, Inserts, Forget, TypeOK, RequestState
    <3> QED BY <1>2, <2>1, <3>1, <3>2 DEF Unseen
  <2>2. CASE req[p].role # r
    <3>1. perms'[r] = perms[r] /\ req'[q] = req[q]
      BY <1>3, <2>2 DEF PutInsert, Inserts, Forget, TypeOK
    <3> QED BY <1>2, <3>1
  <2> QED BY <2>1, <2>2
<1>4. CASE ~(PutInsert(p) /\ Inserts(p))
  <2>1. req'[q] = req[q]
    BY <1>4 DEF Proceed, Check, CreateWrite, UpdateWrite, DeleteSnapshot, DeleteWrite,
                PutDelete, PutInsert, AssignWrite, Done, Inserts, TypeOK
  <2>2. perms'[r] = perms[r]
    <3>1. ASSUME NEW z \in Role, CreateWrite(p, z) PROVE perms'[r] = perms[r]
      BY <1>1, <3>1 DEF CreateWrite, Exists, TypeOK
    <3>2. CASE DeleteWrite(p)
      <4>1. req[p].role # r
        BY <1>1, <3>2 DEF DeleteWrite, Exists, TypeOK
      <4> QED BY <3>2, <4>1 DEF DeleteWrite, TypeOK, roles
    <3> QED
      BY <1>4, <3>1, <3>2 DEF Proceed, Check, UpdateWrite, DeleteSnapshot, PutDelete,
                              PutInsert, AssignWrite, Inserts, roles
  <2> QED BY <1>2, <2>1, <2>2
<1> QED BY <1>3, <1>4

(* Every statement of a request keeps CheckedClosed. *)
LEMMA CheckedClosedProceed ==
    ASSUME TypeOK, Named, DepInv, NEW p \in Request, Proceed(p)
    PROVE  CheckedClosed'
<1> DEFINE Ok(q, r) ==
      /\ req'[q].op \in {"create", "put"} => Dependencies(req'[q].perms)
      /\ req'[q].op = "put" => Exists(r)' \/ (status'[r] = "deleted" /\ perms'[r] = {})
      /\ req'[q].pc = "insert" /\ Exists(r)' => req'[q].seen \subseteq perms'[r]
<1>1. ASSUME NEW q \in Request \ {p}, Past(q)', NEW r, r = req'[q].role PROVE Ok(q, r)
  <2>1. /\ req'[q].pc = req[q].pc /\ req'[q].op = req[q].op
        /\ req'[q].perms = req[q].perms /\ req'[q].role = req[q].role
    <3>1. CASE req'[q] = req[q] BY <3>1
    <3>2. CASE req'[q] = [req[q] EXCEPT !.seen = @ \ req[p].seen]
      BY <3>2 DEF TypeOK, RequestState
    <3> QED BY <3>1, <3>2, OthersKept
  <2>2. Past(q) BY <1>1, <2>1 DEF Past
  <2>3. CASE req[q].op = "put"
    <3>1. r \in Role BY <1>1, <2>1, <2>2, <2>3 DEF Named, Past
    <3>2. Exists(r) \/ (status[r] = "deleted" /\ perms[r] = {})
      BY <1>1, <2>1, <2>2, <2>3 DEF DepInv, CheckedClosed
    <3>3. Dependencies(req[q].perms)
      BY <2>2, <2>3 DEF DepInv, CheckedClosed
    <3>4. req'[q].pc = "insert" /\ Exists(r)' => req'[q].seen \subseteq perms'[r]
      BY <1>1, <2>1, <3>1, SeenStays
    <3> QED BY <2>1, <2>3, <3>1, <3>2, <3>3, <3>4, RoleStays
  <2>4. CASE req[q].op # "put"
    <3>1. req'[q].pc # "insert" BY <2>1, <2>2, <2>4 DEF Named, Past
    <3>2. req[q].op = "create" => Dependencies(req[q].perms)
      BY <2>2 DEF DepInv, CheckedClosed
    <3> QED BY <2>1, <2>4, <3>1, <3>2
  <2> QED BY <2>3, <2>4
<1>2. ASSUME Past(p)', NEW r, r = req'[p].role PROVE Ok(p, r)
  <2>1. CASE /\ req[p].pc = "admitted" /\ Valid(req[p])
             /\ req'[p] = [req[p] EXCEPT !.pc = "checked"]
    <3>1. /\ req'[p].pc = "checked" /\ req'[p].op = req[p].op
          /\ req'[p].perms = req[p].perms /\ req'[p].role = req[p].role
      BY <2>1 DEF TypeOK, RequestState
    <3>2. req[p].op \in {"create", "put"} => Dependencies(req[p].perms)
      BY <2>1 DEF Valid, MayPut
    <3>3. ASSUME req[p].op = "put" PROVE Exists(r) /\ r \in Role
      BY <1>2, <2>1, <3>1, <3>3 DEF Valid, Named
    <3> QED BY <3>1, <3>2, <3>3, RoleStays
  <2>2. CASE /\ req[p].pc = "checked" /\ req[p].op = "delete"
             /\ req'[p] = [req[p] EXCEPT !.pc = "remove"]
    BY <2>2 DEF TypeOK, RequestState
  <2>3. CASE /\ req[p].pc = "checked" /\ req[p].op = "put"
             /\ req'[p] = [req[p] EXCEPT !.pc = "insert", !.seen = perms[req[p].role]]
    <3>1. /\ req'[p].pc = "insert" /\ req'[p].op = "put" /\ req'[p].perms = req[p].perms
          /\ req'[p].role = req[p].role /\ req'[p].seen = perms[req[p].role]
      BY <2>3 DEF TypeOK, RequestState
    <3>2. PutDelete(p)
      BY <2>3, <3>1, IdleTyped DEF Proceed, Check, CreateWrite, UpdateWrite,
         DeleteSnapshot, DeleteWrite, PutInsert, AssignWrite, Done, Forget
    <3>3. perms' = perms BY <3>2 DEF PutDelete, roles
    <3>4. /\ Dependencies(req[p].perms)
          /\ Exists(r) \/ (status[r] = "deleted" /\ perms[r] = {})
      BY <1>2, <2>3, <3>1 DEF DepInv, CheckedClosed, Past
    <3>5. r \in Role BY <1>2, <2>3, <3>1 DEF Named
    <3> QED BY <1>2, <3>1, <3>3, <3>4, <3>5, RoleStays
  <2> QED BY <1>2, <2>1, <2>2, <2>3, OwnMoves, IdleTyped DEF Past
<1>3. ASSUME NEW q \in Request, Past(q)', NEW r, r = req'[q].role PROVE Ok(q, r)
  <2>1. CASE q = p
    <3>1. Past(p)' /\ r = req'[p].role BY <1>3, <2>1
    <3>2. Ok(p, r) BY <1>2, <3>1
    <3> QED BY <2>1, <3>2
  <2>2. CASE q # p
    <3>1. q \in Request \ {p} BY <2>2
    <3> QED BY <1>1, <1>3, <3>1
  <2> QED BY <2>1, <2>2
<1>4. ASSUME NEW q \in Request, Past(q)'
      PROVE  /\ req'[q].op \in {"create", "put"} => Dependencies(req[q].perms)'
             /\ req'[q].op = "put" =>
                   \/ Exists(req[q].role)'
                   \/ status'[req'[q].role] = "deleted" /\ perms'[req'[q].role] = {}
             /\ req'[q].pc = "insert" /\ Exists(req[q].role)' =>
                   req'[q].seen \subseteq perms'[req'[q].role]
  <2>1. PICK r : r = req'[q].role OBVIOUS
  <2>2. Ok(q, r) BY <1>3, <1>4, <2>1
  <2> QED BY <2>1, <2>2 DEF Exists, Dependencies
<1> QED BY <1>4 DEF CheckedClosed

(* DepInv is inductive. *)
LEMMA DepNext == TypeOK /\ Named /\ DepInv /\ [Next]_vars => DepInv'
<1> SUFFICES ASSUME TypeOK, Named, DepInv, [Next]_vars PROVE DepInv'
  OBVIOUS
<1>1. CASE UNCHANGED <<roles, req>>
  <2>1. LeftClosed'
    BY <1>1 DEF DepInv, LeftClosed, Left, Inserting, Dependencies, roles
  <2>2. CheckedClosed'
    BY <1>1 DEF DepInv, CheckedClosed, Past, Dependencies, Exists, roles
  <2> QED BY <2>1, <2>2 DEF DepInv
<1>2. ASSUME NEW p \in Request, NEW s \in Session, NEW t \in Token \cup {None},
             NEW o \in Submissions(s), Admit(p, s, t, o)
      PROVE  DepInv'
  <2>1. o \in RequestState BY SubmissionTyped
  <2>2. req'[p].pc = "admitted" BY <1>2, <2>1 DEF Admit, TypeOK, RequestState
  <2>3. \A q \in Request \ {p} : req'[q] = req[q] BY <1>2 DEF Admit, TypeOK
  <2>4. UNCHANGED <<status, perms>> BY <1>2 DEF Admit, roles
  <2>5. LeftClosed'
    <3> SUFFICES ASSUME NEW r \in Role, NEW S \in SUBSET Inserting(r)'
                 PROVE  Dependencies({x \in perms'[r] : \A q \in S : x \notin req'[q].seen})
      BY DEF LeftClosed, Left, Dependencies
    <3>1. p \notin S BY <2>2 DEF Inserting
    <3>2. S \in SUBSET Inserting(r) BY <2>3, <3>1 DEF Inserting
    <3>3. \A q \in S : req'[q].seen = req[q].seen BY <2>3, <3>1, <3>2 DEF Inserting
    <3> QED BY <2>4, <3>2, <3>3, LeftKept DEF DepInv
  <2>6. CheckedClosed'
    BY <2>2, <2>3, <2>4 DEF DepInv, CheckedClosed, Past, Dependencies, Exists
  <2> QED BY <2>5, <2>6 DEF DepInv
<1>3. ASSUME NEW p \in Request, Proceed(p) PROVE DepInv'
  BY <1>3, LeftProceed, CheckedClosedProceed DEF DepInv
<1> QED
  BY <1>1, <1>2, <1>3 DEF Next, vars, Reauthenticate, IssueToken, Unlock,
                          ExpireToken, Relock

(* services/roles.rs:374 and 381, however many replacements of one role    *)
(* overlap and whatever they leave of one another: a role that has a       *)
(* permission has those it depends on.                                     *)
THEOREM DependenciesKept == Spec => []DependenciesHold
<1>1. Spec => [](TypeOK /\ Named /\ DepInv)
  BY TypeInit, TypeNext, NamedInit, NamedNext, DepInit, DepNext, PTL DEF Spec
<1> QED BY <1>1, DepInvHolds, PTL

-----------------------------------------------------------------------------
(* TokenBacksOne.  A token that a request carries is spent, has backed     *)
(* nothing yet and is carried by no other; one that has backed a change is *)
(* spent as well, so the UPDATE of step_up::consume finds it no more.      *)
Spent(t) == tokens[t] # None /\ tokens[t].state = "consumed"

Carried ==
    \A p \in Request : req[p].token # None =>
        LET t == req[p].token IN
        /\ req[p].pc # "idle"
        /\ Spent(t)
        /\ tokens[t].session = req[p].session
        /\ tokens[t].scope = ScopeOf(req[p].op)
        /\ backs[t] = 0
        /\ \A q \in Request \ {p} : req[q].token # t

Carries ==
    \A p \in Request : req[p].pc # "idle" /\ NeedsStepUp(req[p].op, req[p].perms)
                       => req[p].token # None

Backed == \A t \in Token : backs[t] <= 1 /\ (backs[t] # 0 => Spent(t))

TokenInv == Carried /\ Carries /\ Backed

(* The invariant gives the property. *)
LEMMA TokenInvHolds == TokenInv => TokenBacksOne
BY DEF TokenInv, Carried, Carries, Backed, Spent, TokenBacksOne

(* No token is issued at the start. *)
LEMMA TokenInit == Init => TokenInv
BY IdleTyped DEF Init, TokenInv, Carried, Carries, Backed

(* A token no request carries and that backs nothing may change. *)
LEMMA TokenFree ==
    ASSUME TypeOK, TokenInv, NEW t \in Token, ~Spent(t),
           NEW row, tokens' = [tokens EXCEPT ![t] = row], UNCHANGED <<req, backs>>
    PROVE  TokenInv'
<1>1. \A p \in Request : req[p].token # t
  BY GrantsAssumption DEF TokenInv, Carried
<1>2. backs[t] = 0 BY DEF TokenInv, Backed
<1>3. \A z \in Token : z # t => tokens'[z] = tokens[z] BY DEF TypeOK
<1>4. \A p \in Request : req[p].token \in Token \cup {None} BY DEF TypeOK, RequestState
<1>5. Carried' BY <1>1, <1>3, <1>4 DEF TokenInv, Carried, Spent
<1>6. Carries' BY DEF TokenInv, Carries
<1>7. Backed' BY <1>2, <1>3 DEF TokenInv, Backed, Spent
<1> QED BY <1>5, <1>6, <1>7 DEF TokenInv

(* step_up::consume: only a token that is not spent is taken. *)
LEMMA TokenAdmit ==
    ASSUME TypeOK, TokenInv, NEW p \in Request, NEW s \in Session,
           NEW t \in Token \cup {None}, NEW o \in Submissions(s), Admit(p, s, t, o)
    PROVE  TokenInv'
<1>0. o \in RequestState BY SubmissionTyped
<1>1. /\ req'[p].pc = "admitted" /\ req'[p].session = s /\ req'[p].token = t
      /\ req'[p].op = o.op /\ req'[p].perms = o.perms
  BY <1>0 DEF Admit, TypeOK, RequestState
<1>2. \A q \in Request \ {p} : req'[q] = req[q] BY DEF Admit, TypeOK
<1>3. backs' = backs BY DEF Admit
<1>4. CASE t = None
  <2>1. tokens' = tokens /\ ~NeedsStepUp(o.op, o.perms) BY <1>4 DEF Admit
  <2>2. Carried' BY <1>1, <1>2, <1>3, <1>4, <2>1 DEF TokenInv, Carried, Spent
  <2>3. Carries' BY <1>1, <1>2, <2>1 DEF TokenInv, Carries, NeedsStepUp
  <2>4. Backed' BY <1>3, <2>1 DEF TokenInv, Backed, Spent
  <2> QED BY <2>2, <2>3, <2>4 DEF TokenInv
<1>5. CASE t # None
  <2>1. t \in Token /\ Consumable(t, s, ScopeOf(o.op))
        /\ tokens' = [tokens EXCEPT ![t].state = "consumed"]
    BY <1>5 DEF Admit
  <2>2. ~Spent(t) BY <2>1 DEF Consumable, Spent
  <2>3. (\A q \in Request : req[q].token # t) /\ backs[t] = 0
    BY <2>1, <2>2, GrantsAssumption DEF TokenInv, Carried, Backed
  <2>4. /\ \A z \in Token : z # t => tokens'[z] = tokens[z]
        /\ tokens'[t] # None /\ tokens'[t].state = "consumed"
        /\ tokens'[t].session = s /\ tokens'[t].scope = ScopeOf(o.op)
    <3>1. tokens[t] \in TokenRow BY <2>1 DEF TypeOK, Consumable
    <3>2. [tokens[t] EXCEPT !.state = "consumed"] \in TokenRow BY <3>1 DEF TokenRow
    <3>3. tokens'[t] = [tokens[t] EXCEPT !.state = "consumed"] BY <2>1 DEF TypeOK
    <3>4. /\ tokens'[t].state = "consumed"
          /\ tokens'[t].session = s /\ tokens'[t].scope = ScopeOf(o.op)
      BY <2>1, <3>1, <3>3 DEF Consumable, TokenRow
    <3> QED BY <2>1, <3>2, <3>3, <3>4, RowAssumption DEF TypeOK
  <2>5. \A q \in Request : req[q].token \in Token \cup {None} BY DEF TypeOK, RequestState
  <2>6. Carried'
    BY <1>1, <1>2, <1>3, <2>1, <2>3, <2>4, <2>5 DEF TokenInv, Carried, Spent
  <2>7. Carries' BY <1>1, <1>2, <1>5 DEF TokenInv, Carries, NeedsStepUp
  <2>8. Backed' BY <1>3, <2>3, <2>4 DEF TokenInv, Backed, Spent
  <2> QED BY <2>6, <2>7, <2>8 DEF TokenInv
<1> QED BY <1>4, <1>5

(* A change is counted for its token in the step that ends its request. *)
LEMMA TokenProceed ==
    ASSUME TypeOK, TokenInv, NEW p \in Request, Proceed(p)
    PROVE  TokenInv'
<1>0. tokens' = tokens
  BY DEF Proceed, Check, CreateWrite, UpdateWrite, DeleteSnapshot, DeleteWrite,
         PutDelete, PutInsert, AssignWrite
<1>1. backs' = backs \/ (Count(p) /\ req'[p] = Idle)
  BY DEF Proceed, Check, CreateWrite, UpdateWrite, DeleteSnapshot, DeleteWrite,
         PutDelete, PutInsert, AssignWrite, Done, Forget, TypeOK
<1>2. ASSUME NEW q \in Request \ {p}
      PROVE  /\ req'[q].pc = req[q].pc /\ req'[q].token = req[q].token
             /\ req'[q].session = req[q].session /\ req'[q].op = req[q].op
             /\ req'[q].perms = req[q].perms
  <2>1. CASE req'[q] = req[q] BY <2>1
  <2>2. CASE req'[q] = [req[q] EXCEPT !.seen = @ \ req[p].seen]
    BY <2>2 DEF TypeOK, RequestState
  <2> QED BY <2>1, <2>2, OthersKept
<1>3. \/ req'[p].pc = "idle" /\ req'[p].token = None
      \/ /\ req[p].pc # "idle" /\ req'[p].pc # "idle" /\ req'[p].token = req[p].token
         /\ req'[p].session = req[p].session /\ req'[p].op = req[p].op
         /\ req'[p].perms = req[p].perms
  <2>1. CASE req'[p] = Idle BY <2>1, IdleTyped
  <2>2. CASE /\ req[p].pc = "admitted"
             /\ req'[p] = [req[p] EXCEPT !.pc = "checked"]
    BY <2>2 DEF TypeOK, RequestState
  <2>3. CASE /\ req[p].pc = "checked"
             /\ req'[p] = [req[p] EXCEPT !.pc = "remove"]
    BY <2>3 DEF TypeOK, RequestState
  <2>4. CASE /\ req[p].pc = "checked"
             /\ req'[p] = [req[p] EXCEPT !.pc = "insert", !.seen = perms[req[p].role]]
    BY <2>4 DEF TypeOK, RequestState
  <2> QED BY <2>1, <2>2, <2>3, <2>4, OwnMoves
<1>4. \A q \in Request : req[q].token \in Token \cup {None} BY DEF TypeOK, RequestState
<1>5. ASSUME NEW t \in Token, t # req[p].token \/ backs' = backs PROVE backs'[t] = backs[t]
  BY <1>1, <1>5 DEF Count, TypeOK
<1>6. Carries' BY <1>2, <1>3 DEF TokenInv, Carries, NeedsStepUp
<1>7. Carried'
  <2> SUFFICES ASSUME NEW q \in Request, req'[q].token # None,
                      NEW t \in Token, t = req'[q].token
               PROVE  /\ req'[q].pc # "idle" /\ Spent(t)
                      /\ tokens[t].session = req'[q].session
                      /\ tokens[t].scope = ScopeOf(req'[q].op)
                      /\ backs'[t] = 0
                      /\ \A z \in Request \ {q} : req'[z].token # t
    BY <1>0, <1>2, <1>3, <1>4 DEF Carried, Spent, ScopeOf
  <2>1. /\ req[q].token = t /\ req'[q].pc # "idle" /\ req[q].session = req'[q].session
        /\ req[q].op = req'[q].op
    BY <1>2, <1>3, <1>4 DEF TokenInv, Carried
  <2>2. /\ Spent(t) /\ tokens[t].session = req[q].session
        /\ tokens[t].scope = ScopeOf(req[q].op) /\ backs[t] = 0
        /\ \A z \in Request \ {q} : req[z].token # t
    BY <2>1, <1>4, GrantsAssumption DEF TokenInv, Carried
  <2>3. \A z \in Request \ {q} : req'[z].token # t
    BY <1>2, <1>3, <2>2, GrantsAssumption
  <2>4. backs'[t] = 0
    <3>1. CASE q = p
      <4>1. req'[p] # Idle BY <3>1, IdleTyped
      <4> QED BY <1>1, <2>2, <4>1
    <3>2. CASE q # p BY <1>5, <2>2, <3>2
    <3> QED BY <3>1, <3>2
  <2> QED BY <2>1, <2>2, <2>3, <2>4
<1>8. Backed'
  <2> SUFFICES ASSUME NEW t \in Token
               PROVE  backs'[t] <= 1 /\ (backs'[t] # 0 => Spent(t))
    BY <1>0 DEF Backed, Spent
  <2>1. CASE backs'[t] = backs[t] BY <2>1 DEF TokenInv, Backed
  <2>2. CASE t = req[p].token /\ Count(p)
    <3>1. Spent(t) /\ backs[t] = 0
      BY <2>2, GrantsAssumption DEF TokenInv, Carried
    <3>2. backs'[t] = backs[t] + 1
      BY <2>2, GrantsAssumption DEF Count, TypeOK
    <3> QED BY <3>1, <3>2
  <2> QED BY <1>1, <1>5, <2>1, <2>2
<1> QED BY <1>6, <1>7, <1>8 DEF TokenInv

(* TokenInv is inductive. *)
LEMMA TokenNext == TypeOK /\ TokenInv /\ [Next]_vars => TokenInv'
<1> SUFFICES ASSUME TypeOK, TokenInv, [Next]_vars PROVE TokenInv'
  OBVIOUS
<1>1. CASE UNCHANGED <<tokens, req, backs>>
  BY <1>1 DEF TokenInv, Carried, Carries, Backed, Spent, NeedsStepUp, ScopeOf
<1>2. ASSUME NEW s \in Session, NEW scope \in StepUpScope, NEW t \in Token,
             IssueToken(s, scope, t)
      PROVE  TokenInv'
  BY <1>2, TokenFree DEF IssueToken, Spent
<1>3. ASSUME NEW t \in Token, ExpireToken(t) PROVE TokenInv'
  <2>1. tokens' = [tokens EXCEPT ![t] = [tokens[t] EXCEPT !.state = "expired"]]
    BY <1>3 DEF ExpireToken, TypeOK
  <2> QED BY <1>3, <2>1, TokenFree DEF ExpireToken, Spent
<1> QED
  BY <1>1, <1>2, <1>3, TokenAdmit, TokenProceed
  DEF Next, vars, Reauthenticate, Unlock, Relock

(* services/step_up.rs: a re-authentication backs one change, of its       *)
(* session and of its kind, although the token is spent and committed      *)
(* before the change is checked, and any number of requests may present it *)
(* at once.                                                                *)
THEOREM TokenOnce == Spec => []TokenBacksOne
<1>1. Spec => [](TypeOK /\ Named /\ TokenInv)
  BY TypeInit, TypeNext, NamedInit, NamedNext, TokenInit, TokenNext, PTL DEF Spec
<1> QED BY <1>1, TokenInvHolds, PTL

=============================================================================
