------------------------- MODULE DepartmentsProofs -------------------------
(***************************************************************************)
(* The departments stay consistent, for any departments, users and         *)
(* requests: no reference dangles whatever races, and the departments are  *)
(* a tree until a move is written that was checked before another one.     *)
(*                                                                         *)
(* Above is defined as a least set, so that what is above a department is  *)
(* found by showing a set closed and not by an induction over paths.       *)
(***************************************************************************)
EXTENDS Departments, TLAPS

(* What a request was checked for. *)
Fits(r) ==
    /\ r.pc # "idle" => r.actor \in User
    /\ r.pc = "create" => r.parent \in Dept /\ r.status \in {"active", "inactive"}
    /\ r.pc = "update" => r.dept \in Dept \ {Root}
    /\ r.pc = "delete" => r.dept \in Dept
    /\ r.pc = "assign" => r.dept \in Dept /\ r.member \in User

Submitted == \A p \in Request : Fits(req[p])

RootStays == Exists(Root)

BaseInv == TypeOK /\ Submitted /\ RootStays /\ NoDangling

(* A move that was checked after the last one was written either changes   *)
(* nothing or leads to a department that is not below.                     *)
SafeMove(r) ==
    r.pc = "update" /\ r.parent # None /\ ~r.late /\ Exists(r.dept) /\ Exists(r.parent) =>
        \/ r.parent = parent[r.dept]
        \/ r.parent # r.dept /\ r.dept \notin Above(r.parent)

(* No department of a move is one yet to come. *)
Recorded(r) ==
    r.pc = "update" =>
        status[r.dept] # "absent" /\ (r.parent # None => status[r.parent] # "absent")

MovesChecked == \A p \in Request : SafeMove(req[p]) /\ Recorded(req[p])

TreeInv == raced \/ (IsTree /\ MovesChecked)

-----------------------------------------------------------------------------
(* Types *)

(* A request that is over. *)
LEMMA IdleType ==
  /\ Idle \in RequestState /\ Idle.pc = "idle" /\ Idle.late = FALSE
  BY DEF Idle, RequestState, Pc

(* The flag of a request is set: nothing else of it changes. *)
LEMMA FlagRequest ==
  ASSUME NEW r \in RequestState, NEW b \in BOOLEAN
  PROVE  /\ [r EXCEPT !.late = b] \in RequestState
         /\ [r EXCEPT !.late = b].pc = r.pc /\ [r EXCEPT !.late = b].actor = r.actor
         /\ [r EXCEPT !.late = b].dept = r.dept /\ [r EXCEPT !.late = b].parent = r.parent
         /\ [r EXCEPT !.late = b].status = r.status
         /\ [r EXCEPT !.late = b].member = r.member
         /\ [r EXCEPT !.late = b].late = b
<1>1. [r EXCEPT !.late = b] \in RequestState
  BY ZenonT(60) DEF RequestState
<1>2. QED BY <1>1 DEF RequestState

(* Who sees a department sees one that exists. *)
LEMMA SeenExists ==
  ASSUME BaseInv, NEW u \in User, NEW scope \in Scope, NEW d \in Visible(u, scope)
  PROVE  d \in Dept /\ Exists(d)
<1>1. \A e : \A x \in Below(e) : x \in Dept /\ Exists(x)
  BY DEF Below
<1>2. home[u] # None => home[u] \in Dept /\ Exists(home[u])
  BY DEF BaseInv, TypeOK, NoDangling
<1>3. CASE scope = "organization"
  BY <1>1, <1>3 DEF Visible
<1>4. CASE scope = "department"
  BY <1>2, <1>4 DEF Visible
<1>5. CASE scope = "department_and_children"
  BY <1>1, <1>5 DEF Visible
<1>6. QED BY <1>3, <1>4, <1>5 DEF Scope

(* The first part of a request submits what was checked, and changes       *)
(* nothing else.                                                           *)
LEMMA CheckSubmits ==
  ASSUME BaseInv, NEW p \in Request, NEW u \in User, NEW scope \in Scope,
         Check(p, u, scope)
  PROVE  /\ UNCHANGED <<status, parent, home, gone, logged, raced>>
         /\ \E r \in RequestState :
              req' = [req EXCEPT ![p] = r] /\ Fits(r) /\ SafeMove(r) /\ Recorded(r)
<1> DEFINE see == Visible(u, scope)
           Goal == /\ UNCHANGED <<status, parent, home, gone, logged, raced>>
                   /\ \E r \in RequestState :
                        req' = [req EXCEPT ![p] = r] /\ Fits(r) /\ SafeMove(r) /\ Recorded(r)
<1>0. \A d \in see : d \in Dept /\ Exists(d)
  BY SeenExists
<1>6. ASSUME see = Visible(u, scope) PROVE
      \/ \E up \in Dept, s \in {"active", "inactive"} :
             CreateCheck(p, u, scope, see, up, s)
      \/ \E d \in Dept, up \in Dept \cup {None}, s \in {"active", "inactive", "same"} :
             UpdateCheck(p, u, see, d, up, s)
      \/ \E d \in Dept : DeleteCheck(p, u, see, d)
      \/ \E v \in User, d \in Dept : AssignCheck(p, u, scope, see, v, d)
  BY DEF Check
<1> HIDE DEF see
<1>1. ASSUME NEW up \in Dept, NEW s \in {"active", "inactive"},
             CreateCheck(p, u, scope, see, up, s)
      PROVE  Goal
  <2> DEFINE r == [Idle EXCEPT !.pc = "create", !.actor = u, !.parent = up, !.status = s]
  <2>1. /\ UNCHANGED <<status, parent, home, gone, logged, raced>>
        /\ req' = [req EXCEPT ![p] = r]
    BY <1>1 DEF CreateCheck, Submit, departments, users
  <2>2. /\ r \in RequestState /\ r.pc = "create" /\ r.actor = u /\ r.parent = up /\ r.status = s
    BY DEF Idle, RequestState, Pc
  <2> HIDE DEF r
  <2>3. Fits(r) /\ SafeMove(r) /\ Recorded(r)
    BY <2>2 DEF Fits, SafeMove, Recorded
  <2>4. QED BY <2>1, <2>2, <2>3
<1>2. ASSUME NEW d \in Dept, NEW up \in Dept \cup {None},
             NEW s \in {"active", "inactive", "same"}, UpdateCheck(p, u, see, d, up, s)
      PROVE  Goal
  <2> DEFINE r == [Idle EXCEPT !.pc = "update", !.actor = u, !.dept = d,
                                 !.parent = up, !.status = s]
  <2>1. /\ UNCHANGED <<status, parent, home, gone, logged, raced>>
        /\ req' = [req EXCEPT ![p] = r]
    BY <1>2 DEF UpdateCheck, Submit, departments, users
  <2>2. d # Root
    BY <1>0, <1>2 DEF UpdateCheck, BaseInv, NoDangling
  <2>3. up # None /\ Exists(up) => up = parent[d] \/ (up # d /\ d \notin Above(up))
    BY <1>2 DEF UpdateCheck, NoCycle, Below
  <2>4. status[d] # "absent" /\ (up # None => status[up] # "absent")
    BY <1>0, <1>2, <2>2 DEF UpdateCheck, Usable, BaseInv, TypeOK, NoDangling, Exists
  <2>5. /\ r \in RequestState /\ r.pc = "update" /\ r.actor = u /\ r.parent = up /\ r.dept = d
    BY DEF Idle, RequestState, Pc
  <2> HIDE DEF r
  <2>6. Fits(r) /\ SafeMove(r) /\ Recorded(r)
    BY <2>2, <2>3, <2>4, <2>5 DEF Fits, SafeMove, Recorded
  <2>7. QED BY <2>1, <2>5, <2>6
<1>3. ASSUME NEW d \in Dept, DeleteCheck(p, u, see, d)
      PROVE  Goal
  <2> DEFINE r == [Idle EXCEPT !.pc = "delete", !.actor = u, !.dept = d]
  <2>1. /\ UNCHANGED <<status, parent, home, gone, logged, raced>>
        /\ req' = [req EXCEPT ![p] = r]
    BY <1>3 DEF DeleteCheck, Submit, departments, users
  <2>2. /\ r \in RequestState /\ r.pc = "delete" /\ r.actor = u /\ r.dept = d
    BY DEF Idle, RequestState, Pc
  <2> HIDE DEF r
  <2>3. Fits(r) /\ SafeMove(r) /\ Recorded(r)
    BY <2>2 DEF Fits, SafeMove, Recorded
  <2>4. QED BY <2>1, <2>2, <2>3
<1>4. ASSUME NEW v \in User, NEW d \in Dept, AssignCheck(p, u, scope, see, v, d)
      PROVE  Goal
  <2> DEFINE r == [Idle EXCEPT !.pc = "assign", !.actor = u, !.member = v, !.dept = d]
  <2>1. /\ UNCHANGED <<status, parent, home, gone, logged, raced>>
        /\ req' = [req EXCEPT ![p] = r]
    BY <1>4 DEF AssignCheck, Submit, departments, users
  <2>2. /\ r \in RequestState /\ r.pc = "assign" /\ r.actor = u /\ r.dept = d /\ r.member = v
    BY DEF Idle, RequestState, Pc
  <2> HIDE DEF r
  <2>3. Fits(r) /\ SafeMove(r) /\ Recorded(r)
    BY <2>2 DEF Fits, SafeMove, Recorded
  <2>4. QED BY <2>1, <2>2, <2>3
<1>5. see = Visible(u, scope)
  BY DEF see
<1> HIDE DEF Goal
<1>7. Goal
  BY <1>1, <1>2, <1>3, <1>4, <1>5, <1>6
<1>8. QED BY <1>7 DEF Goal

-----------------------------------------------------------------------------
(* No reference dangles *)

(* A request that ends, and one that is submitted, leaves the others as    *)
(* they are.                                                               *)
LEMMA OneRequest ==
  ASSUME BaseInv, NEW p \in Request, NEW r \in RequestState, Fits(r),
         req' = [req EXCEPT ![p] = r]
  PROVE  req' \in [Request -> RequestState] /\ Submitted'
<1>1. req \in [Request -> RequestState] /\ Submitted
  BY DEF BaseInv, TypeOK
<1>2. ASSUME NEW q \in Request PROVE Fits(req'[q])
  BY <1>1 DEF Submitted
<1>3. QED BY <1>1, <1>2 DEF Submitted

(* The request of a write is over. *)
LEMMA DoneRequest ==
  ASSUME BaseInv, NEW p \in Request, Done(p)
  PROVE  req' \in [Request -> RequestState] /\ Submitted'
<1>1. Fits(Idle)
  BY IdleType DEF Fits
<1>2. QED BY <1>1, IdleType, OneRequest DEF Done

(* An audit row refers to a department that is there when the transaction  *)
(* ends, and no row before it lost its department.                         *)
LEMMA LogKeeps ==
  ASSUME BaseInv, NEW u \in User, Log(u),
         status' \in [Dept -> {"absent", "active", "inactive", "deleted"}],
         home' \in [User -> Dept \cup {None}],
         \A v \in User : home'[v] # None => status'[home'[v]] \in {"active", "inactive"},
         \A d \in logged : status'[d] \in {"active", "inactive"}
  PROVE  logged' \in SUBSET Dept /\ \A d \in logged' : Exists(d)'
  BY DEF BaseInv, TypeOK, Log, Exists

(* What a submitted request says. *)
LEMMA RequestOf ==
  ASSUME BaseInv, NEW p \in Request
  PROVE  req[p] \in RequestState /\ Fits(req[p])
  BY DEF BaseInv, TypeOK, Submitted

(* A check changes no department. *)
LEMMA BaseCheck ==
  ASSUME BaseInv, NEW p \in Request, NEW u \in User, NEW scope \in Scope,
         Check(p, u, scope)
  PROVE  BaseInv'
<1>1. UNCHANGED <<status, parent, home, gone, logged, raced>>
  BY CheckSubmits
<1>2. PICK r \in RequestState : req' = [req EXCEPT ![p] = r] /\ Fits(r)
  BY CheckSubmits
<1>3. req' \in [Request -> RequestState] /\ Submitted'
  BY <1>2, OneRequest
<1>4. RootStays' /\ NoDangling'
  BY <1>1 DEF BaseInv, RootStays, NoDangling, Exists
<1>5. TypeOK'
  BY <1>1, <1>3 DEF BaseInv, TypeOK
<1>6. QED BY <1>3, <1>4, <1>5 DEF BaseInv

(* The row that is inserted is new, its parent is there. *)
LEMMA BaseCreate ==
  ASSUME BaseInv, NEW p \in Request, NEW d \in Dept, CreateWrite(p, d)
  PROVE  BaseInv'
<1>0. PICK r \in RequestState : /\ r = req[p] /\ Fits(r) /\ r.pc = "create"
                                /\ status[d] = "absent"
  BY RequestOf DEF CreateWrite
<1>1. /\ r.actor \in User /\ r.parent \in Dept /\ r.status \in {"active", "inactive"}
  BY <1>0 DEF Fits
<1>2. req' \in [Request -> RequestState] /\ Submitted'
  BY DoneRequest DEF CreateWrite
<1>3. UNCHANGED <<home, gone, raced>>
  BY DEF CreateWrite, users
<1>4. CASE Exists(r.parent)
  <2>1. /\ status' = [status EXCEPT ![d] = r.status]
        /\ parent' = [parent EXCEPT ![d] = r.parent]
        /\ Log(r.actor)
    BY <1>0, <1>4 DEF CreateWrite
  <2>2. /\ status' \in [Dept -> {"absent", "active", "inactive", "deleted"}]
        /\ parent' \in [Dept -> Dept \cup {None}]
    BY <1>1, <2>1 DEF BaseInv, TypeOK
  <2>3. \A e \in Dept : Exists(e) => e # d /\ Exists(e)'
    BY <1>0, <1>1, <2>1 DEF Exists, BaseInv, TypeOK
  <2>4. d # Root /\ RootStays' /\ r.parent # d /\ Exists(r.parent)'
    BY <1>1, <1>4, <2>3, DepartmentsAssumption DEF RootStays, BaseInv, Exists
  <2>5. home' \in [User -> Dept \cup {None}]
    BY <1>3 DEF BaseInv, TypeOK
  <2>6. \A v \in User : home'[v] # None => status'[home'[v]] \in {"active", "inactive"}
    BY <1>3, <2>3 DEF BaseInv, TypeOK, NoDangling, Exists
  <2>7. \A e \in logged : status'[e] \in {"active", "inactive"}
    BY <2>3 DEF BaseInv, TypeOK, NoDangling, Exists
  <2>8. logged' \in SUBSET Dept /\ \A e \in logged' : Exists(e)'
    BY <1>1, <2>1, <2>2, <2>5, <2>6, <2>7, LogKeeps
  <2>9. ASSUME NEW e \in Dept, Exists(e)'
        PROVE  IF e = Root THEN parent'[e] = None
               ELSE parent'[e] # None /\ status'[parent'[e]] \in {"active", "inactive"}
    <3>1. CASE e = d
      BY <1>1, <2>1, <2>4, <3>1, DepartmentsAssumption DEF BaseInv, TypeOK, Exists
    <3>2. CASE e # d
      <4>1. Exists(e) /\ parent'[e] = parent[e]
        BY <2>1, <2>9, <3>2 DEF BaseInv, TypeOK, Exists
      <4>2. QED BY <2>3, <4>1 DEF BaseInv, TypeOK, NoDangling, Exists
    <3>3. QED BY <3>1, <3>2
  <2>10. NoDangling'
    BY <2>6, <2>8, <2>9 DEF NoDangling, Exists
  <2>11. TypeOK'
    BY <1>2, <1>3, <2>2, <2>5, <2>8 DEF BaseInv, TypeOK
  <2>12. QED BY <1>2, <2>4, <2>10, <2>11 DEF BaseInv
<1>5. CASE ~Exists(r.parent)
  <2>1. UNCHANGED <<status, parent, logged>>
    BY <1>0, <1>5 DEF CreateWrite, departments
  <2>2. RootStays' /\ NoDangling'
    BY <1>3, <2>1 DEF BaseInv, RootStays, NoDangling, Exists
  <2>3. TypeOK'
    BY <1>2, <1>3, <2>1 DEF BaseInv, TypeOK
  <2>4. QED BY <1>2, <2>2, <2>3 DEF BaseInv
<1>6. QED BY <1>4, <1>5

(* The flag that a move leaves at the other requests says whether they are *)
(* moves themselves; nothing else of them changes.                         *)
LEMMA OutdateRequest ==
  ASSUME BaseInv, NEW p \in Request, Outdate(p), raced' \in BOOLEAN
  PROVE  /\ req' \in [Request -> RequestState] /\ Submitted'
         /\ req'[p] = Idle
         /\ \A q \in Request \ {p} :
              /\ req'[q].pc = req[q].pc /\ req'[q].dept = req[q].dept
              /\ req'[q].parent = req[q].parent
              /\ ~raced' /\ req[q].pc = "update" /\ req[q].parent # None => req'[q].late
<1>1. req \in [Request -> RequestState]
  BY DEF BaseInv, TypeOK
<1>2. req'[p] = Idle /\ req'[p] \in RequestState /\ Fits(req'[p])
  BY IdleType DEF Outdate, Fits
<1>3. ASSUME NEW q \in Request \ {p}
      PROVE  /\ req'[q] \in RequestState /\ Fits(req'[q])
             /\ req'[q].pc = req[q].pc /\ req'[q].dept = req[q].dept
             /\ req'[q].parent = req[q].parent
             /\ ~raced' /\ req[q].pc = "update" /\ req[q].parent # None => req'[q].late
  <2>1. PICK b \in BOOLEAN : b = (~raced' /\ req[q].pc = "update" /\ req[q].parent # None)
    OBVIOUS
  <2>2. req'[q] = [req[q] EXCEPT !.late = b]
    BY <2>1 DEF Outdate
  <2>3. req[q] \in RequestState /\ Fits(req[q])
    BY RequestOf
  <2>4. /\ req'[q] \in RequestState
        /\ req'[q].pc = req[q].pc /\ req'[q].actor = req[q].actor
        /\ req'[q].dept = req[q].dept /\ req'[q].parent = req[q].parent
        /\ req'[q].status = req[q].status /\ req'[q].member = req[q].member
        /\ req'[q].late = b
    BY <2>2, <2>3, FlagRequest
  <2>5. Fits(req'[q])
    BY <2>3, <2>4 DEF Fits
  <2>6. QED BY <2>1, <2>4, <2>5
<1>4. req' \in [Request -> RequestState]
  <2>1. req' = [q \in Request |-> req'[q]]
    BY DEF Outdate
  <2>2. \A q \in Request : req'[q] \in RequestState
    BY <1>2, <1>3
  <2>3. QED BY <2>1, <2>2
<1>5. Submitted'
  BY <1>2, <1>3 DEF Submitted
<1>6. QED BY <1>2, <1>3, <1>4, <1>5

(* The row that is updated stays, and so does its parent or the one that   *)
(* it gets; the root has no parent to change.                              *)
LEMMA BaseUpdate ==
  ASSUME BaseInv, NEW p \in Request, UpdateWrite(p)
  PROVE  BaseInv'
<1>0. PICK r \in RequestState : r = req[p] /\ Fits(r) /\ r.pc = "update"
  BY RequestOf DEF UpdateWrite
<1>1. r.actor \in User /\ r.dept \in Dept \ {Root} /\ r.parent \in Dept \cup {None}
  BY <1>0 DEF Fits, RequestState
<1>2. UNCHANGED <<home, gone>>
  BY DEF UpdateWrite, users
<1>3. CASE Exists(r.dept) /\ (r.parent = None \/ Exists(r.parent))
  <2>1. /\ parent' = [parent EXCEPT ![r.dept] = NewParent(r)]
        /\ status' = [status EXCEPT ![r.dept] = NewStatus(r)]
        /\ Log(r.actor)
        /\ \/ raced' = (raced \/ r.late) /\ Outdate(p)
           \/ Done(p) /\ UNCHANGED raced
    BY <1>0, <1>3 DEF UpdateWrite
  <2>2. raced' \in BOOLEAN
    BY <2>1 DEF BaseInv, TypeOK
  <2>3. req' \in [Request -> RequestState] /\ Submitted'
    BY <2>1, <2>2, OutdateRequest, DoneRequest
  <2>4. NewParent(r) \in Dept /\ Exists(NewParent(r))
    BY <1>1, <1>3, DepartmentsAssumption DEF NewParent, BaseInv, TypeOK, NoDangling
  <2>5. NewStatus(r) \in {"active", "inactive"}
    BY <1>1, <1>3 DEF NewStatus, Exists, RequestState
  <2>6. /\ status' \in [Dept -> {"absent", "active", "inactive", "deleted"}]
        /\ parent' \in [Dept -> Dept \cup {None}]
    BY <1>1, <2>1, <2>4, <2>5 DEF BaseInv, TypeOK
  <2>7. \A e \in Dept : Exists(e) <=> Exists(e)'
    BY <1>1, <1>3, <2>1, <2>5 DEF Exists, BaseInv, TypeOK
  <2>8. RootStays'
    BY <2>7, DepartmentsAssumption DEF RootStays, BaseInv
  <2>9. home' \in [User -> Dept \cup {None}]
    BY <1>2 DEF BaseInv, TypeOK
  <2>10. \A v \in User : home'[v] # None => status'[home'[v]] \in {"active", "inactive"}
    BY <1>2, <2>7 DEF BaseInv, TypeOK, NoDangling, Exists
  <2>11. \A e \in logged : status'[e] \in {"active", "inactive"}
    BY <2>7 DEF BaseInv, TypeOK, NoDangling, Exists
  <2>12. logged' \in SUBSET Dept /\ \A e \in logged' : Exists(e)'
    BY <1>1, <2>1, <2>6, <2>9, <2>10, <2>11, LogKeeps
  <2>13. ASSUME NEW e \in Dept, Exists(e)'
         PROVE  IF e = Root THEN parent'[e] = None
                ELSE parent'[e] # None /\ status'[parent'[e]] \in {"active", "inactive"}
    <3>1. CASE e = r.dept
      <4>1. parent'[e] = NewParent(r) /\ e # Root
        BY <1>1, <2>1, <3>1 DEF BaseInv, TypeOK
      <4>2. QED BY <2>4, <2>7, <4>1, DepartmentsAssumption DEF Exists
    <3>2. CASE e # r.dept
      <4>1. Exists(e) /\ parent'[e] = parent[e]
        BY <2>1, <2>7, <2>13, <3>2 DEF BaseInv, TypeOK
      <4>2. QED BY <2>7, <4>1 DEF BaseInv, TypeOK, NoDangling, Exists
    <3>3. QED BY <3>1, <3>2
  <2>14. NoDangling'
    BY <2>10, <2>12, <2>13 DEF NoDangling, Exists
  <2>15. TypeOK'
    BY <1>2, <2>2, <2>3, <2>6, <2>9, <2>12 DEF BaseInv, TypeOK
  <2>16. QED BY <2>3, <2>8, <2>14, <2>15 DEF BaseInv
<1>4. CASE ~(Exists(r.dept) /\ (r.parent = None \/ Exists(r.parent)))
  <2>1. UNCHANGED <<status, parent, logged, raced>> /\ Done(p)
    BY <1>0, <1>4 DEF UpdateWrite, departments
  <2>2. req' \in [Request -> RequestState] /\ Submitted'
    BY <2>1, DoneRequest
  <2>3. RootStays' /\ NoDangling'
    BY <1>2, <2>1 DEF BaseInv, RootStays, NoDangling, Exists
  <2>4. TypeOK'
    BY <1>2, <2>1, <2>2 DEF BaseInv, TypeOK
  <2>5. QED BY <2>2, <2>3, <2>4 DEF BaseInv
<1>5. QED BY <1>3, <1>4

(* What a delete removes has no child, no audit row, and no user but       *)
(* deleted ones, which lose their department with it.                      *)
LEMMA BaseDelete ==
  ASSUME BaseInv, NEW p \in Request, DeleteWrite(p)
  PROVE  BaseInv'
<1>0. PICK r \in RequestState : r = req[p] /\ Fits(r) /\ r.pc = "delete"
  BY RequestOf DEF DeleteWrite
<1>1. r.actor \in User /\ r.dept \in Dept
  BY <1>0 DEF Fits
<1>2. UNCHANGED <<parent, gone, raced>>
  BY DEF DeleteWrite
<1>3. req' \in [Request -> RequestState] /\ Submitted'
  BY DoneRequest DEF DeleteWrite
<1>4. PICK d \in Dept : d = r.dept
  BY <1>1
<1>5. CASE IsFree(d)
  <2>1. /\ status' = [status EXCEPT ![d] = "deleted"]
        /\ home' = [u \in User |-> IF u \in Members(d) \cap gone THEN None ELSE home[u]]
        /\ Log(r.actor)
    BY <1>0, <1>4, <1>5 DEF DeleteWrite
  <2>2. /\ parent[d] # None /\ d \notin logged /\ Exists(d)
        /\ \A e \in Dept : Exists(e) => parent[e] # d
        /\ \A u \in User : home[u] = d => u \in gone
    BY <1>5 DEF IsFree, Children, LiveMembers, Members
  <2>3. d # Root
    BY <2>2 DEF BaseInv, NoDangling
  <2>4. /\ status' \in [Dept -> {"absent", "active", "inactive", "deleted"}]
        /\ home' \in [User -> Dept \cup {None}]
    BY <2>1 DEF BaseInv, TypeOK
  <2>5. \A e \in Dept : Exists(e)' <=> Exists(e) /\ e # d
    BY <2>1 DEF Exists, BaseInv, TypeOK
  <2>6. RootStays'
    BY <2>3, <2>5, DepartmentsAssumption DEF RootStays, BaseInv
  <2>7. ASSUME NEW v \in User, home'[v] # None
        PROVE  status'[home'[v]] \in {"active", "inactive"}
    <3>1. home'[v] = home[v] /\ home[v] # d
      BY <2>1, <2>2, <2>7 DEF Members
    <3>2. QED BY <2>5, <2>7, <3>1 DEF BaseInv, TypeOK, NoDangling, Exists
  <2>8. \A e \in logged : status'[e] \in {"active", "inactive"}
    BY <2>2, <2>5 DEF BaseInv, TypeOK, NoDangling, Exists
  <2>9. logged' \in SUBSET Dept /\ \A e \in logged' : Exists(e)'
    BY <1>1, <2>1, <2>4, <2>7, <2>8, LogKeeps
  <2>10. ASSUME NEW e \in Dept, Exists(e)'
         PROVE  IF e = Root THEN parent'[e] = None
                ELSE parent'[e] # None /\ status'[parent'[e]] \in {"active", "inactive"}
    BY <1>2, <2>2, <2>5, <2>10 DEF BaseInv, TypeOK, NoDangling, Exists
  <2>11. NoDangling'
    BY <2>7, <2>9, <2>10 DEF NoDangling, Exists
  <2>12. TypeOK'
    BY <1>2, <1>3, <2>4, <2>9 DEF BaseInv, TypeOK
  <2>13. QED BY <1>3, <2>6, <2>11, <2>12 DEF BaseInv
<1>6. CASE ~IsFree(d)
  <2>1. UNCHANGED <<status, home, logged>>
    BY <1>0, <1>4, <1>6 DEF DeleteWrite
  <2>2. RootStays' /\ NoDangling'
    BY <1>2, <2>1 DEF BaseInv, RootStays, NoDangling, Exists
  <2>3. TypeOK'
    BY <1>2, <1>3, <2>1 DEF BaseInv, TypeOK
  <2>4. QED BY <1>3, <2>2, <2>3 DEF BaseInv
<1>7. QED BY <1>5, <1>6

(* The department that a user moves to is there when the write is done. *)
LEMMA BaseAssign ==
  ASSUME BaseInv, NEW p \in Request, AssignWrite(p)
  PROVE  BaseInv'
<1>0. PICK r \in RequestState : r = req[p] /\ Fits(r) /\ r.pc = "assign"
  BY RequestOf DEF AssignWrite
<1>1. r.actor \in User /\ r.dept \in Dept /\ r.member \in User
  BY <1>0 DEF Fits
<1>2. UNCHANGED <<status, parent, gone, raced>>
  BY DEF AssignWrite, departments
<1>3. req' \in [Request -> RequestState] /\ Submitted'
  BY DoneRequest DEF AssignWrite
<1>4. status' \in [Dept -> {"absent", "active", "inactive", "deleted"}]
  BY <1>2 DEF BaseInv, TypeOK
<1>5. \A e \in logged : status'[e] \in {"active", "inactive"}
  BY <1>2 DEF BaseInv, NoDangling, Exists
<1>6. /\ home' \in [User -> Dept \cup {None}]
      /\ \A v \in User : home'[v] # None => status'[home'[v]] \in {"active", "inactive"}
      /\ logged' \in SUBSET Dept /\ \A e \in logged' : Exists(e)'
  <2>1. CASE r.member \notin gone /\ Exists(r.dept)
    <3>1. home' = [home EXCEPT ![r.member] = r.dept] /\ Log(r.actor)
      BY <1>0, <2>1 DEF AssignWrite
    <3>2. home' \in [User -> Dept \cup {None}]
      BY <1>1, <3>1 DEF BaseInv, TypeOK
    <3>3. \A v \in User : home'[v] # None => status'[home'[v]] \in {"active", "inactive"}
      BY <1>1, <1>2, <2>1, <3>1 DEF BaseInv, TypeOK, NoDangling, Exists
    <3>4. QED BY <1>1, <1>4, <1>5, <3>1, <3>2, <3>3, LogKeeps
  <2>2. CASE ~(r.member \notin gone /\ Exists(r.dept))
    <3>1. UNCHANGED <<home, logged>>
      BY <1>0, <2>2 DEF AssignWrite
    <3>2. QED BY <1>2, <3>1 DEF BaseInv, TypeOK, NoDangling, Exists
  <2>3. QED BY <2>1, <2>2
<1>7. RootStays' /\ NoDangling'
  BY <1>2, <1>6 DEF BaseInv, RootStays, NoDangling, Exists
<1>8. TypeOK'
  BY <1>2, <1>3, <1>6 DEF BaseInv, TypeOK
<1>9. QED BY <1>3, <1>7, <1>8 DEF BaseInv

(* A user that is deleted keeps his department, and an audit row names one *)
(* that is there.                                                          *)
LEMMA BaseLogged ==
  ASSUME BaseInv, NEW u \in User, Log(u), UNCHANGED <<status, parent, home, req, raced>>,
         gone' \in SUBSET User
  PROVE  BaseInv'
<1>1. logged' \in SUBSET Dept /\ \A e \in logged' : Exists(e)'
  BY LogKeeps DEF BaseInv, TypeOK, NoDangling, Exists
<1>2. RootStays' /\ NoDangling'
  BY <1>1 DEF BaseInv, RootStays, NoDangling, Exists
<1>3. TypeOK' /\ Submitted'
  BY <1>1 DEF BaseInv, TypeOK, Submitted
<1>4. QED BY <1>2, <1>3 DEF BaseInv

(* Every step keeps the references. *)
LEMMA BaseNext ==
  ASSUME BaseInv, [Next]_vars
  PROVE  BaseInv'
<1>1. ASSUME NEW p \in Request, NEW u \in User, NEW scope \in Scope, Check(p, u, scope)
      PROVE  BaseInv'
  BY <1>1, BaseCheck
<1>2. ASSUME NEW p \in Request, NEW d \in Dept, CreateWrite(p, d)
      PROVE  BaseInv'
  BY <1>2, BaseCreate
<1>3. ASSUME NEW p \in Request, UpdateWrite(p) \/ DeleteWrite(p) \/ AssignWrite(p)
      PROVE  BaseInv'
  BY <1>3, BaseUpdate, BaseDelete, BaseAssign
<1>4. ASSUME NEW u \in User, NEW v \in User, NEW scope \in Scope, SoftDelete(u, scope, v)
      PROVE  BaseInv'
  <2>1. Log(u) /\ UNCHANGED <<status, parent, home, req, raced>> /\ gone' = gone \cup {v}
    BY <1>4 DEF SoftDelete, departments
  <2>2. gone' \in SUBSET User
    BY <2>1 DEF BaseInv, TypeOK
  <2>3. QED BY <2>1, <2>2, BaseLogged
<1>5. ASSUME NEW u \in User, Act(u)
      PROVE  BaseInv'
  <2>1. Log(u) /\ UNCHANGED <<status, parent, home, req, raced>> /\ gone' = gone
    BY <1>5 DEF Act, departments, users
  <2>2. gone' \in SUBSET User
    BY <2>1 DEF BaseInv, TypeOK
  <2>3. QED BY <2>1, <2>2, BaseLogged
<1>6. CASE UNCHANGED vars
  BY <1>6 DEF vars, departments, users, BaseInv, TypeOK, Submitted, RootStays, NoDangling,
              Exists
<1>7. QED BY <1>1, <1>2, <1>3, <1>4, <1>5, <1>6 DEF Next, Write

(* The root that the migration inserts has every user. *)
LEMMA BaseInit ==
  ASSUME Init
  PROVE  BaseInv
<1>1. TypeOK
  BY IdleType, DepartmentsAssumption DEF Init, TypeOK
<1>2. Submitted
  BY IdleType DEF Init, Submitted, Fits
<1>3. RootStays /\ NoDangling
  BY DepartmentsAssumption DEF Init, RootStays, NoDangling, Exists
<1>4. QED BY <1>1, <1>2, <1>3 DEF BaseInv

(* The type invariant of the departments. *)
THEOREM DepartmentsTypeCorrect == Spec => []TypeOK
<1>1. Init => BaseInv
  BY BaseInit
<1>2. BaseInv /\ [Next]_vars => BaseInv'
  BY BaseNext
<1>3. BaseInv => TypeOK
  BY DEF BaseInv
<1>4. QED BY <1>1, <1>2, <1>3, PTL DEF Spec

(* services/departments.rs, repositories/departments.rs: whatever requests *)
(* race between their checks and their writes, no department, user or      *)
(* audit row ever refers to a department that is gone, and only the root   *)
(* has no parent.                                                          *)
THEOREM DepartmentsNeverDangle == Spec => []NoDangling
<1>1. Init => BaseInv
  BY BaseInit
<1>2. BaseInv /\ [Next]_vars => BaseInv'
  BY BaseNext
<1>3. BaseInv => NoDangling
  BY DEF BaseInv
<1>4. QED BY <1>1, <1>2, <1>3, PTL DEF Spec

-----------------------------------------------------------------------------
(* The departments are a tree *)

(* What is not above a department: a closed set without it shows it. *)
LEMMA NotAbove ==
  ASSUME NEW x \in Dept, NEW e \in Dept
  PROVE  e \notin Above(x) <=>
            \E S \in SUBSET (Dept \ {e}) : parent[x] \in S \cup {None} /\ UpClosed(S)
  BY DEF Above

(* A move to a department that is not below keeps every way to the root,   *)
(* and gives the department that moves a way to it.                        *)
LEMMA MoveKeepsRoot ==
  ASSUME TypeOK, NEW d \in Dept, NEW up \in Dept, up # d, d \notin Above(up),
         parent' = [parent EXCEPT ![d] = up], up = Root \/ Root \in Above(up),
         NEW x \in Dept, x = d \/ Root \in Above(x)
  PROVE  (Root \in Above(x))'
<1>1. SUFFICES ASSUME NEW S \in SUBSET (Dept \ {Root}),
                      parent'[x] \in S \cup {None}, UpClosed(S)'
               PROVE  FALSE
  BY DepartmentsAssumption DEF Above
<1>2. /\ \A e \in S : parent'[e] \in S \cup {None}
      /\ \A e \in Dept \ {d} : parent'[e] = parent[e]
      /\ parent'[d] = up
  BY <1>1 DEF UpClosed, TypeOK
<1>3. up \notin S
  <2>1. SUFFICES ASSUME up \in S PROVE FALSE
    OBVIOUS
  <2>2. PICK T \in SUBSET (Dept \ {d}) : parent[up] \in T \cup {None} /\ UpClosed(T)
    BY NotAbove
  <2>3. parent[up] \in (S \cap T) \cup {None}
    BY <1>2, <2>1, <2>2
  <2>4. UpClosed(S \cap T)
    BY <1>2, <2>2 DEF UpClosed
  <2>5. S \cap T \in SUBSET (Dept \ {Root})
    OBVIOUS
  <2>6. Root \notin Above(up)
    BY <2>3, <2>4, <2>5, NotAbove, DepartmentsAssumption
  <2>7. QED BY <2>1, <2>6
<1>4. d \notin S /\ x # d
  BY <1>1, <1>2, <1>3, DepartmentsAssumption
<1>5. UpClosed(S) /\ parent[x] \in S \cup {None}
  BY <1>1, <1>2, <1>4 DEF UpClosed
<1>6. Root \notin Above(x)
  BY <1>5, NotAbove, DepartmentsAssumption
<1>7. QED BY <1>4, <1>6

(* What is above a department that exists depends only on departments that *)
(* exist: a new one changes nothing for them.                              *)
LEMMA AboveExisting ==
  ASSUME BaseInv, NEW x \in Dept, NEW e \in Dept, Exists(x),
         parent' \in [Dept -> Dept \cup {None}],
         \A c \in Dept : Exists(c) => parent'[c] = parent[c]
  PROVE  e \in Above(x) <=> (e \in Above(x))'
<1> DEFINE There == {c \in Dept : Exists(c)}
<1>1. \A c \in There : parent[c] \in There \cup {None} /\ parent'[c] = parent[c]
  BY DEF BaseInv, TypeOK, NoDangling
<1>2. ASSUME NEW S \in SUBSET (Dept \ {e}), parent[x] \in S \cup {None}, UpClosed(S)
      PROVE  \E U \in SUBSET (Dept \ {e}) : parent'[x] \in U \cup {None} /\ UpClosed(U)'
  <2>1. parent'[x] \in (S \cap There) \cup {None}
    BY <1>1, <1>2
  <2>2. \A c \in S \cap There : parent'[c] \in (S \cap There) \cup {None}
    BY <1>1, <1>2 DEF UpClosed
  <2>3. PICK U \in SUBSET (Dept \ {e}) : U = S \cap There
    OBVIOUS
  <2>4. QED BY <2>1, <2>2, <2>3 DEF UpClosed
<1>3. ASSUME NEW S \in SUBSET (Dept \ {e}), parent'[x] \in S \cup {None}, UpClosed(S)'
      PROVE  \E U \in SUBSET (Dept \ {e}) : parent[x] \in U \cup {None} /\ UpClosed(U)
  <2>1. parent[x] \in (S \cap There) \cup {None}
    BY <1>1, <1>3
  <2>2. \A c \in S \cap There : parent[c] \in (S \cap There) \cup {None}
    BY <1>1, <1>3 DEF UpClosed
  <2>3. QED BY <2>1, <2>2 DEF UpClosed
<1>4. e \notin Above(x) => (e \notin Above(x))'
  BY <1>2, NotAbove DEF Above
<1>5. (e \notin Above(x))' => e \notin Above(x)
  BY <1>3, NotAbove DEF Above
<1>6. QED BY <1>4, <1>5

(* The children that a step leaves alone. *)
LEMMA AboveSame ==
  ASSUME UNCHANGED parent
  PROVE  \A x \in Dept : Above(x)' = Above(x)
  BY DEF Above, UpClosed

(* A step that moves no department, and adds none, keeps the tree. *)
LEMMA TreeQuiet ==
  ASSUME BaseInv, BaseInv', IsTree, UNCHANGED parent,
         \A e \in Dept : Exists(e)' => Exists(e),
         \A e \in Dept : status[e] # "absent" => status'[e] # "absent",
         \A q \in Request :
            \E r \in RequestState : req'[q] = r /\ Fits(r) /\ SafeMove(r) /\ Recorded(r)
  PROVE  IsTree' /\ MovesChecked'
<1>1. \A x \in Dept : Above(x)' = Above(x)
  BY AboveSame
<1>2. IsTree'
  BY <1>1, DepartmentsAssumption DEF IsTree, Below
<1>3. ASSUME NEW q \in Request PROVE (SafeMove(req[q]) /\ Recorded(req[q]))'
  <2>1. PICK r \in RequestState : req'[q] = r /\ Fits(r) /\ SafeMove(r) /\ Recorded(r)
    OBVIOUS
  <2>2. r.pc = "update" => r.dept \in Dept
    BY <2>1 DEF Fits
  <2>3. r.parent \in Dept \cup {None}
    BY DEF RequestState
  <2>4. SafeMove(r)'
    BY <1>1, <2>1, <2>2, <2>3 DEF SafeMove
  <2>5. Recorded(r)'
    BY <2>1, <2>2, <2>3 DEF Recorded
  <2>6. QED BY <2>1, <2>4, <2>5
<1>4. QED BY <1>2, <1>3 DEF MovesChecked

(* The requests that a write leaves, when no department has moved. *)
LEMMA DoneMoves ==
  ASSUME BaseInv, MovesChecked, NEW p \in Request, Done(p)
  PROVE  \A q \in Request :
            \E r \in RequestState : req'[q] = r /\ Fits(r) /\ SafeMove(r) /\ Recorded(r)
<1>1. Fits(Idle) /\ SafeMove(Idle) /\ Recorded(Idle) /\ Idle \in RequestState
  BY IdleType DEF Fits, SafeMove, Recorded
<1>2. ASSUME NEW q \in Request
      PROVE  \E r \in RequestState : req'[q] = r /\ Fits(r) /\ SafeMove(r) /\ Recorded(r)
  <2>1. req'[q] = (IF q = p THEN Idle ELSE req[q])
    BY DEF Done, BaseInv, TypeOK
  <2>2. /\ req[q] \in RequestState /\ Fits(req[q]) /\ SafeMove(req[q])
        /\ Recorded(req[q])
    BY RequestOf DEF MovesChecked
  <2>3. QED BY <1>1, <2>1, <2>2
<1>3. QED BY <1>2

(* A new department hangs below one that exists. *)
LEMMA TreeCreate ==
  ASSUME BaseInv, BaseInv', IsTree, MovesChecked, NEW p \in Request, NEW d \in Dept,
         CreateWrite(p, d)
  PROVE  IsTree' /\ MovesChecked'
<1>0. PICK r \in RequestState : /\ r = req[p] /\ Fits(r) /\ r.pc = "create"
                                /\ status[d] = "absent" /\ Done(p)
  BY RequestOf DEF CreateWrite
<1>1. PICK up \in Dept : up = r.parent
  BY <1>0 DEF Fits
<1>2. CASE Exists(up)
  <2>1. /\ status' = [status EXCEPT ![d] = r.status]
        /\ parent' = [parent EXCEPT ![d] = up]
    BY <1>0, <1>1, <1>2 DEF CreateWrite
  <2>2. /\ \A c \in Dept : Exists(c) => c # d /\ parent'[c] = parent[c]
        /\ \A c \in Dept : Exists(c)' /\ c # d => Exists(c)
        /\ \A c \in Dept : status[c] # "absent" => status'[c] = status[c] /\ c # d
        /\ parent' \in [Dept -> Dept \cup {None}]
        /\ parent'[d] = up
    BY <1>0, <2>1 DEF BaseInv, TypeOK, Exists
  <2>3. ASSUME NEW x \in Dept, NEW e \in Dept, Exists(x)
        PROVE  e \in Above(x) <=> (e \in Above(x))'
    BY <2>2, <2>3, AboveExisting
  <2>4. ASSUME NEW x \in Dept, Exists(x)', x # Root
        PROVE  (Root \in Above(x))'
    <3>1. CASE x # d
      BY <2>2, <2>3, <2>4, <3>1, DepartmentsAssumption DEF IsTree, Below
    <3>2. CASE x = d
      <4>1. SUFFICES ASSUME NEW S \in SUBSET (Dept \ {Root}),
                            parent'[d] \in S \cup {None}, UpClosed(S)'
                     PROVE  FALSE
        BY <3>2, DepartmentsAssumption DEF Above
      <4>2. up \in S /\ up # Root
        BY <2>2, <4>1, DepartmentsAssumption
      <4>3. (Root \in Above(up))'
        BY <1>2, <2>3, <4>2, DepartmentsAssumption DEF IsTree, Below
      <4>4. parent'[up] \in S \cup {None}
        BY <4>1, <4>2 DEF UpClosed
      <4>5. QED BY <4>1, <4>3, <4>4 DEF Above
    <3>3. QED BY <3>1, <3>2
  <2>5. IsTree'
    BY <2>4, DepartmentsAssumption DEF IsTree, Below
  <2>6. ASSUME NEW q \in Request PROVE (SafeMove(req[q]) /\ Recorded(req[q]))'
    <3>1. PICK m \in RequestState : req'[q] = m /\ Fits(m) /\ SafeMove(m) /\ Recorded(m)
      BY <1>0, DoneMoves
    <3>2. CASE m.pc # "update"
      BY <3>1, <3>2 DEF SafeMove, Recorded
    <3>3. CASE m.pc = "update"
      <4>1. /\ m.dept \in Dept /\ status'[m.dept] = status[m.dept] /\ m.dept # d
            /\ m.parent # None =>
                 m.parent \in Dept /\ status'[m.parent] = status[m.parent] /\ m.parent # d
        BY <2>2, <3>1, <3>3 DEF Fits, Recorded, RequestState
      <4>2. Recorded(m)'
        BY <3>1, <4>1 DEF Recorded
      <4>3. SafeMove(m)'
        <5>1. SUFFICES ASSUME m.parent # None, ~m.late, Exists(m.dept)', Exists(m.parent)'
                       PROVE  \/ m.parent = parent'[m.dept]
                              \/ m.parent # m.dept /\ (m.dept \notin Above(m.parent))'
          BY DEF SafeMove
        <5>2. Exists(m.dept) /\ Exists(m.parent)
          BY <4>1, <5>1 DEF Exists
        <5>3. \/ m.parent = parent[m.dept]
              \/ m.parent # m.dept /\ m.dept \notin Above(m.parent)
          BY <3>1, <3>3, <5>1, <5>2 DEF SafeMove
        <5>4. parent'[m.dept] = parent[m.dept]
          BY <2>2, <4>1, <5>2
        <5>5. m.dept \in Above(m.parent) <=> (m.dept \in Above(m.parent))'
          BY <2>3, <4>1, <5>1, <5>2
        <5>6. QED BY <5>3, <5>4, <5>5
      <4>4. QED BY <3>1, <4>2, <4>3
    <3>4. QED BY <3>2, <3>3
  <2>7. QED BY <2>5, <2>6 DEF MovesChecked
<1>3. CASE ~Exists(up)
  <2>1. UNCHANGED <<status, parent>>
    BY <1>0, <1>1, <1>3 DEF CreateWrite, departments
  <2>2. QED BY <1>0, <2>1, DoneMoves, TreeQuiet DEF Exists
<1>4. QED BY <1>2, <1>3

(* A move that is not late leads to a department that is not below; the    *)
(* moves that were checked before it are late from now on.                 *)
LEMMA TreeUpdate ==
  ASSUME BaseInv, BaseInv', ~raced, IsTree, MovesChecked, NEW p \in Request,
         UpdateWrite(p), ~raced'
  PROVE  IsTree' /\ MovesChecked'
<1>0. PICK r \in RequestState : r = req[p] /\ Fits(r) /\ r.pc = "update"
  BY RequestOf DEF UpdateWrite
<1>1. PICK d \in Dept : d = r.dept /\ d # Root
  BY <1>0 DEF Fits
<1>2. \A e \in Dept : /\ Exists(e)' => Exists(e)
                      /\ status[e] # "absent" => status'[e] # "absent"
  <2>1. CASE Exists(r.dept) /\ (r.parent = None \/ Exists(r.parent))
    <3>1. status' = [status EXCEPT ![d] = NewStatus(r)]
      BY <1>0, <1>1, <2>1 DEF UpdateWrite
    <3>2. NewStatus(r) \in {"active", "inactive"}
      BY <1>1, <2>1 DEF NewStatus, Exists, RequestState
    <3>3. QED BY <1>1, <2>1, <3>1, <3>2 DEF Exists, BaseInv, TypeOK
  <2>2. CASE ~(Exists(r.dept) /\ (r.parent = None \/ Exists(r.parent)))
    BY <1>0, <2>2 DEF UpdateWrite, departments, Exists
  <2>3. QED BY <2>1, <2>2
<1>3. CASE parent' = parent
  <2>1. Done(p)
    BY <1>3 DEF UpdateWrite
  <2>2. QED BY <1>2, <1>3, <2>1, DoneMoves, TreeQuiet
<1>4. CASE parent' # parent
  <2>1. /\ Exists(r.dept) /\ (r.parent = None \/ Exists(r.parent))
        /\ parent' = [parent EXCEPT ![d] = NewParent(r)]
        /\ raced' = (raced \/ r.late) /\ Outdate(p)
    BY <1>0, <1>1, <1>4 DEF UpdateWrite, departments
  <2>2. ~r.late
    BY <2>1
  <2>3. NewParent(r) # parent[d]
    BY <1>4, <2>1 DEF BaseInv, TypeOK
  <2>4. r.parent # None /\ NewParent(r) = r.parent
    BY <1>1, <2>3 DEF NewParent
  <2>5. PICK up \in Dept : up = r.parent
    BY <2>4 DEF RequestState
  <2>6. Exists(up) /\ up # d /\ d \notin Above(up)
    BY <1>0, <1>1, <2>1, <2>2, <2>3, <2>4, <2>5 DEF MovesChecked, SafeMove
  <2>7. up = Root \/ Root \in Above(up)
    BY <2>6 DEF IsTree, Below
  <2>8. ASSUME NEW x \in Dept, Exists(x)', x # Root
        PROVE  (Root \in Above(x))'
    <3>1. Root \in Above(x)
      BY <1>2, <2>8 DEF IsTree, Below
    <3>2. parent' = [parent EXCEPT ![d] = up] /\ TypeOK
      BY <2>1, <2>4, <2>5 DEF BaseInv
    <3>3. QED BY <2>6, <2>7, <3>1, <3>2, MoveKeepsRoot
  <2>9. IsTree'
    BY <2>8, DepartmentsAssumption DEF IsTree, Below
  <2>10. ASSUME NEW q \in Request PROVE (SafeMove(req[q]) /\ Recorded(req[q]))'
    <3>1. CASE q = p
      <4>1. req'[q].pc = "idle"
        BY <2>1, <3>1, OutdateRequest, IdleType
      <4>2. QED BY <4>1 DEF SafeMove, Recorded
    <3>2. CASE q # p
      <4>1. PICK m : m = req'[q]
        OBVIOUS
      <4>2. /\ m.pc = req[q].pc /\ m.dept = req[q].dept /\ m.parent = req[q].parent
            /\ req[q].pc = "update" /\ req[q].parent # None => m.late
        BY <2>1, <3>2, <4>1, OutdateRequest
      <4>3. req[q] \in RequestState /\ Fits(req[q]) /\ Recorded(req[q])
        BY RequestOf DEF MovesChecked
      <4>4. SafeMove(m)'
        BY <4>2 DEF SafeMove
      <4>5. Recorded(m)'
        BY <1>2, <4>2, <4>3 DEF Recorded, Fits, RequestState
      <4>6. QED BY <4>1, <4>4, <4>5
    <3>3. QED BY <3>1, <3>2
  <2>11. QED BY <2>9, <2>10 DEF MovesChecked
<1>5. QED BY <1>3, <1>4

(* A write that moves no department keeps the tree. *)
LEMMA TreeWrite ==
  ASSUME BaseInv, BaseInv', IsTree, MovesChecked, NEW p \in Request,
         DeleteWrite(p) \/ AssignWrite(p)
  PROVE  IsTree' /\ MovesChecked'
<1>1. Done(p) /\ UNCHANGED parent
  BY DEF DeleteWrite, AssignWrite, departments
<1>2. \A e \in Dept : /\ Exists(e)' => Exists(e)
                      /\ status[e] # "absent" => status'[e] # "absent"
  <2>1. CASE DeleteWrite(p)
    <3>1. \/ \E d : status' = [status EXCEPT ![d] = "deleted"]
          \/ status' = status
      BY <2>1 DEF DeleteWrite
    <3>2. QED BY <3>1 DEF Exists, BaseInv, TypeOK
  <2>2. CASE AssignWrite(p)
    BY <2>2 DEF AssignWrite, departments, Exists
  <2>3. QED BY <2>1, <2>2
<1>3. QED BY <1>1, <1>2, DoneMoves, TreeQuiet

(* A step that leaves the departments and the requests alone. *)
LEMMA TreeStays ==
  ASSUME BaseInv, BaseInv', IsTree, MovesChecked, UNCHANGED <<status, parent, req>>
  PROVE  IsTree' /\ MovesChecked'
<1>1. \A q \in Request :
         \E r \in RequestState : req'[q] = r /\ Fits(r) /\ SafeMove(r) /\ Recorded(r)
  BY RequestOf DEF MovesChecked
<1>2. QED BY <1>1, TreeQuiet DEF Exists

(* What was checked of a request that is submitted still holds. *)
LEMMA TreeCheck ==
  ASSUME BaseInv, BaseInv', IsTree, MovesChecked, NEW p \in Request, NEW u \in User,
         NEW scope \in Scope, Check(p, u, scope)
  PROVE  IsTree' /\ MovesChecked'
<1>1. UNCHANGED <<status, parent>>
  BY CheckSubmits
<1>2. PICK r \in RequestState :
         req' = [req EXCEPT ![p] = r] /\ Fits(r) /\ SafeMove(r) /\ Recorded(r)
  BY CheckSubmits
<1>3. ASSUME NEW q \in Request
      PROVE  \E m \in RequestState : req'[q] = m /\ Fits(m) /\ SafeMove(m) /\ Recorded(m)
  <2>1. req'[q] = (IF q = p THEN r ELSE req[q])
    BY <1>2 DEF BaseInv, TypeOK
  <2>2. /\ req[q] \in RequestState /\ Fits(req[q]) /\ SafeMove(req[q])
        /\ Recorded(req[q])
    BY RequestOf DEF MovesChecked
  <2>3. QED BY <1>2, <2>1, <2>2
<1>4. QED BY <1>1, <1>3, TreeQuiet DEF Exists

(* Once a late move has been written, that is remembered. *)
LEMMA RacedStays ==
  ASSUME BaseInv, [Next]_vars, raced
  PROVE  raced'
<1>1. ASSUME NEW p \in Request, NEW u \in User, NEW scope \in Scope, Check(p, u, scope)
      PROVE  raced'
  BY <1>1, CheckSubmits
<1>2. ASSUME NEW p \in Request, NEW d \in Dept, CreateWrite(p, d)
      PROVE  raced'
  BY <1>2 DEF CreateWrite
<1>3. ASSUME NEW p \in Request, UpdateWrite(p) \/ DeleteWrite(p) \/ AssignWrite(p)
      PROVE  raced'
  BY <1>3 DEF UpdateWrite, DeleteWrite, AssignWrite
<1>4. ASSUME NEW u \in User, NEW v \in User, NEW scope \in Scope, SoftDelete(u, scope, v)
      PROVE  raced'
  BY <1>4 DEF SoftDelete
<1>5. ASSUME NEW u \in User, Act(u)
      PROVE  raced'
  BY <1>5 DEF Act
<1>6. CASE UNCHANGED vars
  BY <1>6 DEF vars
<1>7. QED BY <1>1, <1>2, <1>3, <1>4, <1>5, <1>6 DEF Next, Write

(* Every step keeps the tree, or is the late move. *)
LEMMA TreeNext ==
  ASSUME BaseInv, BaseInv', TreeInv, [Next]_vars
  PROVE  TreeInv'
<1>1. SUFFICES ASSUME ~raced' PROVE IsTree' /\ MovesChecked'
  BY DEF TreeInv
<1>2. ~raced /\ IsTree /\ MovesChecked
  BY <1>1, RacedStays DEF TreeInv
<1>3. ASSUME NEW p \in Request, NEW u \in User, NEW scope \in Scope, Check(p, u, scope)
      PROVE  IsTree' /\ MovesChecked'
  BY <1>2, <1>3, TreeCheck
<1>4. ASSUME NEW p \in Request, NEW d \in Dept, CreateWrite(p, d)
      PROVE  IsTree' /\ MovesChecked'
  BY <1>2, <1>4, TreeCreate
<1>5. ASSUME NEW p \in Request, UpdateWrite(p) \/ DeleteWrite(p) \/ AssignWrite(p)
      PROVE  IsTree' /\ MovesChecked'
  BY <1>1, <1>2, <1>5, TreeUpdate, TreeWrite
<1>6. ASSUME NEW u \in User, \/ Act(u)
                             \/ \E v \in User, scope \in Scope : SoftDelete(u, scope, v)
      PROVE  IsTree' /\ MovesChecked'
  <2>1. UNCHANGED <<status, parent, req>>
    BY <1>6 DEF SoftDelete, Act, departments
  <2>2. QED BY <1>2, <2>1, TreeStays
<1>7. CASE UNCHANGED vars
  <2>1. UNCHANGED <<status, parent, req>>
    BY <1>7 DEF vars, departments
  <2>2. QED BY <1>2, <2>1, TreeStays
<1>8. QED BY <1>3, <1>4, <1>5, <1>6, <1>7 DEF Next, Write

(* The migration's department is the root, and nothing is in flight. *)
LEMMA TreeInit ==
  ASSUME Init
  PROVE  TreeInv
<1>1. IsTree
  BY DepartmentsAssumption DEF Init, IsTree, Below, Exists
<1>2. MovesChecked
  BY IdleType DEF Init, MovesChecked, SafeMove, Recorded
<1>3. QED BY <1>1, <1>2 DEF TreeInv

(* parent_would_create_cycle, called before the transaction that writes    *)
(* (services/departments.rs): every department is below the root until a   *)
(* move is written that was checked before another move was.               *)
THEOREM TreeUntilRaced == Spec => []TreeUnlessRaced
<1>1. Init => BaseInv /\ TreeInv
  BY BaseInit, TreeInit
<1>2. BaseInv /\ TreeInv /\ [Next]_vars => BaseInv' /\ TreeInv'
  BY BaseNext, TreeNext
<1>3. BaseInv /\ TreeInv => TreeUnlessRaced
  BY DEF TreeInv, TreeUnlessRaced
<1>4. QED BY <1>1, <1>2, <1>3, PTL DEF Spec
=============================================================================
