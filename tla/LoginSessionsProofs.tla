------------------------ MODULE LoginSessionsProofs ------------------------
(***************************************************************************)
(* Proofs about LoginSessions, for any number of accounts, requests,       *)
(* passwords, session rows and password changes.                           *)
(***************************************************************************)
EXTENDS LoginSessions, FiniteSetTheorems, WellFoundedInduction, TLAPS

(* A request that is under way has an account, and the data of its phase. *)
WellFormed ==
    \A p \in Request :
        /\ req[p].pc \notin {"idle", "done", "failed"} => req[p].user \in User
        /\ req[p].pc = "hash" => req[p].new \in Password
        /\ req[p].pc = "wrote" => req[p].id \in RowId
        /\ req[p].pc = "reread" => req[p].second

(* The two directions of the row-lock discipline. *)
LocksHeld ==
    /\ \A p \in Request : req[p].pc \in {"locked", "wrote"} =>
                              locks[req[p].user] = p
    /\ \A u \in User : locks[u] # None =>
           /\ req[locks[u]].pc \in {"locked", "wrote"}
           /\ req[locks[u]].user = u

(* A password-only login carries the token_version its check was made      *)
(* under, into its session row too.                                        *)
Provenance ==
    /\ \A p \in Request : ~req[p].second /\
               req[p].pc \in {"create", "begun", "locked", "wrote"} =>
               req[p].token_version = req[p].checked
    /\ \A i \in Rows : ~sessions[i].second =>
           sessions[i].token_version = sessions[i].checked

IInv == TypeOK /\ WellFormed /\ LocksHeld /\ Provenance

(* None is no row and no session: it is not a record of either kind. *)
LEMMA IdleType == Idle \in RequestState
  BY SessionAssumption DEF Idle, RequestState, Pc, RowId

LEMMA InitIInv == Init => IInv
<1> SUFFICES ASSUME Init PROVE IInv
  OBVIOUS
<1>1. TypeOK
  <2>1. users \in [User -> Account]
    BY DEF Init
  <2>2. sessions \in [RowId -> Session \cup {None}] /\ nextId \in 1..(MaxRows + 1)
    BY SessionAssumption DEF Init
  <2>3. clock \in Nat /\ locks \in [User -> Request \cup {None}]
    BY DEF Init
  <2>4. req \in [Request -> RequestState]
    BY IdleType DEF Init
  <2>5. QED BY <2>1, <2>2, <2>3, <2>4 DEF TypeOK
<1>2. WellFormed /\ LocksHeld
  BY DEF Init, WellFormed, LocksHeld, Idle
<1>3. Provenance
  BY DEF Init, Provenance, Rows, Idle
<1>4. QED BY <1>1, <1>2, <1>3 DEF IInv

(* A finished request is a request state. *)
LEMMA EndedType == \A how \in {"done", "failed"} : Ended(how) \in RequestState
  BY IdleType DEF Ended, Idle, RequestState, Pc

(* find_by_username and find_by_id return a users row. *)
LEMMA RowType == ASSUME TypeOK, NEW u \in User PROVE RowOf(u) \in UserRow
  BY DEF TypeOK, RowOf, UserRow, Account

(* A verified password leaves a well-typed request behind. *)
LEMMA VerifiedType ==
  ASSUME NEW r \in RequestState, Authenticated(r), NEW pc \in Pc
  PROVE  Verified(r, pc) \in RequestState
  BY DEF RequestState, Verified, Authenticated, UserRow

(* Most steps replace the state of one request. *)
LEMMA RequestUpdate ==
  ASSUME req \in [Request -> RequestState], NEW p \in Request,
         NEW r \in RequestState, req' = [req EXCEPT ![p] = r]
  PROVE  req' \in [Request -> RequestState]
  OBVIOUS

(* MarkStale touches the history flag and nothing else. *)
LEMMA MarkStaleFacts ==
  ASSUME NEW f \in [Request -> RequestState], NEW u \in User
  PROVE  /\ MarkStale(u, f) \in [Request -> RequestState]
         /\ \A q \in Request : LET m == MarkStale(u, f)[q] IN
              /\ m.pc = f[q].pc /\ m.user = f[q].user /\ m.new = f[q].new
              /\ m.id = f[q].id /\ m.second = f[q].second
              /\ m.token_version = f[q].token_version
              /\ m.checked = f[q].checked
              /\ m.row = f[q].row /\ m.evict = f[q].evict
<1>1. \A r \in RequestState :
         LET m == [r EXCEPT !.stale = TRUE] IN
           /\ m \in RequestState
           /\ m.pc = r.pc /\ m.user = r.user /\ m.new = r.new
           /\ m.id = r.id /\ m.second = r.second
           /\ m.token_version = r.token_version /\ m.checked = r.checked
           /\ m.row = r.row /\ m.evict = r.evict
  BY DEF RequestState
<1>2. \A q \in Request :
         /\ f[q] \in RequestState
         /\ \/ MarkStale(u, f)[q] = [f[q] EXCEPT !.stale = TRUE]
            \/ MarkStale(u, f)[q] = f[q]
  BY DEF MarkStale
<1>3. MarkStale(u, f) \in [Request -> RequestState]
  BY <1>1 DEF MarkStale
<1>4. ASSUME NEW q \in Request
      PROVE  LET m == MarkStale(u, f)[q] IN
              /\ m.pc = f[q].pc /\ m.user = f[q].user /\ m.new = f[q].new
              /\ m.id = f[q].id /\ m.second = f[q].second
              /\ m.token_version = f[q].token_version
              /\ m.checked = f[q].checked
              /\ m.row = f[q].row /\ m.evict = f[q].evict
  <2> DEFINE m == MarkStale(u, f)[q]
  <2>1. CASE m = f[q]
    BY <2>1
  <2>2. CASE m = [f[q] EXCEPT !.stale = TRUE]
    BY <1>1, <1>2, <2>2
  <2>3. QED BY <1>2, <2>1, <2>2
<1>5. QED BY <1>3, <1>4

(* revoke_all_for_user inserts no row and moves none to another version. *)
LEMMA RevokeAllFacts ==
  ASSUME TypeOK, NEW u \in User, RevokeAll(u)
  PROVE  /\ sessions' \in [RowId -> Session \cup {None}]
         /\ Rows' \subseteq Rows
         /\ \A i \in Rows' : /\ sessions'[i].second = sessions[i].second
                             /\ sessions'[i].token_version = sessions[i].token_version
                             /\ sessions'[i].checked = sessions[i].checked
<1>1. \A i \in Rows : sessions[i] \in Session
  BY DEF TypeOK, Rows
<1>2. \A i \in RowId : sessions'[i] = IF i \in Rows /\ sessions[i].user = u
          THEN [sessions[i] EXCEPT !.revoked = TRUE, !.stale = TRUE] ELSE sessions[i]
  BY DEF RevokeAll
<1>3. \A i \in Rows : [sessions[i] EXCEPT !.revoked = TRUE, !.stale = TRUE] \in Session
  BY <1>1 DEF Session
<1>4. sessions' \in [RowId -> Session \cup {None}]
  BY <1>3 DEF RevokeAll, TypeOK
<1>5. Rows' \subseteq Rows
  BY <1>2 DEF Rows
<1>6. QED BY <1>1, <1>2, <1>4, <1>5 DEF Rows, Session

(* The updates of the account's flags keep the users row well typed. *)
LEMMA AccountFlags ==
  ASSUME NEW a \in Account
  PROVE  /\ [a EXCEPT !.totp = TRUE] \in Account
         /\ \A b \in BOOLEAN : [a EXCEPT !.super = b] \in Account
         /\ [a EXCEPT !.deleted = TRUE, !.super = FALSE] \in Account
<1>1. [a EXCEPT !.totp = TRUE] \in Account
  BY DEF Account
<1>2. \A b \in BOOLEAN : [a EXCEPT !.super = b] \in Account
  BY DEF Account
<1>3. [a EXCEPT !.deleted = TRUE, !.super = FALSE] \in Account
  BY DEF Account
<1>4. QED BY <1>1, <1>2, <1>3

(* So do a new status, password and token_version. *)
LEMMA AccountFields ==
  ASSUME NEW a \in Account, NEW status \in {"active", "inactive"},
         NEW v \in 0..MaxVersion, NEW w \in Password
  PROVE  /\ [a EXCEPT !.password = w, !.token_version = v] \in Account
         /\ [a EXCEPT !.status = status, !.password = w, !.token_version = v] \in Account
         /\ [a EXCEPT !.password = w, !.status = status, !.token_version = v,
                      !.super = TRUE] \in Account
<1>1. [a EXCEPT !.password = w, !.token_version = v] \in Account
  BY DEF Account
<1>2. [a EXCEPT !.status = status, !.password = w, !.token_version = v] \in Account
  BY DEF Account
<1>3. [a EXCEPT !.password = w, !.status = status, !.token_version = v,
               !.super = TRUE] \in Account
  BY DEF Account
<1>4. QED BY <1>1, <1>2, <1>3

(* A request that has written its session row is well typed. *)
LEMMA WroteType ==
  ASSUME NEW r \in RequestState, NEW id \in RowId, NEW over \in SUBSET RowId
  PROVE  [r EXCEPT !.pc = "wrote", !.id = id, !.evict = over] \in RequestState
<1>1. id \in 0..MaxRows
  BY SessionAssumption DEF RowId
<1>2. QED BY <1>1 DEF RequestState, Pc

(* create inserts a well-typed session row. *)
LEMMA NewSessionType ==
  ASSUME NEW r \in RequestState, r.user \in User, NEW b \in BOOLEAN
  PROVE  [NewSession(r) EXCEPT !.revoked = b] \in Session
  BY DEF NewSession, Session, RequestState

(* Every operation that ends an account's sessions and otherwise changes   *)
(* only the users table preserves the invariant.                           *)
LEMMA StaleStep ==
  ASSUME IInv, NEW u \in User, RevokeAll(u), req' = MarkStale(u, req),
         users' \in [User -> Account], UNCHANGED <<nextId, clock, locks>>
  PROVE  IInv'
<1>1. req \in [Request -> RequestState]
  BY DEF IInv, TypeOK
<1>2. /\ req' \in [Request -> RequestState]
      /\ \A q \in Request :
           /\ req'[q].pc = req[q].pc /\ req'[q].user = req[q].user
           /\ req'[q].new = req[q].new /\ req'[q].id = req[q].id
           /\ req'[q].second = req[q].second
           /\ req'[q].token_version = req[q].token_version
           /\ req'[q].checked = req[q].checked
  BY <1>1, MarkStaleFacts
<1>3. TypeOK'
  BY <1>2, RevokeAllFacts DEF IInv, TypeOK
<1>4. WellFormed'
  BY <1>2 DEF IInv, WellFormed
<1>5. LocksHeld'
  BY <1>2, NoneAssumption DEF IInv, TypeOK, LocksHeld
<1>6. Provenance'
  BY <1>2, RevokeAllFacts DEF IInv, Provenance
<1>7. QED BY <1>3, <1>4, <1>5, <1>6 DEF IInv

(* So does one that changes only the users table. *)
LEMMA AccountsStep ==
  ASSUME IInv, users' \in [User -> Account],
         UNCHANGED <<sessions, nextId, clock, locks, req>>
  PROVE  IInv'
  BY DEF IInv, TypeOK, WellFormed, LocksHeld, Provenance, Rows

(* The invariant is preserved when login reads the users row. *)
LEMMA LoginReadStep ==
  ASSUME IInv, NEW p \in Request, NEW u \in User, NEW w \in Password, LoginRead(p, u, w)
  PROVE  IInv'
<1> DEFINE row == IF users[u].deleted THEN None ELSE RowOf(u)
           r == [Idle EXCEPT !.pc = "verify", !.user = u, !.password = w, !.row = row]
<1>1. req[p] \in RequestState /\ req' = [req EXCEPT ![p] = r]
  BY DEF IInv, TypeOK, LoginRead
<1>2. r \in RequestState
  <2>1. row \in UserRow \cup {None}
    BY RowType DEF IInv
  <2> HIDE DEF row
  <2>2. QED BY <2>1, IdleType DEF RequestState, Pc
<1>3. TypeOK'
  BY <1>1, <1>2, RequestUpdate DEF IInv, TypeOK, LoginRead, Account
<1>4. WellFormed'
  BY DEF IInv, TypeOK, LoginRead, WellFormed, RequestState, Idle
<1>5. LocksHeld'
  BY NoneAssumption DEF IInv, TypeOK, LoginRead, WellFormed, LocksHeld, RequestState, RowFree, Idle
<1>6. Provenance'
  BY DEF IInv, TypeOK, LoginRead, Provenance, RequestState, Rows, Idle
<1>7. QED BY <1>3, <1>4, <1>5, <1>6 DEF IInv

(* The invariant is preserved when login refuses a wrong password. *)
LEMMA LoginRejectStep ==
  ASSUME IInv, NEW p \in Request, LoginReject(p)
  PROVE  IInv'
<1> DEFINE r == Ended("failed")
<1>1. req[p] \in RequestState /\ req' = [req EXCEPT ![p] = r]
  BY DEF IInv, TypeOK, LoginReject
<1>2. r \in RequestState
  BY <1>1, EndedType DEF IInv, TypeOK, WellFormed, LoginReject, RequestState, Pc, Account
<1>3. TypeOK'
  BY <1>1, <1>2, RequestUpdate DEF IInv, TypeOK, LoginReject, Account
<1>4. WellFormed'
  BY DEF IInv, TypeOK, LoginReject, WellFormed, RequestState, Ended, Idle
<1>5. LocksHeld'
  BY NoneAssumption DEF IInv, TypeOK, LoginReject, WellFormed, LocksHeld, RequestState, RowFree, Ended, Idle
<1>6. Provenance'
  BY DEF IInv, TypeOK, LoginReject, Provenance, RequestState, Rows, Ended, Idle
<1>7. QED BY <1>3, <1>4, <1>5, <1>6 DEF IInv

(* The invariant is preserved when login goes on without a second factor. *)
LEMMA LoginAcceptStep ==
  ASSUME IInv, NEW p \in Request, LoginAccept(p)
  PROVE  IInv'
<1> DEFINE r == Verified(req[p], "create")
<1>1. req[p] \in RequestState /\ req' = [req EXCEPT ![p] = r]
  BY DEF IInv, TypeOK, LoginAccept
<1>2. r \in RequestState
  BY <1>1, VerifiedType DEF IInv, TypeOK, WellFormed, LoginAccept, RequestState, Pc, Account
<1>3. TypeOK'
  BY <1>1, <1>2, RequestUpdate DEF IInv, TypeOK, LoginAccept, Account
<1>4. WellFormed'
  BY DEF IInv, TypeOK, LoginAccept, WellFormed, RequestState, Verified
<1>5. LocksHeld'
  BY NoneAssumption DEF IInv, TypeOK, LoginAccept, WellFormed, LocksHeld, RequestState, RowFree, Verified
<1>6. Provenance'
  BY DEF IInv, TypeOK, LoginAccept, Provenance, RequestState, Rows, Verified
<1>7. QED BY <1>3, <1>4, <1>5, <1>6 DEF IInv

(* The invariant is preserved when begin_login issues a challenge. *)
LEMMA LoginChallengeStep ==
  ASSUME IInv, NEW p \in Request, LoginChallenge(p)
  PROVE  IInv'
<1> DEFINE u == req[p].user
           pc == IF users[u].totp THEN "challenge" ELSE "enroll"
           r == Verified(req[p], pc)
           e == Ended("failed")
<1>1. /\ req[p] \in RequestState /\ u \in User /\ req[p].pc = "verify"
      /\ UNCHANGED <<users, sessions, nextId, clock, locks>>
  BY DEF IInv, TypeOK, WellFormed, LoginChallenge
<1>2. r \in RequestState /\ r.pc = pc /\ r.user = u
  <2>1. pc \in Pc
    BY DEF Pc
  <2>2. r \in RequestState
    BY <1>1, <2>1, VerifiedType DEF LoginChallenge
  <2> HIDE DEF pc, u, e
  <2>3. r.pc = pc /\ r.user = req[p].user
    BY <1>1 DEF Verified, RequestState
  <2>4. QED BY <2>2, <2>3 DEF u
<1>3. e \in RequestState /\ e.pc = "failed"
  BY EndedType DEF Ended, Idle
<1>4. req' = [q \in Request |-> IF q = p THEN r ELSE IF Superseded(q, u) THEN e ELSE req[q]]
  BY DEF LoginChallenge
<1> HIDE DEF r, e
<1>5. TypeOK'
  BY <1>1, <1>2, <1>3, <1>4 DEF IInv, TypeOK
<1>6. \A q \in Request : \/ req'[q] = req[q] /\ q # p
                         \/ /\ req'[q].pc \in {"challenge", "enroll", "failed"}
                            /\ req'[q].pc # "failed" => req'[q].user \in User
                            /\ req[q].pc \notin {"locked", "wrote"}
  BY <1>1, <1>2, <1>3, <1>4 DEF Superseded
<1>7. WellFormed'
  BY <1>6 DEF IInv, WellFormed
<1>8. LocksHeld'
  BY <1>1, <1>6, NoneAssumption DEF IInv, TypeOK, LocksHeld
<1>9. Provenance'
  <2>1. (\A q \in Request : ~req[q].second /\
               req[q].pc \in {"create", "begun", "locked", "wrote"} =>
               req[q].token_version = req[q].checked)'
    BY <1>6 DEF IInv, Provenance
  <2>2. QED BY <1>1, <2>1 DEF IInv, Provenance, Rows
<1>10. QED BY <1>5, <1>7, <1>8, <1>9 DEF IInv

(* The invariant is preserved when verify_totp_login reads the row again. *)
LEMMA VerifyTotpStep ==
  ASSUME IInv, NEW p \in Request, VerifyTotp(p)
  PROVE  IInv'
<1> DEFINE r == [req[p] EXCEPT !.pc = "create", !.second = TRUE,
                    !.token_version = users[req[p].user].token_version]
<1>1. req[p] \in RequestState /\ req' = [req EXCEPT ![p] = r]
  BY DEF IInv, TypeOK, VerifyTotp
<1>2. r \in RequestState
  BY <1>1 DEF IInv, TypeOK, WellFormed, VerifyTotp, RequestState, Pc, Account
<1>3. TypeOK'
  BY <1>1, <1>2, RequestUpdate DEF IInv, TypeOK, VerifyTotp, Account
<1>4. WellFormed'
  BY DEF IInv, TypeOK, VerifyTotp, WellFormed, RequestState
<1>5. LocksHeld'
  BY NoneAssumption DEF IInv, TypeOK, VerifyTotp, WellFormed, LocksHeld, RequestState, RowFree
<1>6. Provenance'
  BY DEF IInv, TypeOK, VerifyTotp, Provenance, RequestState, Rows
<1>7. QED BY <1>3, <1>4, <1>5, <1>6 DEF IInv

(* The invariant is preserved by the first transaction of                  *)
(* verify_totp_enrollment.                                                 *)
LEMMA EnrollCheckStep ==
  ASSUME IInv, NEW p \in Request, EnrollCheck(p)
  PROVE  IInv'
<1> DEFINE r == [req[p] EXCEPT !.pc = "enrolling",
                    !.token_version = users[req[p].user].token_version]
<1>1. req[p] \in RequestState /\ req' = [req EXCEPT ![p] = r]
  BY DEF IInv, TypeOK, EnrollCheck
<1>2. r \in RequestState
  BY <1>1 DEF IInv, TypeOK, WellFormed, EnrollCheck, RequestState, Pc, Account
<1>3. TypeOK'
  BY <1>1, <1>2, RequestUpdate DEF IInv, TypeOK, EnrollCheck, Account
<1>4. WellFormed'
  BY DEF IInv, TypeOK, EnrollCheck, WellFormed, RequestState
<1>5. LocksHeld'
  BY NoneAssumption DEF IInv, TypeOK, EnrollCheck, WellFormed, LocksHeld, RequestState, RowFree
<1>6. Provenance'
  BY DEF IInv, TypeOK, EnrollCheck, Provenance, RequestState, Rows
<1>7. QED BY <1>3, <1>4, <1>5, <1>6 DEF IInv

(* The invariant is preserved by the second transaction of                 *)
(* verify_totp_enrollment.                                                 *)
LEMMA EnrollCommitStep ==
  ASSUME IInv, NEW p \in Request, EnrollCommit(p)
  PROVE  IInv'
<1> DEFINE r == [req[p] EXCEPT !.pc = "create", !.second = TRUE]
<1>1. req[p] \in RequestState /\ req' = [req EXCEPT ![p] = r]
  BY DEF IInv, TypeOK, EnrollCommit
<1>2. r \in RequestState
  BY <1>1 DEF RequestState, Pc
<1>3. TypeOK'
  <2>1. req[p].user \in User
    BY DEF IInv, WellFormed, EnrollCommit
  <2>2. [users[req[p].user] EXCEPT !.totp = TRUE] \in Account
    BY <2>1, AccountFlags DEF IInv, TypeOK
  <2>3. users' \in [User -> Account]
    BY <2>1, <2>2 DEF IInv, TypeOK, EnrollCommit
  <2>4. req' \in [Request -> RequestState]
    BY <1>1, <1>2, RequestUpdate DEF IInv, TypeOK
  <2>5. QED BY <2>3, <2>4 DEF IInv, TypeOK, EnrollCommit
<1>4. WellFormed'
  BY DEF IInv, TypeOK, EnrollCommit, WellFormed, RequestState
<1>5. LocksHeld'
  BY NoneAssumption DEF IInv, TypeOK, EnrollCommit, WellFormed, LocksHeld, RequestState
<1>6. Provenance'
  BY DEF IInv, TypeOK, EnrollCommit, Provenance, RequestState, Rows
<1>7. QED BY <1>3, <1>4, <1>5, <1>6 DEF IInv

(* The invariant is preserved when finish_passkey_authentication consumes  *)
(* the challenge.                                                          *)
LEMMA VerifyPasskeyStep ==
  ASSUME IInv, NEW p \in Request, VerifyPasskey(p)
  PROVE  IInv'
<1> DEFINE r == [req[p] EXCEPT !.pc = "reread", !.second = TRUE]
<1>1. req[p] \in RequestState /\ req' = [req EXCEPT ![p] = r]
  BY DEF IInv, TypeOK, VerifyPasskey
<1>2. r \in RequestState
  BY <1>1 DEF IInv, TypeOK, WellFormed, VerifyPasskey, RequestState, Pc, Account
<1>3. TypeOK'
  BY <1>1, <1>2, RequestUpdate DEF IInv, TypeOK, VerifyPasskey, Account
<1>4. WellFormed'
  BY DEF IInv, TypeOK, VerifyPasskey, WellFormed, RequestState
<1>5. LocksHeld'
  BY NoneAssumption DEF IInv, TypeOK, VerifyPasskey, WellFormed, LocksHeld, RequestState, RowFree
<1>6. Provenance'
  BY DEF IInv, TypeOK, VerifyPasskey, Provenance, RequestState, Rows
<1>7. QED BY <1>3, <1>4, <1>5, <1>6 DEF IInv

(* The invariant is preserved when verify_recovery_login revokes every     *)
(* session.                                                                *)
LEMMA VerifyRecoveryStep ==
  ASSUME IInv, NEW p \in Request, VerifyRecovery(p)
  PROVE  IInv'
<1> DEFINE m == MarkStale(req[p].user, req)
           r == [m[p] EXCEPT !.pc = "reread", !.second = TRUE, !.stale = req[p].stale]
<1>1. req[p].user \in User /\ req \in [Request -> RequestState]
  BY DEF IInv, TypeOK, WellFormed, VerifyRecovery
<1>2. /\ m \in [Request -> RequestState]
      /\ \A q \in Request :
           /\ m[q].pc = req[q].pc /\ m[q].user = req[q].user
           /\ m[q].new = req[q].new /\ m[q].id = req[q].id
           /\ m[q].second = req[q].second
           /\ m[q].token_version = req[q].token_version
           /\ m[q].checked = req[q].checked
  BY <1>1, MarkStaleFacts
<1>3. /\ req' = [m EXCEPT ![p] = r]
      /\ req[p].pc = "challenge"
      /\ RevokeAll(req[p].user)
      /\ UNCHANGED <<users, nextId, clock, locks>>
  BY <1>2 DEF VerifyRecovery
<1>4. r \in RequestState /\ r.pc = "reread" /\ r.second /\ r.user = req[p].user
  <2>1. m[p] \in RequestState /\ req[p] \in RequestState /\ m[p].user = req[p].user
    BY <1>1, <1>2
  <2> HIDE DEF m
  <2>2. QED BY <2>1 DEF RequestState, Pc
<1> HIDE DEF m, r
<1>5. req' \in [Request -> RequestState]
  BY <1>2, <1>3, <1>4
<1>6. TypeOK'
  BY <1>1, <1>3, <1>5, RevokeAllFacts DEF IInv, TypeOK
<1>7. WellFormed'
  BY <1>1, <1>2, <1>3, <1>4 DEF IInv, WellFormed
<1>8. LocksHeld'
  BY <1>2, <1>3, <1>4, NoneAssumption DEF IInv, TypeOK, LocksHeld
<1>9. Provenance'
  <2>1. \A q \in Request : ~req'[q].second /\
               req'[q].pc \in {"create", "begun", "locked", "wrote"} =>
               req'[q].token_version = req'[q].checked
    BY <1>2, <1>3, <1>4 DEF IInv, Provenance
  <2>2. QED BY <1>1, <1>3, <2>1, RevokeAllFacts DEF IInv, Provenance
<1>10. QED BY <1>6, <1>7, <1>8, <1>9 DEF IInv

(* The invariant is preserved when the users row is read after the second  *)
(* factor.                                                                 *)
LEMMA RereadStep ==
  ASSUME IInv, NEW p \in Request, Reread(p)
  PROVE  IInv'
<1> DEFINE r == IF users[req[p].user].deleted THEN Ended("failed")
                ELSE [req[p] EXCEPT !.pc = "create",
                        !.token_version = users[req[p].user].token_version]
<1>1. req[p] \in RequestState /\ req' = [req EXCEPT ![p] = r]
  BY DEF IInv, TypeOK, Reread
<1>2. r \in RequestState
  BY <1>1, EndedType DEF IInv, TypeOK, WellFormed, Reread, RequestState, Pc, Account
<1>3. TypeOK'
  BY <1>1, <1>2, RequestUpdate DEF IInv, TypeOK, Reread
<1>4. WellFormed'
  BY DEF IInv, TypeOK, Reread, WellFormed, RequestState, Ended, Idle
<1>5. LocksHeld'
  BY NoneAssumption DEF IInv, TypeOK, Reread, WellFormed, LocksHeld, RequestState, Ended, Idle
<1>6. Provenance'
  <2>1. req[p].second
    BY DEF IInv, WellFormed, Reread
  <2>2. r.pc = "failed" \/ r.second
    BY <1>1, <2>1 DEF Ended, Idle, RequestState
  <2>3. QED BY <1>1, <2>2 DEF IInv, TypeOK, Reread, Provenance, Rows
<1>7. QED BY <1>3, <1>4, <1>5, <1>6 DEF IInv

(* The invariant is preserved when a challenge ends unanswered. *)
LEMMA ChallengeLostStep ==
  ASSUME IInv, NEW p \in Request, ChallengeLost(p)
  PROVE  IInv'
<1> DEFINE r == Ended("failed")
<1>1. req[p] \in RequestState /\ req' = [req EXCEPT ![p] = r]
  BY DEF IInv, TypeOK, ChallengeLost
<1>2. r \in RequestState
  BY <1>1, EndedType DEF IInv, TypeOK, WellFormed, ChallengeLost, RequestState, Pc, Account
<1>3. TypeOK'
  BY <1>1, <1>2, RequestUpdate DEF IInv, TypeOK, ChallengeLost, Account
<1>4. WellFormed'
  BY DEF IInv, TypeOK, ChallengeLost, WellFormed, RequestState, Ended, Idle
<1>5. LocksHeld'
  BY NoneAssumption DEF IInv, TypeOK, ChallengeLost, WellFormed, LocksHeld, RequestState, RowFree, Ended, Idle
<1>6. Provenance'
  BY DEF IInv, TypeOK, ChallengeLost, Provenance, RequestState, Rows, Ended, Idle
<1>7. QED BY <1>3, <1>4, <1>5, <1>6 DEF IInv

(* The invariant is preserved when create_login_session begins its         *)
(* transaction.                                                            *)
LEMMA CreateBeginStep ==
  ASSUME IInv, NEW p \in Request, CreateBegin(p)
  PROVE  IInv'
<1> DEFINE r == [req[p] EXCEPT !.pc = "begun", !.began = clock]
<1>1. req[p] \in RequestState /\ req' = [req EXCEPT ![p] = r]
  BY DEF IInv, TypeOK, CreateBegin
<1>2. r \in RequestState
  BY <1>1 DEF IInv, TypeOK, WellFormed, CreateBegin, RequestState, Pc, Account
<1>3. TypeOK'
  BY <1>1, <1>2, RequestUpdate DEF IInv, TypeOK, CreateBegin, Account
<1>4. WellFormed'
  BY DEF IInv, TypeOK, CreateBegin, WellFormed, RequestState
<1>5. LocksHeld'
  BY NoneAssumption DEF IInv, TypeOK, CreateBegin, WellFormed, LocksHeld, RequestState, RowFree
<1>6. Provenance'
  BY DEF IInv, TypeOK, CreateBegin, Provenance, RequestState, Rows
<1>7. QED BY <1>3, <1>4, <1>5, <1>6 DEF IInv

(* The invariant is preserved when update_last_login locks the users row. *)
LEMMA CreateLockStep ==
  ASSUME IInv, NEW p \in Request, CreateLock(p)
  PROVE  IInv'
<1> DEFINE r == [req[p] EXCEPT !.pc = "locked"]
<1>1. req[p] \in RequestState /\ req' = [req EXCEPT ![p] = r]
  BY DEF IInv, TypeOK, CreateLock
<1>2. r \in RequestState
  BY <1>1 DEF IInv, TypeOK, WellFormed, CreateLock, RequestState, Pc, Account
<1>3. TypeOK'
  BY <1>1, <1>2, RequestUpdate DEF IInv, TypeOK, CreateLock, Account
<1>4. WellFormed'
  BY DEF IInv, TypeOK, CreateLock, WellFormed, RequestState
<1>5. LocksHeld'
  BY NoneAssumption DEF IInv, TypeOK, CreateLock, WellFormed, LocksHeld, RequestState, RowFree
<1>6. Provenance'
  BY DEF IInv, TypeOK, CreateLock, Provenance, RequestState, Rows
<1>7. QED BY <1>3, <1>4, <1>5, <1>6 DEF IInv

(* The invariant is preserved by create and enforce_user_limit inside the  *)
(* transaction.                                                            *)
LEMMA CreateWriteStep ==
  ASSUME IInv, NEW p \in Request, CreateWrite(p)
  PROVE  IInv'
<1> DEFINE over == OverLimit(NewSession(req[p]), nextId)
           r == [req[p] EXCEPT !.pc = "wrote", !.id = nextId, !.evict = over]
<1>1. req[p] \in RequestState /\ req' = [req EXCEPT ![p] = r]
  BY DEF IInv, TypeOK, CreateWrite
<1>2. nextId \in RowId
  BY SessionAssumption DEF IInv, TypeOK, CreateWrite, RowId
<1>3. over \in SUBSET RowId
  BY <1>2 DEF OverLimit, Unrevoked, Rows
<1> HIDE DEF over
<1>4. r \in RequestState
  BY <1>1, <1>2, <1>3, WroteType
<1>5. TypeOK'
  <2>1. nextId' \in 1..(MaxRows + 1)
    BY <1>2, SessionAssumption DEF CreateWrite, RowId
  <2>2. QED BY <1>1, <1>4, <2>1, RequestUpdate DEF IInv, TypeOK, CreateWrite
<1>6. WellFormed'
  BY <1>1, <1>2 DEF IInv, TypeOK, CreateWrite, WellFormed, RequestState
<1>7. LocksHeld'
  BY <1>1, NoneAssumption DEF IInv, TypeOK, CreateWrite, LocksHeld, RequestState
<1>8. Provenance'
  BY <1>1 DEF IInv, TypeOK, CreateWrite, Provenance, RequestState, Rows
<1>9. QED BY <1>5, <1>6, <1>7, <1>8 DEF IInv

(* The invariant is preserved when create_login_session commits and        *)
(* releases the row.                                                       *)
LEMMA CreateCommitStep ==
  ASSUME IInv, NEW p \in Request, CreateCommit(p)
  PROVE  IInv'
<1> DEFINE e == Ended("done")
           new(i) == [NewSession(req[p]) EXCEPT !.revoked = i \in req[p].evict]
<1>1. /\ req[p] \in RequestState /\ req' = [req EXCEPT ![p] = e]
      /\ req[p].pc = "wrote" /\ req[p].user \in User /\ locks[req[p].user] = p
  BY DEF IInv, TypeOK, WellFormed, LocksHeld, CreateCommit
<1>2. e \in RequestState /\ e.pc = "done"
  BY EndedType DEF Ended, Idle
<1>3. PICK old \in SUBSET {i \in Rows : sessions[i].revoked \/ sessions[i].expired} :
         sessions' = [i \in RowId |->
           IF i \in old THEN None
           ELSE IF i = req[p].id THEN new(i)
                ELSE IF i \in req[p].evict /\ i \in Rows
                     THEN [sessions[i] EXCEPT !.revoked = TRUE]
                     ELSE sessions[i]]
  BY DEF CreateCommit
<1>4. \A i \in RowId : new(i) \in Session
  <2> TAKE i \in RowId
  <2> DEFINE b == i \in req[p].evict
  <2>1. b \in BOOLEAN
    OBVIOUS
  <2> HIDE DEF b
  <2>2. [NewSession(req[p]) EXCEPT !.revoked = b] \in Session
    BY <1>1, <2>1, NewSessionType
  <2>3. QED BY <2>2 DEF b
<1>5. \A i \in Rows : sessions[i] \in Session
  BY DEF IInv, TypeOK, Rows
<1>6. \A i \in Rows : [sessions[i] EXCEPT !.revoked = TRUE] \in Session
  BY <1>5 DEF Session
<1>7. sessions' \in [RowId -> Session \cup {None}]
  <2> HIDE DEF new
  <2>1. QED BY <1>3, <1>4, <1>6 DEF IInv, TypeOK
<1>8. TypeOK'
  BY <1>1, <1>2, <1>7, RequestUpdate DEF IInv, TypeOK, CreateCommit
<1> HIDE DEF e
<1>9. WellFormed'
  BY <1>1, <1>2 DEF IInv, TypeOK, WellFormed
<1>10. LocksHeld'
  <2>1. locks' = [locks EXCEPT ![req[p].user] = None]
    BY DEF CreateCommit
  <2>2. \A q \in Request : req'[q].pc \in {"locked", "wrote"} => locks'[req'[q].user] = q
    <3> TAKE q \in Request
    <3> HAVE req'[q].pc \in {"locked", "wrote"}
    <3>1. q # p /\ req'[q] = req[q]
      BY <1>1, <1>2 DEF IInv, TypeOK
    <3>2. locks[req[q].user] = q /\ req[q].user \in User
      BY <3>1 DEF IInv, LocksHeld, WellFormed
    <3>3. req[q].user # req[p].user
      BY <1>1, <3>1, <3>2
    <3>4. QED BY <1>1, <2>1, <3>1, <3>2, <3>3 DEF IInv, TypeOK
  <2>3. \A u \in User : locks'[u] # None =>
           /\ req'[locks'[u]].pc \in {"locked", "wrote"}
           /\ req'[locks'[u]].user = u
    <3> TAKE u \in User
    <3> HAVE locks'[u] # None
    <3>1. u # req[p].user /\ locks'[u] = locks[u] /\ locks[u] \in Request
      BY <1>1, <2>1 DEF IInv, TypeOK
    <3>2. req[locks[u]].pc \in {"locked", "wrote"} /\ req[locks[u]].user = u
      BY <3>1 DEF IInv, LocksHeld
    <3>3. locks[u] # p
      BY <3>1, <3>2
    <3>4. QED BY <1>1, <3>1, <3>2, <3>3 DEF IInv, TypeOK
  <2>4. QED BY <2>2, <2>3 DEF LocksHeld
<1>11. Provenance'
  <2>1. \A q \in Request : ~req'[q].second /\
               req'[q].pc \in {"create", "begun", "locked", "wrote"} =>
               req'[q].token_version = req'[q].checked
    BY <1>1, <1>2 DEF IInv, TypeOK, Provenance
  <2>2. \A i \in RowId : /\ new(i).second = req[p].second
                         /\ new(i).token_version = req[p].token_version
                         /\ new(i).checked = req[p].checked
    BY DEF NewSession
  <2>3. ~req[p].second => req[p].token_version = req[p].checked
    BY <1>1 DEF IInv, Provenance
  <2>4. \A i \in Rows : /\ [sessions[i] EXCEPT !.revoked = TRUE].second = sessions[i].second
                        /\ [sessions[i] EXCEPT !.revoked = TRUE].token_version
                             = sessions[i].token_version
                        /\ [sessions[i] EXCEPT !.revoked = TRUE].checked = sessions[i].checked
    BY <1>5 DEF Session
  <2>5. \A i \in Rows' : \/ sessions'[i] = new(i)
                         \/ i \in Rows /\ sessions'[i] = [sessions[i] EXCEPT !.revoked = TRUE]
                         \/ i \in Rows /\ sessions'[i] = sessions[i]
    <3> HIDE DEF new
    <3>1. QED BY <1>3 DEF Rows
  <2> HIDE DEF new
  <2>6. \A i \in Rows' : ~sessions'[i].second =>
           sessions'[i].token_version = sessions'[i].checked
    <3> TAKE i \in Rows'
    <3>0. i \in RowId
      BY DEF Rows
    <3>1. CASE sessions'[i] = new(i)
      BY <3>0, <3>1, <2>2, <2>3
    <3>2. CASE i \in Rows /\ sessions'[i] = [sessions[i] EXCEPT !.revoked = TRUE]
      BY <3>2, <2>4 DEF IInv, Provenance
    <3>3. CASE i \in Rows /\ sessions'[i] = sessions[i]
      BY <3>3 DEF IInv, Provenance
    <3>4. QED BY <2>5, <3>1, <3>2, <3>3
  <2>7. QED BY <2>1, <2>6 DEF Provenance
<1>12. QED BY <1>8, <1>9, <1>10, <1>11 DEF IInv

(* The invariant is preserved when change_password verifies the current    *)
(* password.                                                               *)
LEMMA ChangeReadStep ==
  ASSUME IInv, NEW p \in Request, NEW u \in User, NEW w \in Password, NEW new \in Password, ChangeRead(p, u, w, new)
  PROVE  IInv'
<1> DEFINE r == [Idle EXCEPT !.pc = "hash", !.user = u, !.new = new]
<1>1. req[p] \in RequestState /\ req' = [req EXCEPT ![p] = r]
  BY DEF IInv, TypeOK, ChangeRead
<1>2. r \in RequestState
  BY <1>1, IdleType DEF IInv, TypeOK, WellFormed, ChangeRead, RequestState, Pc, Account
<1>3. TypeOK'
  BY <1>1, <1>2, RequestUpdate DEF IInv, TypeOK, ChangeRead, Account
<1>4. WellFormed'
  BY DEF IInv, TypeOK, ChangeRead, WellFormed, RequestState, Idle
<1>5. LocksHeld'
  BY NoneAssumption DEF IInv, TypeOK, ChangeRead, WellFormed, LocksHeld, RequestState, RowFree, Idle
<1>6. Provenance'
  BY DEF IInv, TypeOK, ChangeRead, Provenance, RequestState, Rows, Idle
<1>7. QED BY <1>3, <1>4, <1>5, <1>6 DEF IInv

(* The invariant is preserved when change_password commits. *)
LEMMA ChangeCommitStep ==
  ASSUME IInv, NEW p \in Request, ChangeCommit(p)
  PROVE  IInv'
<1> DEFINE u == req[p].user
           m == MarkStale(u, req)
           e == Ended("done")
<1>1. u \in User /\ req \in [Request -> RequestState] /\ req[p].new \in Password
  BY DEF IInv, TypeOK, WellFormed, ChangeCommit
<1>2. /\ m \in [Request -> RequestState]
      /\ \A q \in Request :
           /\ m[q].pc = req[q].pc /\ m[q].user = req[q].user
           /\ m[q].new = req[q].new /\ m[q].id = req[q].id
           /\ m[q].second = req[q].second
           /\ m[q].token_version = req[q].token_version
           /\ m[q].checked = req[q].checked
  BY <1>1, MarkStaleFacts
<1>3. /\ req' = [m EXCEPT ![p] = e]
      /\ req[p].pc = "hash"
      /\ RevokeAll(u)
      /\ UNCHANGED <<nextId, clock, locks>>
  BY DEF ChangeCommit
<1>4. e \in RequestState /\ e.pc = "done"
  BY EndedType DEF Ended, Idle
<1>5. users' \in [User -> Account]
  <2>1. /\ users[u] \in Account
        /\ users[u].token_version + 1 \in 0..MaxVersion
        /\ users[u].status \in {"active", "inactive"}
    BY <1>1, SessionAssumption DEF IInv, TypeOK, Account, ChangeCommit
  <2>2. [users[u] EXCEPT !.password = req[p].new,
                         !.token_version = users[u].token_version + 1] \in Account
    BY <1>1, <2>1, AccountFields
  <2>3. QED BY <1>1, <2>2 DEF IInv, TypeOK, ChangeCommit, SetPassword
<1> HIDE DEF m, e, u
<1>6. req' \in [Request -> RequestState]
  BY <1>2, <1>3, <1>4
<1>7. TypeOK'
  BY <1>1, <1>3, <1>5, <1>6, RevokeAllFacts DEF IInv, TypeOK
<1>8. WellFormed'
  BY <1>2, <1>3, <1>4 DEF IInv, WellFormed
<1>9. LocksHeld'
  BY <1>2, <1>3, <1>4, NoneAssumption DEF IInv, TypeOK, LocksHeld
<1>10. Provenance'
  <2>1. \A q \in Request : ~req'[q].second /\
               req'[q].pc \in {"create", "begun", "locked", "wrote"} =>
               req'[q].token_version = req'[q].checked
    BY <1>2, <1>3, <1>4 DEF IInv, Provenance
  <2>2. QED BY <1>1, <1>3, <2>1, RevokeAllFacts DEF IInv, Provenance
<1>11. QED BY <1>7, <1>8, <1>9, <1>10 DEF IInv

(* The invariant is preserved when change_password finds the account       *)
(* deleted.                                                                *)
LEMMA ChangeRefusedStep ==
  ASSUME IInv, NEW p \in Request, ChangeRefused(p)
  PROVE  IInv'
<1> DEFINE r == Ended("failed")
<1>1. req[p] \in RequestState /\ req' = [req EXCEPT ![p] = r]
  BY DEF IInv, TypeOK, ChangeRefused
<1>2. r \in RequestState
  BY <1>1, EndedType DEF IInv, TypeOK, WellFormed, ChangeRefused, RequestState, Pc, Account
<1>3. TypeOK'
  BY <1>1, <1>2, RequestUpdate DEF IInv, TypeOK, ChangeRefused, Account
<1>4. WellFormed'
  BY DEF IInv, TypeOK, ChangeRefused, WellFormed, RequestState, Ended, Idle
<1>5. LocksHeld'
  BY NoneAssumption DEF IInv, TypeOK, ChangeRefused, WellFormed, LocksHeld, RequestState, RowFree, Ended, Idle
<1>6. Provenance'
  BY DEF IInv, TypeOK, ChangeRefused, Provenance, RequestState, Rows, Ended, Idle
<1>7. QED BY <1>3, <1>4, <1>5, <1>6 DEF IInv

(* The invariant is preserved by users::update. *)
LEMMA AdminUpdateStep ==
  ASSUME IInv, NEW u \in User, NEW status \in {None, "active", "inactive"},
         NEW w \in Password \cup {None}, AdminUpdate(u, status, w)
  PROVE  IInv'
<1>1. users' \in [User -> Account]
  <2> DEFINE s == IF status = None THEN users[u].status ELSE status
             x == IF w = None THEN users[u].password ELSE w
             v == IF w = None THEN users[u].token_version
                              ELSE users[u].token_version + 1
  <2>1. users[u] \in Account
    BY DEF IInv, TypeOK
  <2>2. s \in {"active", "inactive"} /\ x \in Password
    BY <2>1 DEF Account
  <2>3. v \in 0..MaxVersion
    BY <2>1, SessionAssumption DEF Account, AdminUpdate
  <2>4. users' = [users EXCEPT ![u] = [users[u] EXCEPT !.status = s, !.password = x,
                                                        !.token_version = v]]
    BY <2>1 DEF AdminUpdate, IInv, TypeOK
  <2> HIDE DEF s, x, v
  <2>5. [users[u] EXCEPT !.status = s, !.password = x, !.token_version = v] \in Account
    BY <2>1, <2>2, <2>3, AccountFields
  <2>6. QED BY <2>4, <2>5 DEF IInv, TypeOK
<1>2. CASE w # None \/ status = "inactive"
  BY <1>1, <1>2, StaleStep DEF AdminUpdate
<1>3. CASE ~(w # None \/ status = "inactive")
  BY <1>1, <1>3, AccountsStep DEF AdminUpdate
<1>4. QED BY <1>2, <1>3

(* The invariant is preserved by users::delete. *)
LEMMA DeleteStep ==
  ASSUME IInv, NEW u \in User, Delete(u)
  PROVE  IInv'
<1>1. users' \in [User -> Account]
  BY AccountFlags DEF IInv, TypeOK, Delete
<1>2. QED BY <1>1, StaleStep DEF Delete

(* The invariant is preserved by bootstrap_super_admin. *)
LEMMA BootstrapStep ==
  ASSUME IInv, NEW u \in User, NEW w \in Password, Bootstrap(u, w)
  PROVE  IInv'
<1>1. users[u] \in Account /\ users[u].token_version + 1 \in 0..MaxVersion
  BY SessionAssumption DEF IInv, TypeOK, Account, Bootstrap
<1>2. [users[u] EXCEPT !.password = w, !.status = "active",
         !.token_version = users[u].token_version + 1, !.super = TRUE] \in Account
  BY <1>1, AccountFields
<1>3. users' \in [User -> Account]
  BY <1>2 DEF IInv, TypeOK, Bootstrap
<1>4. QED BY <1>3, StaleStep DEF Bootstrap

(* The invariant is preserved by users::assign_roles. *)
LEMMA AssignSuperStep ==
  ASSUME IInv, NEW u \in User, NEW b \in BOOLEAN, AssignSuper(u, b)
  PROVE  IInv'
<1>1. users' \in [User -> Account]
  BY AccountFlags DEF IInv, TypeOK, AssignSuper
<1>2. QED BY <1>1, AccountsStep DEF AssignSuper

(* The invariant is preserved by revoke_passkey and                        *)
(* regenerate_recovery_codes.                                              *)
LEMMA RevokeFactorStep ==
  ASSUME IInv, NEW u \in User, RevokeFactor(u)
  PROVE  IInv'
  BY StaleStep DEF RevokeFactor, IInv, TypeOK

(* logout, auth_context, expires_at and the idle timeout change one row,   *)
(* and in no way that would bring it back.                                 *)
LEMMA SessionRow ==
  ASSUME IInv, NEW i \in RowId, SessionStep(i)
  PROVE  /\ i \in Rows /\ sessions[i] \in Session
         /\ UNCHANGED <<users, nextId, clock, locks, req>>
         /\ \E s \in Session :
              /\ sessions' = [sessions EXCEPT ![i] = s]
              /\ s.user = sessions[i].user /\ s.second = sessions[i].second
              /\ s.token_version = sessions[i].token_version
              /\ s.checked = sessions[i].checked
              /\ sessions[i].revoked => s.revoked
              /\ sessions[i].expired => s.expired
              /\ sessions[i].idle /\ ~sessions[i].found => s.idle /\ ~s.found
<1>1. i \in Rows /\ sessions[i] \in Session
  BY DEF SessionStep, Logout, Expire, AuthRead, Touch, IdleOut, Usable, Rows, IInv, TypeOK
<1>2. UNCHANGED <<users, nextId, clock, locks, req>>
  BY DEF SessionStep, Logout, Expire, AuthRead, Touch, IdleOut
<1> DEFINE old == sessions[i]
           Kept(s) == /\ s \in Session
                      /\ s.user = old.user /\ s.second = old.second
                      /\ s.token_version = old.token_version
                      /\ s.checked = old.checked
                      /\ old.revoked => s.revoked
                      /\ old.expired => s.expired
                      /\ old.idle /\ ~old.found => s.idle /\ ~s.found
<1>3. \E s : sessions' = [sessions EXCEPT ![i] = s] /\ Kept(s)
  <2>1. CASE Logout(i)
    <3>1. Kept([old EXCEPT !.revoked = TRUE])
      BY <1>1 DEF Session
    <3>2. sessions' = [sessions EXCEPT ![i] = [old EXCEPT !.revoked = TRUE]]
      BY <2>1 DEF Logout
    <3>3. QED BY <3>1, <3>2
  <2>2. CASE Expire(i)
    <3>1. Kept([old EXCEPT !.expired = TRUE])
      BY <1>1 DEF Session
    <3>2. sessions' = [sessions EXCEPT ![i] = [old EXCEPT !.expired = TRUE]]
      BY <2>2 DEF Expire
    <3>3. QED BY <3>1, <3>2
  <2>3. CASE AuthRead(i)
    <3>1. ~old.idle
      BY <2>3 DEF AuthRead, Usable
    <3>2. Kept([old EXCEPT !.found = TRUE])
      BY <1>1, <3>1 DEF Session
    <3>3. sessions' = [sessions EXCEPT ![i] = [old EXCEPT !.found = TRUE]]
      BY <2>3 DEF AuthRead
    <3>4. QED BY <3>2, <3>3
  <2>4. CASE Touch(i)
    <3>1. PICK idle \in {FALSE, old.idle}, more \in BOOLEAN :
              sessions' = [sessions EXCEPT ![i].idle = idle, ![i].found = more]
      BY <2>4 DEF Touch
    <3>2. sessions' = [sessions EXCEPT ![i] = [old EXCEPT !.idle = idle, !.found = more]]
      BY <1>1, <3>1 DEF IInv, TypeOK
    <3>3. old.found /\ idle \in BOOLEAN
      BY <1>1, <2>4 DEF Touch, Session
    <3>4. Kept([old EXCEPT !.idle = idle, !.found = more])
      BY <1>1, <3>3 DEF Session
    <3>5. QED BY <3>2, <3>4
  <2>5. CASE IdleOut(i)
    <3>1. Kept([old EXCEPT !.idle = TRUE])
      BY <1>1 DEF Session
    <3>2. sessions' = [sessions EXCEPT ![i] = [old EXCEPT !.idle = TRUE]]
      BY <2>5 DEF IdleOut
    <3>3. QED BY <3>1, <3>2
  <2>6. QED BY <2>1, <2>2, <2>3, <2>4, <2>5 DEF SessionStep
<1>4. QED BY <1>1, <1>2, <1>3

(* The invariant does not look at what such a step changes. *)
LEMMA SessionEndStep ==
  ASSUME IInv, NEW i \in RowId, SessionStep(i)
  PROVE  IInv'
<1>1. i \in Rows /\ sessions[i] \in Session
  BY SessionRow
<1>2. PICK s \in Session : /\ sessions' = [sessions EXCEPT ![i] = s]
                           /\ s.second = sessions[i].second
                           /\ s.token_version = sessions[i].token_version
                           /\ s.checked = sessions[i].checked
  BY SessionRow
<1>3. UNCHANGED <<users, nextId, clock, locks, req>>
  BY SessionRow
<1>4. TypeOK'
  BY <1>2, <1>3 DEF IInv, TypeOK
<1>5. WellFormed' /\ LocksHeld'
  BY <1>3 DEF IInv, WellFormed, LocksHeld
<1>6. Provenance'
  BY <1>1, <1>2, <1>3 DEF IInv, TypeOK, Provenance, Rows
<1>7. QED BY <1>4, <1>5, <1>6 DEF IInv

(* A step of nobody. *)
LEMMA StutterStep == IInv /\ UNCHANGED vars => IInv'
  BY DEF vars, IInv, TypeOK, WellFormed, LocksHeld, Provenance, Rows

(* The induction step: every step of the program keeps the invariant. *)
LEMMA NextIInv == IInv /\ [Next]_vars => IInv'
<1> SUFFICES ASSUME IInv, [Next]_vars PROVE IInv'
  OBVIOUS
<1>1. ASSUME NEW p \in Request, Client(p) PROVE IInv'
  BY <1>1, LoginReadStep, ChangeReadStep DEF Client
<1>2. ASSUME NEW p \in Request, LoginStep(p) PROVE IInv'
  BY <1>2, LoginRejectStep, LoginAcceptStep, LoginChallengeStep, RereadStep,
     CreateBeginStep, CreateLockStep, CreateWriteStep, CreateCommitStep,
     ChangeCommitStep, ChangeRefusedStep DEF LoginStep
<1>3. ASSUME NEW p \in Request, SecondFactor(p) PROVE IInv'
  BY <1>3, VerifyTotpStep, EnrollCheckStep, EnrollCommitStep, VerifyPasskeyStep,
     VerifyRecoveryStep, ChallengeLostStep DEF SecondFactor
<1>4. ASSUME NEW u \in User, AccountStep(u) PROVE IInv'
  BY <1>4, AdminUpdateStep, DeleteStep, BootstrapStep, AssignSuperStep,
     RevokeFactorStep DEF AccountStep
<1>5. ASSUME NEW i \in RowId, SessionStep(i) PROVE IInv'
  BY <1>5, SessionEndStep
<1>6. ASSUME UNCHANGED vars PROVE IInv'
  BY <1>6, StutterStep
<1>7. QED BY <1>1, <1>2, <1>3, <1>4, <1>5, <1>6 DEF Next

-----------------------------------------------------------------------------
(* The inductive invariant holds in every reachable state. *)
LEMMA Inductive == Spec => []IInv
  BY InitIInv, NextIInv, PTL DEF Spec

(* Every variable keeps its type, whatever the interleaving: rows and      *)
(* requests are complete and token_version stays within its column.        *)
THEOREM TypeCorrect == Spec => []TypeOK
<1>1. IInv => TypeOK
  BY DEF IInv
<1>2. QED BY <1>1, Inductive, PTL

(* A users row is locked by exactly the login that is between              *)
(* update_last_login and its commit: no two logins of one account are ever *)
(* inside enforce_user_limit together, and no finished one keeps the lock. *)
THEOREM LocksDisciplined == Spec => []LockDiscipline
<1>1. IInv => LockDiscipline
  <2> SUFFICES ASSUME IInv, NEW p \in Request, NEW u \in User
               PROVE  locks[u] = p <=>
                          req[p].pc \in {"locked", "wrote"} /\ req[p].user = u
    BY DEF LockDiscipline
  <2>1. req[p].pc \in {"locked", "wrote"} => locks[req[p].user] = p
    BY DEF IInv, LocksHeld
  <2>2. locks[u] = p => req[p].pc \in {"locked", "wrote"} /\ req[p].user = u
    BY NoneAssumption DEF IInv, LocksHeld
  <2>3. QED BY <2>1, <2>2
<1>2. QED BY <1>1, Inductive, PTL

(* No session that auth_context accepts comes from a password check that   *)
(* was made before the account's password was last set, unless its login   *)
(* passed a second factor after it.                                        *)
THEOREM NewPasswordFences == Spec => []NewPasswordEndsLogins
<1>1. IInv => NewPasswordEndsLogins
  BY DEF IInv, Provenance, NewPasswordEndsLogins, Usable
<1>2. QED BY <1>1, Inductive, PTL

-----------------------------------------------------------------------------
(* The number of sessions *)

(* A set of natural numbers that is not empty has a least one. *)
LEMMA LeastNat ==
  ASSUME NEW S \in SUBSET Nat, S # {}
  PROVE  \E n \in S : \A m \in S : n <= m
<1>1. IsWellFoundedOn(OpToRel(<, Nat), Nat)
  BY NatLessThanWellFounded
<1>2. PICK n \in S : \A m \in S : ~(<<m, n>> \in OpToRel(<, Nat))
  BY <1>1, WFMin
<1>3. \A m \in S : ~(m < n)
  BY <1>2 DEF OpToRel
<1>4. QED BY <1>3

(* The rows of a table are finitely many. *)
LEMMA RowsFinite == ASSUME NEW S \in SUBSET RowId PROVE IsFiniteSet(S)
<1>1. IsFiniteSet(RowId)
  BY SessionAssumption, FS_Interval DEF RowId
<1>2. QED BY <1>1, FS_Subset

(* Whoever comes after fewer than n others, in the order of time and then  *)
(* of ids, is one of n at most: the last of them comes after all the rest. *)
LEMMA FirstAreFew ==
  ASSUME NEW L \in SUBSET RowId, NEW born \in [L -> Nat], NEW n \in Nat \ {0}
  PROVE  LET before(i) == {j \in L : born[j] > born[i] \/ (born[j] = born[i] /\ j > i)}
             K == {i \in L : ~(Cardinality(before(i)) >= n)}
         IN  Cardinality(K) <= n
<1> DEFINE before(i) == {j \in L : born[j] > born[i] \/ (born[j] = born[i] /\ j > i)}
           K == {i \in L : ~(Cardinality(before(i)) >= n)}
<1>0. RowId \subseteq Nat /\ IsFiniteSet(K) /\ \A i \in L : IsFiniteSet(before(i))
  <2>1. RowId \subseteq Nat
    BY DEF RowId
  <2>2. K \in SUBSET RowId /\ \A i \in L : before(i) \in SUBSET RowId
    OBVIOUS
  <2> HIDE DEF K, before
  <2>3. QED BY <2>1, <2>2, RowsFinite
<1>1. CASE K = {}
  <2> HIDE DEF K
  <2>1. Cardinality(K) <= n
    BY <1>1, FS_EmptySet
  <2>2. QED BY <2>1 DEF K
<1>2. CASE K # {}
  <2> DEFINE T == {born[i] : i \in K}
  <2>1. T \in SUBSET Nat /\ T # {}
    BY <1>2
  <2>2. PICK t \in T : \A m \in T : t <= m
    BY <2>1, LeastNat
  <2> DEFINE F == {i \in K : born[i] = t}
  <2>3. F \in SUBSET Nat /\ F # {}
    BY <1>0, <2>2
  <2>4. PICK x \in F : \A m \in F : x <= m
    BY <2>3, LeastNat
  <2>5. x \in K /\ born[x] = t /\ x \in L /\ t \in Nat
    BY <2>4
  <2>6. ASSUME NEW i \in K \ {x} PROVE i \in before(x)
    <3>1. i \in L /\ born[i] \in Nat /\ born[i] \in T /\ i \in Nat /\ x \in Nat
      BY <1>0, <2>5
    <3>2. t <= born[i]
      BY <2>2, <3>1
    <3>3. born[i] = t => x <= i
      BY <2>4
    <3>4. QED BY <2>5, <3>1, <3>2, <3>3
  <2> HIDE DEF before, K
  <2>7. Cardinality(K \ {x}) <= Cardinality(before(x))
    BY <1>0, <2>5, <2>6, FS_Subset
  <2>8. Cardinality(before(x)) \in Nat /\ ~(Cardinality(before(x)) >= n)
    BY <1>0, <2>5, FS_CardinalityType DEF K
  <2>9. Cardinality(K \ {x}) = Cardinality(K) - 1 /\ Cardinality(K) \in Nat
    BY <1>0, <2>5, FS_RemoveElement, FS_CardinalityType
  <2>10. QED BY <2>7, <2>8, <2>9 DEF K, before
<1>3. QED BY <1>1, <1>2

(* enforce_user_limit leaves no more than it should, of the rows that its  *)
(* transaction sees.                                                       *)
LEMMA LimitEnforced ==
  ASSUME IInv, NEW s \in Session, NEW id \in RowId
  PROVE  Cardinality((Unrevoked(s.user) \cup {id}) \ OverLimit(s, id)) <= MaxSessions
<1> DEFINE L == Unrevoked(s.user) \cup {id}
           at(i) == IF i = id THEN s ELSE sessions[i]
           born == [i \in L |-> at(i).created_at]
           before(i) == {j \in L : born[j] > born[i] \/ (born[j] = born[i] /\ j > i)}
           K == {i \in L : ~(Cardinality(before(i)) >= MaxSessions)}
<1>1. L \in SUBSET RowId
  BY DEF Unrevoked, Rows
<1>2. \A i \in L : at(i) \in Session
  BY DEF IInv, TypeOK, Unrevoked, Rows
<1>3. born \in [L -> Nat]
  BY <1>2 DEF Session
<1>4. \A i, j \in L : Newer(at(j), j, at(i), i) <=>
         born[j] > born[i] \/ (born[j] = born[i] /\ j > i)
  BY DEF Newer
<1>5. \A i \in L : {j \in L : Newer(at(j), j, at(i), i)} = before(i)
  BY <1>4
<1>6. OverLimit(s, id) = {i \in L : Cardinality({j \in L : Newer(at(j), j, at(i), i)})
                                      >= MaxSessions}
  BY DEF OverLimit
<1>7. L \ OverLimit(s, id) = K
  <2> HIDE DEF L, at, before
  <2>1. QED BY <1>5, <1>6
<1> HIDE DEF L, born
<1>8. Cardinality(K) <= MaxSessions
  BY <1>1, <1>3, SessionAssumption, FirstAreFew
<1>9. Cardinality(L \ OverLimit(s, id)) <= MaxSessions
  BY <1>7, <1>8
<1>10. QED BY <1>9 DEF L

-----------------------------------------------------------------------------
(* What every step but a login's last two leaves alone *)

(* No session is added, and none is taken back to life. *)
OnlyEnds ==
    \A i \in Rows' :
        /\ i \in Rows
        /\ sessions'[i].user = sessions[i].user
        /\ sessions'[i].token_version = sessions[i].token_version
        /\ sessions[i].revoked => sessions'[i].revoked
        /\ sessions[i].expired => sessions'[i].expired
        /\ sessions[i].idle /\ ~sessions[i].found =>
               sessions'[i].idle /\ ~sessions'[i].found

(* token_version is counted up, and deleted_at is never taken back. *)
AccountsGrow ==
    \A u \in User : /\ users[u].token_version <= users'[u].token_version
                    /\ users[u].deleted => users'[u].deleted

(* A request knows no token_version yet to come. *)
Versioned(r) ==
    r.user \in User =>
        /\ r.token_version <= users[r.user].token_version
        /\ r.row # None => r.row.token_version <= users[r.user].token_version

VersionsOld ==
    /\ \A p \in Request : Versioned(req[p])
    /\ \A i \in Rows : sessions[i].token_version <= users[sessions[i].user].token_version

(* The request q goes on as it was, but for its history. *)
SameTask(q) ==
    /\ req'[q].pc = req[q].pc /\ req'[q].user = req[q].user /\ req'[q].row = req[q].row
    /\ req'[q].token_version = req[q].token_version
    /\ req'[q].id = req[q].id /\ req'[q].evict = req[q].evict

Quiet ==
    /\ OnlyEnds /\ AccountsGrow /\ nextId' = nextId
    /\ \A q \in Request : \/ SameTask(q)
                          \/ req'[q].pc # "wrote" /\ Versioned(req'[q])

(* An account that is left alone does not shrink. *)
LEMMA AccountsStay ==
  ASSUME TypeOK, UNCHANGED users
  PROVE  AccountsGrow
<1>1. \A u \in User : users[u].token_version \in Nat
  BY SessionAssumption DEF TypeOK, Account
<1>2. QED BY <1>1 DEF AccountsGrow

(* Neither do sessions that are left alone come back. *)
LEMMA SessionsStay == ASSUME UNCHANGED sessions PROVE OnlyEnds
  BY DEF OnlyEnds, Rows

(* Most steps change one request, and write nothing. *)
LEMMA RequestQuiet ==
  ASSUME IInv, NEW p \in Request, NEW r, req' = [req EXCEPT ![p] = r],
         r.pc # "wrote", Versioned(r), UNCHANGED <<users, sessions, nextId>>
  PROVE  Quiet
<1>1. OnlyEnds /\ AccountsGrow
  BY AccountsStay, SessionsStay DEF IInv
<1>2. ASSUME NEW q \in Request
      PROVE  SameTask(q) \/ (req'[q].pc # "wrote" /\ Versioned(req'[q]))
  BY DEF SameTask, IInv, TypeOK
<1>3. QED BY <1>1, <1>2 DEF Quiet

(* A request that is over knows no account. *)
LEMMA EndedQuiet ==
  ASSUME NEW how \in {"done", "failed"}
  PROVE  Ended(how).pc = how /\ Versioned(Ended(how))
  BY NoneAssumption DEF Ended, Idle, Versioned

(* revoke_all_for_user ends sessions, and is noted in the requests. *)
LEMMA RevokeAllEnds ==
  ASSUME TypeOK, NEW u \in User, RevokeAll(u)
  PROVE  OnlyEnds
<1>1. \A i \in Rows : sessions[i] \in Session
  BY DEF TypeOK, Rows
<1>2. ASSUME NEW i \in Rows'
      PROVE  /\ i \in Rows
             /\ sessions'[i].user = sessions[i].user
             /\ sessions'[i].token_version = sessions[i].token_version
             /\ sessions[i].revoked => sessions'[i].revoked
             /\ sessions[i].expired => sessions'[i].expired
             /\ sessions[i].idle /\ ~sessions[i].found =>
                    sessions'[i].idle /\ ~sessions'[i].found
  <2>1. i \in Rows
    BY RevokeAllFacts
  <2>2. \/ sessions'[i] = [sessions[i] EXCEPT !.revoked = TRUE, !.stale = TRUE]
        \/ sessions'[i] = sessions[i]
    BY <2>1 DEF RevokeAll, Rows
  <2>3. QED BY <1>1, <2>1, <2>2 DEF Session
<1>3. QED BY <1>2 DEF OnlyEnds

(* The operations that end an account's sessions. *)
LEMMA StaleQuiet ==
  ASSUME IInv, NEW u \in User, RevokeAll(u), req' = MarkStale(u, req), AccountsGrow,
         UNCHANGED nextId
  PROVE  Quiet
<1>1. OnlyEnds
  BY RevokeAllEnds DEF IInv
<1>2. \A q \in Request : SameTask(q)
  BY MarkStaleFacts DEF SameTask, IInv, TypeOK
<1>3. QED BY <1>1, <1>2 DEF Quiet

(* The steps of a login up to its transaction. *)
LEMMA LoginQuiet ==
  ASSUME IInv, VersionsOld, NEW p \in Request,
         \/ \E u \in User, w \in Password : LoginRead(p, u, w)
         \/ LoginReject(p) \/ LoginAccept(p) \/ LoginChallenge(p)
         \/ Reread(p) \/ CreateBegin(p) \/ CreateLock(p)
  PROVE  Quiet
<1>0. req \in [Request -> RequestState] /\ req[p] \in RequestState /\ Versioned(req[p])
  BY DEF IInv, TypeOK, VersionsOld
<1>1. ASSUME NEW u \in User, NEW w \in Password, LoginRead(p, u, w)
      PROVE  Quiet
  <2> DEFINE row == IF users[u].deleted THEN None ELSE RowOf(u)
             r == [Idle EXCEPT !.pc = "verify", !.user = u, !.password = w, !.row = row]
  <2>1. req' = [req EXCEPT ![p] = r] /\ UNCHANGED <<users, sessions, nextId>>
    BY <1>1 DEF LoginRead
  <2>2. users[u].token_version \in Nat
    BY SessionAssumption DEF IInv, TypeOK, Account
  <2>3. row # None => row.token_version = users[u].token_version
    BY DEF RowOf
  <2> HIDE DEF row
  <2>4. r.pc = "verify" /\ r.user = u /\ r.row = row /\ r.token_version = 0
    BY DEF Idle
  <2> HIDE DEF r
  <2>5. Versioned(r)
    BY <2>2, <2>3, <2>4 DEF Versioned
  <2>6. QED BY <2>1, <2>4, <2>5, RequestQuiet
<1>2. CASE LoginReject(p)
  BY <1>2, EndedQuiet, RequestQuiet DEF LoginReject
<1>3. CASE LoginAccept(p)
  <2> DEFINE r == Verified(req[p], "create")
  <2>1. req' = [req EXCEPT ![p] = r] /\ UNCHANGED <<users, sessions, nextId>>
    BY <1>0, <1>3 DEF LoginAccept
  <2>2. r.pc = "create" /\ Versioned(r)
    BY <1>0, <1>3 DEF LoginAccept, Authenticated, Verified, Versioned, RequestState
  <2> HIDE DEF r
  <2>3. QED BY <2>1, <2>2, RequestQuiet
<1>4. CASE LoginChallenge(p)
  <2>1. UNCHANGED <<users, sessions, nextId>>
    BY <1>4 DEF LoginChallenge
  <2>2. OnlyEnds /\ AccountsGrow
    BY <2>1, AccountsStay, SessionsStay DEF IInv
  <2>3. ASSUME NEW q \in Request
        PROVE  SameTask(q) \/ (req'[q].pc # "wrote" /\ Versioned(req'[q]))
    <3>1. CASE q = p
      <4>1. PICK pc \in {"challenge", "enroll"} : req'[q] = Verified(req[p], pc)
        BY <1>4, <3>1 DEF LoginChallenge
      <4>2. Verified(req[p], pc).pc = pc /\ Versioned(Verified(req[p], pc))
        BY <1>0, <1>4 DEF LoginChallenge, Authenticated, Verified, Versioned, RequestState
      <4>3. QED BY <4>1, <4>2
    <3>2. CASE q # p
      <4>1. req'[q] = Ended("failed") \/ req'[q] = req[q]
        BY <1>4, <3>2 DEF LoginChallenge
      <4>2. QED BY <4>1, EndedQuiet DEF SameTask
    <3>3. QED BY <3>1, <3>2
  <2>4. QED BY <2>1, <2>2, <2>3 DEF Quiet
<1>5. CASE Reread(p)
  <2> DEFINE r == [req[p] EXCEPT !.pc = "create",
                                 !.token_version = users[req[p].user].token_version]
  <2>1. /\ req' = [req EXCEPT ![p] = Ended("failed")] \/ req' = [req EXCEPT ![p] = r]
        /\ UNCHANGED <<users, sessions, nextId>>
    BY <1>5 DEF Reread
  <2>2. users[req[p].user].token_version \in Nat /\ req[p].user \in User
    BY <1>5, SessionAssumption DEF IInv, TypeOK, WellFormed, Account, Reread
  <2>3. r.pc = "create" /\ Versioned(r)
    BY <1>0, <2>2 DEF Versioned, RequestState
  <2> HIDE DEF r
  <2>4. QED BY <2>1, <2>3, EndedQuiet, RequestQuiet
<1>6. CASE CreateBegin(p)
  <2> DEFINE r == [req[p] EXCEPT !.pc = "begun", !.began = clock]
  <2>1. req' = [req EXCEPT ![p] = r] /\ UNCHANGED <<users, sessions, nextId>>
    BY <1>0, <1>6 DEF CreateBegin
  <2>2. r.pc = "begun" /\ Versioned(r)
    BY <1>0 DEF Versioned, RequestState
  <2> HIDE DEF r
  <2>3. QED BY <2>1, <2>2, RequestQuiet
<1>7. CASE CreateLock(p)
  <2> DEFINE r == [req[p] EXCEPT !.pc = "locked"]
  <2>1. req' = [req EXCEPT ![p] = r] /\ UNCHANGED <<users, sessions, nextId>>
    BY <1>0, <1>7 DEF CreateLock
  <2>2. r.pc = "locked" /\ Versioned(r)
    BY <1>0 DEF Versioned, RequestState
  <2> HIDE DEF r
  <2>3. QED BY <2>1, <2>2, RequestQuiet
<1>8. QED BY <1>1, <1>2, <1>3, <1>4, <1>5, <1>6, <1>7

(* The second factor: a row that is read again is read as it is. *)
LEMMA SecondFactorQuiet ==
  ASSUME IInv, VersionsOld, NEW p \in Request, SecondFactor(p)
  PROVE  Quiet
<1>0. req \in [Request -> RequestState] /\ req[p] \in RequestState /\ Versioned(req[p])
  BY DEF IInv, TypeOK, VersionsOld
<1>1. req[p].user \in User /\ users[req[p].user].token_version \in Nat
  BY SessionAssumption DEF SecondFactor, VerifyTotp, EnrollCheck, EnrollCommit,
     VerifyPasskey, VerifyRecovery, ChallengeLost, IInv, TypeOK, WellFormed, Account
<1>2. CASE VerifyTotp(p)
  <2> DEFINE r == [req[p] EXCEPT !.pc = "create", !.second = TRUE,
                                 !.token_version = users[req[p].user].token_version]
  <2>1. req' = [req EXCEPT ![p] = r] /\ UNCHANGED <<users, sessions, nextId>>
    BY <1>0, <1>2 DEF VerifyTotp
  <2>2. r.pc = "create" /\ Versioned(r)
    BY <1>0, <1>1 DEF Versioned, RequestState
  <2> HIDE DEF r
  <2>3. QED BY <2>1, <2>2, RequestQuiet
<1>3. CASE EnrollCheck(p)
  <2> DEFINE r == [req[p] EXCEPT !.pc = "enrolling",
                                 !.token_version = users[req[p].user].token_version]
  <2>1. req' = [req EXCEPT ![p] = r] /\ UNCHANGED <<users, sessions, nextId>>
    BY <1>0, <1>3 DEF EnrollCheck
  <2>2. r.pc = "enrolling" /\ Versioned(r)
    BY <1>0, <1>1 DEF Versioned, RequestState
  <2> HIDE DEF r
  <2>3. QED BY <2>1, <2>2, RequestQuiet
<1>4. CASE EnrollCommit(p)
  <2> DEFINE r == [req[p] EXCEPT !.pc = "create", !.second = TRUE]
             a == [users[req[p].user] EXCEPT !.totp = TRUE]
  <2>1. /\ req' = [req EXCEPT ![p] = r] /\ UNCHANGED <<sessions, nextId>>
        /\ users' = [users EXCEPT ![req[p].user] = a]
    BY <1>0, <1>4 DEF EnrollCommit
  <2>2. r.pc = "create" /\ Versioned(r)
    BY <1>0, <1>1 DEF Versioned, RequestState
  <2>3. /\ a.token_version = users[req[p].user].token_version
        /\ a.deleted = users[req[p].user].deleted
    BY <1>1 DEF IInv, TypeOK, Account
  <2>4. \A u \in User : users[u].token_version \in Nat
    BY SessionAssumption DEF IInv, TypeOK, Account
  <2> HIDE DEF r, a
  <2>5. AccountsGrow
    BY <1>1, <2>1, <2>3, <2>4 DEF AccountsGrow, IInv, TypeOK
  <2>6. OnlyEnds
    BY <2>1, SessionsStay
  <2>7. \A q \in Request : SameTask(q) \/ (req'[q].pc # "wrote" /\ Versioned(req'[q]))
    BY <1>0, <2>1, <2>2 DEF SameTask
  <2>8. QED BY <2>1, <2>5, <2>6, <2>7 DEF Quiet
<1>5. CASE VerifyPasskey(p)
  <2> DEFINE r == [req[p] EXCEPT !.pc = "reread", !.second = TRUE]
  <2>1. req' = [req EXCEPT ![p] = r] /\ UNCHANGED <<users, sessions, nextId>>
    BY <1>0, <1>5 DEF VerifyPasskey
  <2>2. r.pc = "reread" /\ Versioned(r)
    BY <1>0 DEF Versioned, RequestState
  <2> HIDE DEF r
  <2>3. QED BY <2>1, <2>2, RequestQuiet
<1>6. CASE VerifyRecovery(p)
  <2> DEFINE m == MarkStale(req[p].user, req)
             r == [m[p] EXCEPT !.pc = "reread", !.second = TRUE, !.stale = req[p].stale]
  <2>1. /\ m \in [Request -> RequestState]
        /\ \A q \in Request :
             /\ m[q].pc = req[q].pc /\ m[q].user = req[q].user /\ m[q].id = req[q].id
             /\ m[q].token_version = req[q].token_version
             /\ m[q].row = req[q].row /\ m[q].evict = req[q].evict
    BY <1>0, <1>1, MarkStaleFacts
  <2>2. /\ req' = [m EXCEPT ![p] = r] /\ RevokeAll(req[p].user)
        /\ UNCHANGED <<users, nextId>>
    BY <1>6, <2>1 DEF VerifyRecovery
  <2>3. m[p] \in RequestState
    BY <2>1
  <2> HIDE DEF m
  <2>4. /\ r.pc = "reread" /\ r.user = m[p].user /\ r.row = m[p].row
        /\ r.token_version = m[p].token_version
    BY <2>3 DEF RequestState
  <2>5. Versioned(r)
    BY <1>0, <2>1, <2>4 DEF Versioned
  <2> HIDE DEF r
  <2>6. \A q \in Request : SameTask(q) \/ (req'[q].pc # "wrote" /\ Versioned(req'[q]))
    BY <2>1, <2>2, <2>4, <2>5 DEF SameTask
  <2>7. OnlyEnds /\ AccountsGrow
    BY <1>1, <2>2, RevokeAllEnds, AccountsStay DEF IInv
  <2>8. QED BY <2>2, <2>6, <2>7 DEF Quiet
<1>7. CASE ChallengeLost(p)
  BY <1>7, EndedQuiet, RequestQuiet DEF ChallengeLost
<1>8. QED BY <1>2, <1>3, <1>4, <1>5, <1>6, <1>7 DEF SecondFactor

(* change_password *)
LEMMA ChangeQuiet ==
  ASSUME IInv, VersionsOld, NEW p \in Request,
         \/ \E u \in User, w, new \in Password : ChangeRead(p, u, w, new)
         \/ ChangeCommit(p) \/ ChangeRefused(p)
  PROVE  Quiet
<1>0. req \in [Request -> RequestState] /\ req[p] \in RequestState
  BY DEF IInv, TypeOK
<1>1. \A u \in User : users[u].token_version \in Nat
  BY SessionAssumption DEF IInv, TypeOK, Account
<1>2. ASSUME NEW u \in User, NEW w \in Password, NEW new \in Password,
             ChangeRead(p, u, w, new)
      PROVE  Quiet
  <2> DEFINE r == [Idle EXCEPT !.pc = "hash", !.user = u, !.new = new]
  <2>1. req' = [req EXCEPT ![p] = r] /\ UNCHANGED <<users, sessions, nextId>>
    BY <1>2 DEF ChangeRead
  <2>2. r.pc = "hash" /\ r.user = u /\ r.row = None /\ r.token_version = 0
    BY DEF Idle
  <2> HIDE DEF r
  <2>3. Versioned(r)
    BY <1>1, <2>2 DEF Versioned
  <2>4. QED BY <2>1, <2>2, <2>3, RequestQuiet
<1>3. CASE ChangeCommit(p)
  <2> DEFINE u == req[p].user
             m == MarkStale(u, req)
             a == [users[u] EXCEPT !.password = req[p].new,
                                   !.token_version = users[u].token_version + 1]
  <2>0. u \in User
    BY <1>3 DEF ChangeCommit, IInv, WellFormed
  <2>1. /\ m \in [Request -> RequestState]
        /\ \A q \in Request :
             /\ m[q].pc = req[q].pc /\ m[q].user = req[q].user /\ m[q].id = req[q].id
             /\ m[q].token_version = req[q].token_version
             /\ m[q].row = req[q].row /\ m[q].evict = req[q].evict
    BY <1>0, <2>0, MarkStaleFacts
  <2>2. /\ req' = [m EXCEPT ![p] = Ended("done")] /\ RevokeAll(u)
        /\ users' = [users EXCEPT ![u] = a] /\ nextId' = nextId
    BY <1>3 DEF ChangeCommit, SetPassword
  <2>3. a.token_version = users[u].token_version + 1 /\ a.deleted = users[u].deleted
    BY <2>0 DEF IInv, TypeOK, Account
  <2> HIDE DEF m, a, u
  <2>4. AccountsGrow
    BY <1>1, <2>0, <2>2, <2>3 DEF AccountsGrow, IInv, TypeOK
  <2>5. OnlyEnds
    BY <2>0, <2>2, RevokeAllEnds DEF IInv
  <2>6. \A q \in Request : SameTask(q) \/ (req'[q].pc # "wrote" /\ Versioned(req'[q]))
    BY <2>1, <2>2, EndedQuiet DEF SameTask
  <2>7. QED BY <2>2, <2>4, <2>5, <2>6 DEF Quiet
<1>4. CASE ChangeRefused(p)
  BY <1>4, EndedQuiet, RequestQuiet DEF ChangeRefused
<1>5. QED BY <1>2, <1>3, <1>4

(* users::update, users::delete, bootstrap_super_admin, assign_roles,      *)
(* revoke_passkey and regenerate_recovery_codes.                           *)
LEMMA AccountQuiet ==
  ASSUME IInv, NEW u \in User, AccountStep(u)
  PROVE  Quiet
<1>0. users \in [User -> Account] /\ users[u] \in Account
  BY DEF IInv, TypeOK
<1>1. \A v \in User : users[v].token_version \in Nat
  BY <1>0, SessionAssumption DEF Account
<1>2. ASSUME NEW a, users' = [users EXCEPT ![u] = a],
             users[u].token_version <= a.token_version,
             users[u].deleted => a.deleted
      PROVE  AccountsGrow
  BY <1>0, <1>1, <1>2 DEF AccountsGrow
<1>3. ASSUME AccountsGrow, UNCHANGED <<sessions, nextId, req>>
      PROVE  Quiet
  BY <1>3, SessionsStay DEF Quiet, SameTask
<1>4. ASSUME NEW status \in {None, "active", "inactive"}, NEW w \in Password \cup {None},
             AdminUpdate(u, status, w)
      PROVE  Quiet
  <2> DEFINE s == IF status = None THEN users[u].status ELSE status
             x == IF w = None THEN users[u].password ELSE w
             v == IF w = None THEN users[u].token_version ELSE users[u].token_version + 1
             a == [users[u] EXCEPT !.status = s, !.password = x, !.token_version = v]
  <2>1. users' = [users EXCEPT ![u] = a]
    BY <1>0, <1>4 DEF AdminUpdate
  <2>2. users[u].token_version <= v
    BY <1>1
  <2> HIDE DEF s, x, v
  <2>3. a.token_version = v /\ a.deleted = users[u].deleted
    BY <1>0 DEF Account
  <2> HIDE DEF a
  <2>4. AccountsGrow
    BY <1>2, <2>1, <2>2, <2>3
  <2>5. nextId' = nextId /\ \/ RevokeAll(u) /\ req' = MarkStale(u, req)
                            \/ UNCHANGED <<sessions, req>>
    BY <1>4 DEF AdminUpdate
  <2>6. QED BY <1>3, <2>4, <2>5, StaleQuiet
<1>5. CASE Delete(u)
  <2> DEFINE a == [users[u] EXCEPT !.deleted = TRUE, !.super = FALSE]
  <2>1. users' = [users EXCEPT ![u] = a]
    BY <1>5 DEF Delete
  <2>2. users[u].token_version <= a.token_version /\ a.deleted
    BY <1>0, <1>1 DEF Account
  <2> HIDE DEF a
  <2>3. AccountsGrow
    BY <1>2, <2>1, <2>2
  <2>4. QED BY <1>5, <2>3, StaleQuiet DEF Delete
<1>6. ASSUME NEW w \in Password, Bootstrap(u, w)
      PROVE  Quiet
  <2> DEFINE a == [users[u] EXCEPT !.password = w, !.status = "active",
                     !.token_version = users[u].token_version + 1, !.super = TRUE]
  <2>1. users' = [users EXCEPT ![u] = a]
    BY <1>6 DEF Bootstrap
  <2>2. users[u].token_version <= a.token_version /\ (users[u].deleted => a.deleted)
    BY <1>0, <1>1 DEF Account
  <2> HIDE DEF a
  <2>3. AccountsGrow
    BY <1>2, <2>1, <2>2
  <2>4. QED BY <1>6, <2>3, StaleQuiet DEF Bootstrap
<1>7. ASSUME NEW b \in BOOLEAN, AssignSuper(u, b)
      PROVE  Quiet
  <2> DEFINE a == [users[u] EXCEPT !.super = b]
  <2>1. users' = [users EXCEPT ![u] = a]
    BY <1>7 DEF AssignSuper
  <2>2. users[u].token_version <= a.token_version /\ (users[u].deleted => a.deleted)
    BY <1>0, <1>1 DEF Account
  <2> HIDE DEF a
  <2>3. AccountsGrow
    BY <1>2, <2>1, <2>2
  <2>4. QED BY <1>3, <1>7, <2>3 DEF AssignSuper
<1>8. CASE RevokeFactor(u)
  <2>1. AccountsGrow
    BY <1>8, AccountsStay DEF RevokeFactor, IInv
  <2>2. QED BY <1>8, <2>1, StaleQuiet DEF RevokeFactor
<1>9. QED BY <1>4, <1>5, <1>6, <1>7, <1>8 DEF AccountStep

(* logout, auth_context, expires_at and the idle timeout *)
LEMMA SessionEndQuiet ==
  ASSUME IInv, NEW i \in RowId, SessionStep(i)
  PROVE  Quiet
<1>1. UNCHANGED <<users, nextId, req>>
  BY SessionRow
<1>2. OnlyEnds
  <2>1. PICK s \in Session :
              /\ sessions' = [sessions EXCEPT ![i] = s]
              /\ s.user = sessions[i].user
              /\ s.token_version = sessions[i].token_version
              /\ sessions[i].revoked => s.revoked
              /\ sessions[i].expired => s.expired
              /\ sessions[i].idle /\ ~sessions[i].found => s.idle /\ ~s.found
    BY SessionRow
  <2>2. i \in Rows
    BY SessionRow
  <2>3. QED BY <2>1, <2>2 DEF OnlyEnds, Rows, IInv, TypeOK
<1>3. AccountsGrow
  BY <1>1, AccountsStay DEF IInv
<1>4. QED BY <1>1, <1>2, <1>3 DEF Quiet, SameTask

(* Every step is one of these, or one of the last two of a login. *)
LEMMA QuietNext ==
  ASSUME IInv, VersionsOld, [Next]_vars
  PROVE  Quiet \/ \E p \in Request : CreateWrite(p) \/ CreateCommit(p)
<1>1. ASSUME NEW p \in Request, Client(p) \/ LoginStep(p) \/ SecondFactor(p)
      PROVE  Quiet \/ CreateWrite(p) \/ CreateCommit(p)
  <2>1. CASE Client(p)
    BY <2>1, LoginQuiet, ChangeQuiet DEF Client
  <2>2. CASE LoginStep(p)
    BY <2>2, LoginQuiet, ChangeQuiet DEF LoginStep
  <2>3. CASE SecondFactor(p)
    BY <2>3, SecondFactorQuiet
  <2>4. QED BY <1>1, <2>1, <2>2, <2>3
<1>2. ASSUME NEW u \in User, AccountStep(u) PROVE Quiet
  BY <1>2, AccountQuiet
<1>3. ASSUME NEW i \in RowId, SessionStep(i) PROVE Quiet
  BY <1>3, SessionEndQuiet
<1>4. ASSUME UNCHANGED vars PROVE Quiet
  <2>1. UNCHANGED <<users, sessions, nextId, req>>
    BY <1>4 DEF vars
  <2>2. OnlyEnds /\ AccountsGrow
    BY <2>1, AccountsStay, SessionsStay DEF IInv
  <2>3. QED BY <2>1, <2>2 DEF Quiet, SameTask
<1>5. QED BY <1>1, <1>2, <1>3, <1>4 DEF Next

-----------------------------------------------------------------------------
(* The last two steps of a login, and the limit *)

(* An id is given out once: to one login, before its row is there. *)
FreshIds ==
    /\ \A i \in Rows : i < nextId
    /\ \A p \in Request : req[p].pc = "wrote" => req[p].id < nextId /\ req[p].id \notin Rows
    /\ \A p, q \in Request : req[p].pc = "wrote" /\ req[q].pc = "wrote" /\ p # q =>
           req[p].id # req[q].id

(* The limit holds, and a login that has counted will keep it: no session  *)
(* of its account has been added since.                                    *)
Limited ==
    /\ SessionLimit
    /\ \A p \in Request : req[p].pc = "wrote" =>
           Cardinality((Unrevoked(req[p].user) \cup {req[p].id}) \ req[p].evict)
               <= MaxSessions

SessionsInv == VersionsOld /\ FreshIds /\ Limited

(* Fewer sessions are within the limit, too. *)
LEMMA FewerAreFew ==
  ASSUME NEW S \in SUBSET RowId, NEW T \in SUBSET S, Cardinality(S) <= MaxSessions
  PROVE  Cardinality(T) <= MaxSessions
<1>1. IsFiniteSet(S)
  BY RowsFinite
<1>2. Cardinality(T) <= Cardinality(S) /\ Cardinality(T) \in Nat /\ Cardinality(S) \in Nat
  BY <1>1, FS_Subset, FS_CardinalityType
<1>3. QED BY <1>2, SessionAssumption

(* What the commit of a login does to the table. *)
LEMMA CommitFacts ==
  ASSUME IInv, NEW p \in Request, CreateCommit(p), NEW i \in Rows'
  PROVE  \/ /\ i = req[p].id
            /\ sessions'[i].user = req[p].user
            /\ sessions'[i].token_version = req[p].token_version
            /\ i \in req[p].evict => sessions'[i].revoked
         \/ /\ i # req[p].id /\ i \in Rows
            /\ sessions'[i].user = sessions[i].user
            /\ sessions'[i].token_version = sessions[i].token_version
            /\ sessions[i].revoked => sessions'[i].revoked
            /\ sessions[i].expired => sessions'[i].expired
            /\ sessions'[i].idle = sessions[i].idle
            /\ sessions'[i].found = sessions[i].found
            /\ i \in req[p].evict => sessions'[i].revoked
<1> DEFINE a == [sessions[i] EXCEPT !.revoked = TRUE]
<1>1. PICK old \in SUBSET {j \in Rows : sessions[j].revoked \/ sessions[j].expired} :
         sessions' = [j \in RowId |->
           IF j \in old THEN None
           ELSE IF j = req[p].id
                THEN [NewSession(req[p]) EXCEPT !.revoked = j \in req[p].evict]
                ELSE IF j \in req[p].evict /\ j \in Rows
                     THEN [sessions[j] EXCEPT !.revoked = TRUE]
                     ELSE sessions[j]]
  BY DEF CreateCommit
<1>2. i \in RowId /\ i \notin old /\ sessions'[i] # None
  BY <1>1 DEF Rows
<1>3. CASE i = req[p].id
  <2> DEFINE b == i \in req[p].evict
  <2>1. b \in BOOLEAN
    OBVIOUS
  <2>2. sessions'[i] = [NewSession(req[p]) EXCEPT !.revoked = b]
    BY <1>1, <1>2, <1>3
  <2> HIDE DEF b
  <2>3. /\ sessions'[i].user = req[p].user /\ sessions'[i].revoked = b
        /\ sessions'[i].token_version = req[p].token_version
    BY <2>2 DEF NewSession
  <2>4. QED BY <1>3, <2>1, <2>3 DEF b
<1>4. CASE i # req[p].id
  <2>1. /\ i \in req[p].evict /\ i \in Rows => sessions'[i] = a
        /\ ~(i \in req[p].evict /\ i \in Rows) => sessions'[i] = sessions[i]
    BY <1>1, <1>2, <1>4
  <2>2. i \in Rows
    BY <1>2, <2>1 DEF Rows
  <2>3. sessions[i] \in Session
    BY <2>2 DEF IInv, TypeOK, Rows
  <2>4. /\ a.user = sessions[i].user /\ a.token_version = sessions[i].token_version
        /\ a.revoked /\ a.expired = sessions[i].expired
        /\ a.idle = sessions[i].idle /\ a.found = sessions[i].found
    BY <2>3 DEF Session
  <2> HIDE DEF a
  <2>5. QED BY <1>4, <2>1, <2>2, <2>4
<1>5. QED BY <1>3, <1>4

(* A login that writes has the lock of its account, and its id is new. *)
LEMMA WriteFacts ==
  ASSUME IInv, NEW p \in Request, CreateWrite(p)
  PROVE  /\ nextId \in RowId /\ nextId' = nextId + 1
         /\ UNCHANGED <<users, sessions>>
         /\ req[p].pc = "locked" /\ req'[p].pc = "wrote"
         /\ req'[p].user = req[p].user /\ req'[p].id = nextId
         /\ req'[p].token_version = req[p].token_version /\ req'[p].row = req[p].row
         /\ req'[p].evict = OverLimit(NewSession(req[p]), nextId)
         /\ \A q \in Request \ {p} : req'[q] = req[q]
<1> DEFINE over == OverLimit(NewSession(req[p]), nextId)
           r == [req[p] EXCEPT !.pc = "wrote", !.id = nextId, !.evict = over]
<1>1. req[p] \in RequestState /\ req' = [req EXCEPT ![p] = r] /\ req'[p] = r
  BY DEF IInv, TypeOK, CreateWrite
<1>2. nextId \in RowId /\ nextId' = nextId + 1
  BY SessionAssumption DEF IInv, TypeOK, CreateWrite, RowId
<1>3. UNCHANGED <<users, sessions>> /\ req[p].pc = "locked"
  BY DEF CreateWrite
<1> HIDE DEF over
<1>4. /\ r.pc = "wrote" /\ r.user = req[p].user /\ r.id = nextId /\ r.evict = over
      /\ r.token_version = req[p].token_version /\ r.row = req[p].row
  BY <1>1 DEF RequestState
<1> HIDE DEF r
<1>5. \A q \in Request \ {p} : req'[q] = req[q]
  BY <1>1 DEF IInv, TypeOK
<1>6. QED BY <1>1, <1>2, <1>3, <1>4, <1>5 DEF over

(* The request that commits is over, the others go on. *)
LEMMA CommitRequests ==
  ASSUME IInv, NEW p \in Request, CreateCommit(p)
  PROVE  /\ req[p].pc = "wrote" /\ req[p].user \in User /\ req[p].id \in RowId
         /\ req'[p] = Ended("done") /\ \A q \in Request \ {p} : req'[q] = req[q]
         /\ UNCHANGED <<users, nextId>>
  BY DEF IInv, TypeOK, WellFormed, CreateCommit

(* No step lets a request or a session get ahead of its account. *)
LEMMA VersionsStep ==
  ASSUME IInv, IInv', VersionsOld, [Next]_vars
  PROVE  VersionsOld'
<1>0. /\ \A u \in User : users[u].token_version \in Nat /\ users'[u].token_version \in Nat
      /\ \A q \in Request : req[q] \in RequestState /\ req'[q] \in RequestState
      /\ \A i \in Rows : sessions[i] \in Session
      /\ \A i \in Rows' : sessions'[i] \in Session
  BY SessionAssumption DEF IInv, TypeOK, Account, Rows
<1>1. CASE Quiet
  <2>1. ASSUME NEW q \in Request PROVE Versioned(req[q])'
    <3>1. PICK r \in RequestState : r = req'[q]
      BY <1>0
    <3>2. Versioned(r)
      <4>1. CASE SameTask(q)
        BY <3>1, <4>1 DEF SameTask, VersionsOld, Versioned
      <4>2. CASE ~SameTask(q)
        BY <1>1, <3>1, <4>2 DEF Quiet
      <4>3. QED BY <4>1, <4>2
    <3>3. Versioned(r)'
      <4>1. SUFFICES ASSUME r.user \in User
                     PROVE  /\ r.token_version <= users'[r.user].token_version
                            /\ r.row # None =>
                                 r.row.token_version <= users'[r.user].token_version
        BY DEF Versioned
      <4>2. /\ users[r.user].token_version <= users'[r.user].token_version
            /\ users[r.user].token_version \in Nat /\ users'[r.user].token_version \in Nat
        BY <1>0, <1>1, <4>1 DEF Quiet, AccountsGrow
      <4>3. r.token_version \in Nat /\ (r.row # None => r.row.token_version \in Nat)
        BY SessionAssumption DEF RequestState, UserRow
      <4>4. QED BY <3>2, <4>1, <4>2, <4>3 DEF Versioned
    <3>4. QED BY <3>1, <3>3
  <2>2. ASSUME NEW i \in Rows'
        PROVE  sessions'[i].token_version <= users'[sessions'[i].user].token_version
    <3>1. PICK u \in User : u = sessions'[i].user
      BY <1>0 DEF Session
    <3>2. /\ i \in Rows /\ sessions[i].user = u
          /\ sessions'[i].token_version = sessions[i].token_version
      BY <1>1, <3>1 DEF Quiet, OnlyEnds
    <3>3. /\ sessions[i].token_version \in Nat
          /\ sessions[i].token_version <= users[u].token_version
      BY <1>0, <3>2, SessionAssumption DEF Session, VersionsOld
    <3>4. users[u].token_version <= users'[u].token_version
      BY <1>1 DEF Quiet, AccountsGrow
    <3>5. QED BY <1>0, <3>1, <3>2, <3>3, <3>4
  <2>3. QED BY <2>1, <2>2 DEF VersionsOld
<1>2. ASSUME NEW p \in Request, CreateWrite(p) PROVE VersionsOld'
  <2>1. UNCHANGED <<users, sessions>>
    BY <1>2, WriteFacts
  <2>2. ASSUME NEW q \in Request PROVE Versioned(req[q])'
    <3>1. /\ req'[q].user = req[q].user /\ req'[q].row = req[q].row
          /\ req'[q].token_version = req[q].token_version
      BY <1>2, WriteFacts
    <3>2. QED BY <2>1, <3>1 DEF VersionsOld, Versioned
  <2>3. QED BY <2>1, <2>2 DEF VersionsOld, Rows
<1>3. ASSUME NEW p \in Request, CreateCommit(p) PROVE VersionsOld'
  <2>1. users' = users
    BY <1>3, CommitRequests
  <2>2. ASSUME NEW q \in Request PROVE Versioned(req[q])'
    <3>1. req'[q] = Ended("done") \/ req'[q] = req[q]
      BY <1>3, CommitRequests
    <3>2. Versioned(Ended("done"))
      BY EndedQuiet
    <3>3. QED BY <2>1, <3>1, <3>2 DEF VersionsOld, Versioned
  <2>3. ASSUME NEW i \in Rows'
        PROVE  sessions'[i].token_version <= users[sessions'[i].user].token_version
    <3>1. /\ req[p].user \in User /\ Versioned(req[p])
      BY <1>3, CommitRequests DEF VersionsOld
    <3>2. QED BY <1>3, <3>1, CommitFacts DEF VersionsOld, Versioned
  <2>4. QED BY <2>1, <2>2, <2>3 DEF VersionsOld
<1>4. QED BY <1>1, <1>2, <1>3, QuietNext

(* The sequence of the ids never gives one out twice. *)
LEMMA FreshStep ==
  ASSUME IInv, IInv', VersionsOld, FreshIds, [Next]_vars
  PROVE  FreshIds'
<1>0. nextId \in Nat /\ RowId \subseteq Nat /\ Rows \subseteq RowId
  BY SessionAssumption DEF IInv, TypeOK, RowId, Rows
<1>1. CASE Quiet
  <2>1. Rows' \subseteq Rows /\ nextId' = nextId
    BY <1>1 DEF Quiet, OnlyEnds
  <2>2. \A q \in Request : req'[q].pc = "wrote" => req[q].pc = "wrote" /\ req'[q].id = req[q].id
    BY <1>1 DEF Quiet, SameTask
  <2>3. QED BY <2>1, <2>2 DEF FreshIds
<1>2. ASSUME NEW p \in Request, CreateWrite(p) PROVE FreshIds'
  <2>1. /\ Rows' = Rows /\ nextId' = nextId + 1 /\ req[p].pc = "locked"
        /\ req'[p].id = nextId /\ \A q \in Request \ {p} : req'[q] = req[q]
    BY <1>2, WriteFacts DEF Rows
  <2>2. ASSUME NEW i \in Rows' PROVE i < nextId'
    <3>1. i \in Rows /\ i \in Nat /\ i < nextId
      BY <1>0, <2>1 DEF FreshIds
    <3>2. QED BY <1>0, <2>1, <3>1
  <2>3. ASSUME NEW q \in Request, req'[q].pc = "wrote"
        PROVE  req'[q].id < nextId' /\ req'[q].id \notin Rows' /\ (q # p => req'[q].id # nextId)
    <3>1. CASE q = p
      BY <1>0, <2>1, <3>1 DEF FreshIds
    <3>2. CASE q # p
      <4>1. req[q].pc = "wrote" /\ req'[q].id = req[q].id
        BY <2>1, <2>3, <3>2
      <4>2. PICK i : i = req[q].id /\ i \in RowId /\ i < nextId /\ i \notin Rows
        BY <4>1 DEF IInv, WellFormed, FreshIds
      <4>3. i \in Nat /\ i < nextId + 1 /\ i # nextId
        BY <1>0, <4>2
      <4>4. QED BY <2>1, <4>1, <4>2, <4>3
    <3>3. QED BY <3>1, <3>2
  <2>4. ASSUME NEW q \in Request, NEW o \in Request, req'[q].pc = "wrote",
               req'[o].pc = "wrote", q # o
        PROVE  req'[q].id # req'[o].id
    <3>1. CASE q # p /\ o # p
      BY <2>1, <2>4, <3>1 DEF FreshIds
    <3>2. CASE q = p \/ o = p
      BY <2>1, <2>3, <2>4, <3>2
    <3>3. QED BY <3>1, <3>2
  <2>5. QED BY <2>2, <2>3, <2>4 DEF FreshIds
<1>3. ASSUME NEW p \in Request, CreateCommit(p) PROVE FreshIds'
  <2>1. /\ req[p].pc = "wrote" /\ nextId' = nextId
        /\ req'[p].pc = "done" /\ \A q \in Request \ {p} : req'[q] = req[q]
    BY <1>3, CommitRequests, EndedQuiet
  <2>2. \A i \in Rows' : i \in Rows \/ i = req[p].id
    BY <1>3, CommitFacts
  <2>3. ASSUME NEW q \in Request, req'[q].pc = "wrote"
        PROVE  q # p /\ req[q].pc = "wrote" /\ req'[q].id = req[q].id
    BY <2>1, <2>3
  <2>4. QED BY <2>1, <2>2, <2>3 DEF FreshIds
<1>4. QED BY <1>1, <1>2, <1>3, QuietNext

(* A step that opens no session leaves no account more of them. *)
LEMMA UnrevokedShrinks ==
  ASSUME OnlyEnds, NEW u
  PROVE  Unrevoked(u)' \subseteq Unrevoked(u)
  BY DEF OnlyEnds, Unrevoked

(* A commit gives its account the rows that were counted, less those that  *)
(* were evicted, and no other account any.                                 *)
LEMMA UnrevokedCommitted ==
  ASSUME IInv, NEW p \in Request, CreateCommit(p), NEW u
  PROVE  /\ u # req[p].user => Unrevoked(u)' \subseteq Unrevoked(u)
         /\ u = req[p].user =>
              Unrevoked(u)' \subseteq (Unrevoked(u) \cup {req[p].id}) \ req[p].evict
<1>1. ASSUME NEW i \in Unrevoked(u)'
      PROVE  /\ u # req[p].user => i \in Unrevoked(u)
             /\ u = req[p].user => i \in (Unrevoked(u) \cup {req[p].id}) \ req[p].evict
  <2>1. i \in Rows' /\ sessions'[i].user = u /\ ~sessions'[i].revoked
    BY DEF Unrevoked
  <2>2. QED BY <2>1, CommitFacts DEF Unrevoked
<1>2. QED BY <1>1

(* The rows that a login has counted are rows of the table. *)
LEMMA CountedRows ==
  ASSUME IInv, NEW p \in Request, req[p].pc = "wrote"
  PROVE  (Unrevoked(req[p].user) \cup {req[p].id}) \ req[p].evict \in SUBSET RowId
  BY DEF IInv, WellFormed, Unrevoked, Rows

(* The limit and what a login has counted survive every step: others can   *)
(* only end sessions of the account while the login has its lock.          *)
LEMMA LimitStep ==
  ASSUME IInv, IInv', VersionsOld, Limited, [Next]_vars
  PROVE  Limited'
<1>0. \A u \in User : Unrevoked(u) \in SUBSET RowId
  BY DEF Unrevoked, Rows
<1>1. CASE Quiet
  <2>1. \A u : Unrevoked(u)' \subseteq Unrevoked(u)
    BY <1>1, UnrevokedShrinks DEF Quiet
  <2>2. ASSUME NEW u \in User PROVE Cardinality(Unrevoked(u)') <= MaxSessions
    BY <1>0, <2>1, FewerAreFew DEF Limited, SessionLimit
  <2>3. ASSUME NEW q \in Request, req'[q].pc = "wrote"
        PROVE  (Cardinality((Unrevoked(req[q].user) \cup {req[q].id}) \ req[q].evict)
                    <= MaxSessions)'
    <3>1. PICK u, i, e : u = req[q].user /\ i = req[q].id /\ e = req[q].evict
      OBVIOUS
    <3>2. req[q].pc = "wrote" /\ u = req'[q].user /\ i = req'[q].id /\ e = req'[q].evict
      BY <1>1, <2>3, <3>1 DEF Quiet, SameTask
    <3>3. /\ (Unrevoked(u) \cup {i}) \ e \in SUBSET RowId
          /\ Cardinality((Unrevoked(u) \cup {i}) \ e) <= MaxSessions
      BY <3>1, <3>2, CountedRows DEF Limited
    <3>4. (Unrevoked(u)' \cup {i}) \ e \subseteq (Unrevoked(u) \cup {i}) \ e
      BY <2>1
    <3>5. Cardinality((Unrevoked(u)' \cup {i}) \ e) <= MaxSessions
      BY <3>3, <3>4, FewerAreFew
    <3>6. QED BY <3>2, <3>5
  <2>4. QED BY <2>2, <2>3 DEF Limited, SessionLimit
<1>2. ASSUME NEW p \in Request, CreateWrite(p) PROVE Limited'
  <2>1. \A u : Unrevoked(u)' = Unrevoked(u)
    BY <1>2, WriteFacts DEF Unrevoked, Rows
  <2>2. ASSUME NEW q \in Request, req'[q].pc = "wrote"
        PROVE  (Cardinality((Unrevoked(req[q].user) \cup {req[q].id}) \ req[q].evict)
                    <= MaxSessions)'
    <3>1. CASE q = p
      <4>1. PICK s : s = NewSession(req[p])
        OBVIOUS
      <4>2. s \in Session /\ s.user = req[p].user
        <5>1. req[p] \in RequestState /\ req[p].user \in User
          BY <1>2, WriteFacts DEF IInv, TypeOK, WellFormed
        <5>2. QED BY <4>1, <5>1 DEF NewSession, Session, RequestState
      <4>3. nextId \in RowId
        BY <1>2, WriteFacts
      <4>4. Cardinality((Unrevoked(s.user) \cup {nextId}) \ OverLimit(s, nextId))
                <= MaxSessions
        BY <4>2, <4>3, LimitEnforced
      <4>5. /\ req'[q].user = s.user /\ req'[q].id = nextId
            /\ req'[q].evict = OverLimit(s, nextId)
        BY <1>2, <3>1, <4>1, <4>2, WriteFacts
      <4>6. PICK u : u = s.user
        OBVIOUS
      <4>7. Unrevoked(u)' = Unrevoked(u) /\ u = req'[q].user
        BY <2>1, <4>5, <4>6
      <4>8. QED BY <4>4, <4>5, <4>6, <4>7
    <3>2. CASE q # p
      <4>1. PICK r : r = req[q]
        OBVIOUS
      <4>2. req'[q] = r
        BY <1>2, <3>2, <4>1, WriteFacts
      <4>3. Cardinality((Unrevoked(r.user) \cup {r.id}) \ r.evict) <= MaxSessions
        BY <2>2, <4>1, <4>2 DEF Limited
      <4>4. Unrevoked(r.user)' = Unrevoked(r.user)
        BY <2>1
      <4>5. QED BY <4>2, <4>3, <4>4
    <3>3. QED BY <3>1, <3>2
  <2>3. \A u \in User : Cardinality(Unrevoked(u)') <= MaxSessions
    BY <2>1 DEF Limited, SessionLimit
  <2>4. QED BY <2>2, <2>3 DEF Limited, SessionLimit
<1>3. ASSUME NEW p \in Request, CreateCommit(p) PROVE Limited'
  <2>1. /\ req[p].pc = "wrote" /\ req[p].user \in User
        /\ req'[p].pc = "done" /\ \A q \in Request \ {p} : req'[q] = req[q]
    BY <1>3, CommitRequests, EndedQuiet
  <2>2. ASSUME NEW u \in User PROVE Cardinality(Unrevoked(u)') <= MaxSessions
    <3>1. CASE u = req[p].user
      <4>1. /\ (Unrevoked(u) \cup {req[p].id}) \ req[p].evict \in SUBSET RowId
            /\ Cardinality((Unrevoked(u) \cup {req[p].id}) \ req[p].evict) <= MaxSessions
        BY <2>1, <3>1, CountedRows DEF Limited
      <4>2. Unrevoked(u)' \subseteq (Unrevoked(u) \cup {req[p].id}) \ req[p].evict
        BY <1>3, <3>1, UnrevokedCommitted
      <4>3. QED BY <4>1, <4>2, FewerAreFew
    <3>2. CASE u # req[p].user
      <4>1. Unrevoked(u)' \subseteq Unrevoked(u)
        BY <1>3, <3>2, UnrevokedCommitted
      <4>2. QED BY <1>0, <4>1, FewerAreFew DEF Limited, SessionLimit
    <3>3. QED BY <3>1, <3>2
  <2>3. ASSUME NEW q \in Request, req'[q].pc = "wrote"
        PROVE  (Cardinality((Unrevoked(req[q].user) \cup {req[q].id}) \ req[q].evict)
                    <= MaxSessions)'
    <3>1. PICK r : r = req[q]
      OBVIOUS
    <3>2. q # p /\ req'[q] = r /\ r.pc = "wrote"
      BY <2>1, <2>3, <3>1
    <3>3. r.user # req[p].user
      BY <2>1, <3>1, <3>2 DEF IInv, LocksHeld
    <3>4. Unrevoked(r.user)' \subseteq Unrevoked(r.user)
      BY <1>3, <3>3, UnrevokedCommitted
    <3>5. /\ (Unrevoked(r.user) \cup {r.id}) \ r.evict \in SUBSET RowId
          /\ Cardinality((Unrevoked(r.user) \cup {r.id}) \ r.evict) <= MaxSessions
      BY <3>1, <3>2, CountedRows DEF Limited
    <3>6. (Unrevoked(r.user)' \cup {r.id}) \ r.evict
              \subseteq (Unrevoked(r.user) \cup {r.id}) \ r.evict
      BY <3>4
    <3>7. Cardinality((Unrevoked(r.user)' \cup {r.id}) \ r.evict) <= MaxSessions
      BY <3>5, <3>6, FewerAreFew
    <3>8. QED BY <3>2, <3>7
  <2>4. QED BY <2>2, <2>3 DEF Limited, SessionLimit
<1>4. QED BY <1>1, <1>2, <1>3, QuietNext

(* Nobody has logged in yet. *)
LEMMA SessionsInit == Init => SessionsInv
<1> SUFFICES ASSUME Init PROVE SessionsInv
  OBVIOUS
<1>1. Rows = {} /\ \A p \in Request : req[p].pc = "idle" /\ req[p].user \notin User
  BY NoneAssumption DEF Init, Rows, Idle
<1>2. VersionsOld /\ FreshIds
  BY <1>1 DEF VersionsOld, Versioned, FreshIds
<1>3. \A u \in User : Unrevoked(u) = {}
  BY <1>1 DEF Unrevoked
<1>4. Limited
  BY <1>1, <1>3, FS_EmptySet, SessionAssumption DEF Limited, SessionLimit
<1>5. QED BY <1>2, <1>4 DEF SessionsInv

(* The two invariants hold together. *)
LEMMA SessionsInductive == Spec => [](IInv /\ SessionsInv)
<1>1. Init => IInv /\ SessionsInv
  BY InitIInv, SessionsInit
<1>2. IInv /\ SessionsInv /\ [Next]_vars => IInv' /\ SessionsInv'
  BY NextIInv, VersionsStep, FreshStep, LimitStep DEF SessionsInv
<1>3. QED BY <1>1, <1>2, PTL DEF Spec

(* enforce_user_limit keeps its promise whatever logins run together: no   *)
(* account ever has more than AUTH_MAX_SESSIONS_PER_USER unrevoked         *)
(* sessions.  It rests on the users row lock of update_last_login.         *)
THEOREM SessionsLimited == Spec => []SessionLimit
<1>1. IInv /\ SessionsInv => SessionLimit
  BY DEF SessionsInv, Limited
<1>2. QED BY <1>1, SessionsInductive, PTL

(* Flags are never taken back, and a token_version that has been passed is *)
(* not reached again.                                                      *)
LEMMA DeadStays ==
  ASSUME IInv, IInv', SessionsInv, [Next]_vars, NEW i \in Rows, Dead(i)
  PROVE  ~Usable(i)'
<1>1. SUFFICES ASSUME Usable(i)' PROVE FALSE
  OBVIOUS
<1>2. /\ i \in Rows' /\ ~sessions'[i].revoked /\ ~sessions'[i].expired
      /\ ~sessions'[i].idle
      /\ sessions'[i].token_version = users'[sessions'[i].user].token_version
      /\ ~users'[sessions'[i].user].deleted
  BY <1>1 DEF Usable, AccountUsable, Rows
<1>3. PICK u \in User : u = sessions[i].user
  BY DEF IInv, TypeOK, Rows, Session
<1>4. /\ sessions'[i].user = u
      /\ sessions'[i].token_version = sessions[i].token_version
      /\ sessions[i].revoked => sessions'[i].revoked
      /\ sessions[i].expired => sessions'[i].expired
      /\ sessions[i].idle /\ ~sessions[i].found => sessions'[i].idle
      /\ users[u].token_version <= users'[u].token_version
      /\ users[u].deleted => users'[u].deleted
  <2>1. CASE Quiet
    BY <1>2, <1>3, <2>1 DEF Quiet, OnlyEnds, AccountsGrow
  <2>2. ASSUME NEW p \in Request, CreateWrite(p)
        PROVE  /\ UNCHANGED <<users, sessions>> /\ AccountsGrow
    BY <2>2, WriteFacts, AccountsStay DEF IInv
  <2>3. ASSUME NEW p \in Request, CreateCommit(p)
        PROVE  /\ sessions'[i].user = u
               /\ sessions'[i].token_version = sessions[i].token_version
               /\ sessions[i].revoked => sessions'[i].revoked
               /\ sessions[i].expired => sessions'[i].expired
               /\ sessions[i].idle /\ ~sessions[i].found => sessions'[i].idle
               /\ AccountsGrow
    <3>1. i # req[p].id
      BY <2>3, CommitRequests DEF SessionsInv, FreshIds
    <3>2. AccountsGrow
      BY <2>3, CommitRequests, AccountsStay DEF IInv
    <3>3. QED BY <1>2, <1>3, <2>3, <3>1, <3>2, CommitFacts
  <2>4. QED BY <1>3, <2>1, <2>2, <2>3, QuietNext DEF SessionsInv, AccountsGrow
<1>5. /\ sessions[i].token_version <= users[u].token_version
      /\ sessions[i].token_version \in Nat
      /\ users[u].token_version \in Nat /\ users'[u].token_version \in Nat
  BY <1>3, SessionAssumption
     DEF SessionsInv, VersionsOld, IInv, TypeOK, Rows, Session, Account
<1>6. QED BY <1>2, <1>3, <1>4, <1>5 DEF Dead

(* What ends a session ends it for good: auth_context never again accepts  *)
(* one that is logged out, evicted, expired, of an older password, of a    *)
(* deleted account, or idle with no request left that was let in before.   *)
THEOREM EndedForGood == Spec => DeadForever
<1>1. IInv /\ SessionsInv /\ IInv' /\ [Next]_vars =>
         \A i \in Rows : Dead(i) => ~Usable(i)'
  BY DeadStays
<1>2. QED BY <1>1, SessionsInductive, PTL DEF Spec, DeadForever
=============================================================================
