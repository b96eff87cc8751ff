--------------------------- MODULE LoginSessions ---------------------------
(***************************************************************************)
(* From a submitted password to a server-side session, and what ends it.   *)
(*                                                                         *)
(* A login runs for a long time next to everything that may happen to its  *)
(* account: it reads the users row, waits for Argon2, may wait for a       *)
(* second factor, and only then opens the transaction that inserts the     *)
(* session row (services/auth.rs, services/mfa.rs).  Meanwhile the account *)
(* can be given another password, be suspended, deleted, promoted, or have *)
(* all of its sessions revoked (services/users.rs, services/auth.rs).      *)
(*                                                                         *)
(* A Request is one HTTP exchange in flight.  A transaction whose first    *)
(* statement locks the users row is one step from that lock on, except     *)
(* create_login_session, whose reads and commit are separate steps: the    *)
(* row lock is what its session limit rests on.  The failure counters that *)
(* the same transactions keep are the state of LoginThrottle; what makes a *)
(* second factor right or wrong is the subject of MfaChallenges.           *)
(***************************************************************************)
EXTENDS Naturals, FiniteSets

CONSTANTS
    User,           \* user ids
    Request,        \* requests in flight (login or password change)
    Password,       \* the passwords anybody tries
    None,           \* no value: NULL, no row, no holder
    MaxSessions,    \* AUTH_MAX_SESSIONS_PER_USER
    MaxRows,        \* bound: session rows ever inserted
    MaxVersion      \* bound: token_version of an account

ASSUME SessionAssumption ==
    /\ MaxSessions \in Nat \ {0}
    /\ MaxRows \in Nat
    /\ MaxVersion \in Nat

ASSUME NoneAssumption == None \notin User \cup Request \cup Password

VARIABLES
    users,          \* the users table, with the MFA facts of each account
    sessions,       \* auth_sessions: row id -> row, or None
    nextId,         \* the id sequence of auth_sessions
    clock,          \* now() of the next transaction, as a rank
    locks,          \* who holds the row lock of each users row
    req             \* the requests

vars == <<users, sessions, nextId, clock, locks, req>>

RowId == 1..MaxRows

Account == [status : {"active", "inactive"}, deleted : BOOLEAN,
        token_version : 0..MaxVersion, password : Password,
        super : BOOLEAN, totp : BOOLEAN]

(* What a request keeps of the row it has read. *)
UserRow == [status : {"active", "inactive"}, token_version : 0..MaxVersion,
            password : Password]

(* The token hashes, the persistent flag and the client address are left   *)
(* out.  expired: expires_at has passed; idle: last_seen_at is longer ago  *)
(* than idle_timeout_secs; found: some request has been answered this row  *)
(* by the SELECT of auth_context and has not sent its UPDATE yet.  Three   *)
(* fields are history for the properties: second, the login passed a       *)
(* second factor; checked, the token_version under which its password was  *)
(* verified; stale, the account had all of its sessions revoked after that *)
(* verification.                                                           *)
Session == [user : User, token_version : 0..MaxVersion, created_at : Nat,
            revoked : BOOLEAN, expired : BOOLEAN,
            idle : BOOLEAN, found : BOOLEAN,
            second : BOOLEAN, checked : 0..MaxVersion, stale : BOOLEAN]

Pc == {"idle", "verify", "challenge", "enroll", "enrolling", "reread", "create", "begun",
       "locked", "wrote", "hash", "done", "failed"}

RequestState ==
    [pc : Pc, user : User \cup {None}, password : Password \cup {None},
     new : Password \cup {None}, row : UserRow \cup {None},
     token_version : 0..MaxVersion,
     checked : 0..MaxVersion, second : BOOLEAN, stale : BOOLEAN,
     began : Nat, id : 0..MaxRows, evict : SUBSET RowId]

Idle == [pc |-> "idle", user |-> None, password |-> None, new |-> None,
         row |-> None, token_version |-> 0, checked |-> 0,
         second |-> FALSE, stale |-> FALSE, began |-> 0, id |-> 0, evict |-> {}]

(* A finished request keeps nothing but how it ended. *)
Ended(how) == [Idle EXCEPT !.pc = how]

TypeOK ==
    /\ users \in [User -> Account]
    /\ sessions \in [RowId -> Session \cup {None}]
    /\ nextId \in 1..(MaxRows + 1)
    /\ clock \in Nat
    /\ locks \in [User -> Request \cup {None}]
    /\ req \in [Request -> RequestState]

Init ==
    /\ users \in [User -> {r \in Account : /\ r.status = "active" /\ ~r.deleted
                                        /\ r.token_version = 0
                                        /\ ~r.super}]
    /\ sessions = [i \in RowId |-> None]
    /\ nextId = 1
    /\ clock = 0
    /\ locks = [u \in User |-> None]
    /\ req = [p \in Request |-> Idle]

-----------------------------------------------------------------------------
(* State functions *)

RowOf(u) == [status |-> users[u].status, password |-> users[u].password,
             token_version |-> users[u].token_version]

Rows == {i \in RowId : sessions[i] # None}

(* The account part of the WHERE clause of auth_context. *)
AccountUsable(u) ==
    /\ ~users[u].deleted
    /\ users[u].status = "active"
    /\ users[u].super => users[u].totp

(* The SELECT of auth_context returns the session: the request that asks   *)
(* is let in.                                                              *)
Usable(i) ==
    /\ sessions[i] # None
    /\ ~sessions[i].revoked
    /\ ~sessions[i].expired
    /\ ~sessions[i].idle
    /\ sessions[i].token_version = users[sessions[i].user].token_version
    /\ AccountUsable(sessions[i].user)

Unrevoked(u) == {i \in Rows : sessions[i].user = u /\ ~sessions[i].revoked}

(* revoke_all_for_user.  The logins whose password was verified before it  *)
(* are marked: history.                                                    *)
RevokeAll(u) ==
    sessions' = [i \in RowId |->
        IF i \in Rows /\ sessions[i].user = u
        THEN [sessions[i] EXCEPT !.revoked = TRUE, !.stale = TRUE]
        ELSE sessions[i]]

MarkStale(u, f) ==
    [p \in Request |-> IF f[p].user = u THEN [f[p] EXCEPT !.stale = TRUE]
                                       ELSE f[p]]

(* Nobody holds the row lock: an UPDATE of the users row does not wait. *)
RowFree(u) == locks[u] = None

(* begin_login asks for a second factor.  Passkeys can only be registered  *)
(* with TOTP enabled, so they add nothing to the condition.                *)
SecondFactorRequired(u) == users[u].super \/ users[u].totp

-----------------------------------------------------------------------------
(* The login request *)

(* login: find_by_username; a deleted account is not found. *)
LoginRead(p, u, w) ==
    /\ req[p].pc = "idle"
    /\ req' = [req EXCEPT ![p] =
                 [Idle EXCEPT !.pc = "verify", !.user = u, !.password = w,
                              !.row = IF users[u].deleted THEN None
                                                          ELSE RowOf(u)]]
    /\ UNCHANGED <<users, sessions, nextId, clock, locks>>

Authenticated(r) ==
    /\ r.row # None
    /\ r.row.status = "active"
    /\ r.row.password = r.password

(* login, after Argon2: the row is the one read before it. *)
LoginReject(p) ==
    /\ req[p].pc = "verify"
    /\ ~Authenticated(req[p])
    /\ req' = [req EXCEPT ![p] = Ended("failed")]
    /\ UNCHANGED <<users, sessions, nextId, clock, locks>>

(* The password has been verified against the row: from here on only the   *)
(* row's token_version is used, and the password not at all.               *)
Verified(r, pc) ==
    [r EXCEPT !.pc = pc, !.password = None, !.row = None,
              !.token_version = r.row.token_version,
              !.checked = r.row.token_version]

(* login, no second factor: straight to create_login_session with the row. *)
LoginAccept(p) ==
    /\ req[p].pc = "verify"
    /\ Authenticated(req[p])
    /\ ~SecondFactorRequired(req[p].user)
    /\ req' = [req EXCEPT ![p] = Verified(@, "create")]
    /\ UNCHANGED <<users, sessions, nextId, clock, locks>>

(* The challenge of an earlier login of the account, still open. *)
Superseded(q, u) ==
    /\ req[q].user = u
    /\ req[q].pc \in {"challenge", "enroll", "enrolling"}

(* begin_login: the request waits for its second factor; the challenge it  *)
(* had to answer before is consumed.                                       *)
LoginChallenge(p) ==
    LET u == req[p].user IN
    /\ req[p].pc = "verify"
    /\ Authenticated(req[p])
    /\ SecondFactorRequired(u)
    /\ req' = [q \in Request |->
         IF q = p
         THEN Verified(req[p], IF users[u].totp THEN "challenge" ELSE "enroll")
         ELSE IF Superseded(q, u) THEN Ended("failed") ELSE req[q]]
    /\ UNCHANGED <<users, sessions, nextId, clock, locks>>

(* verify_totp_login: the users row is read again, by id, before the       *)
(* challenge is consumed; only a deleted account is refused.               *)
VerifyTotp(p) ==
    /\ req[p].pc = "challenge"
    /\ ~users[req[p].user].deleted
    /\ req' = [req EXCEPT ![p].pc = "create", ![p].second = TRUE,
                          ![p].token_version = users[req[p].user].token_version]
    /\ UNCHANGED <<users, sessions, nextId, clock, locks>>

(* verify_totp_enrollment, first transaction: the code is right, the row   *)
(* is read; the challenge stays open while the recovery codes are hashed.  *)
EnrollCheck(p) ==
    /\ req[p].pc = "enroll"
    /\ ~users[req[p].user].deleted
    /\ req' = [req EXCEPT ![p].pc = "enrolling",
                          ![p].token_version = users[req[p].user].token_version]
    /\ UNCHANGED <<users, sessions, nextId, clock, locks>>

(* verify_totp_enrollment, second transaction: TOTP is enabled. *)
EnrollCommit(p) ==
    /\ req[p].pc = "enrolling"
    /\ users' = [users EXCEPT ![req[p].user].totp = TRUE]
    /\ req' = [req EXCEPT ![p].pc = "create", ![p].second = TRUE]
    /\ UNCHANGED <<sessions, nextId, clock, locks>>

(* finish_passkey_authentication: consume the challenge, read the row after. *)
VerifyPasskey(p) ==
    /\ req[p].pc = "challenge"
    /\ req' = [req EXCEPT ![p].pc = "reread", ![p].second = TRUE]
    /\ UNCHANGED <<users, sessions, nextId, clock, locks>>

(* verify_recovery_login: the code is spent, every session is revoked, and *)
(* the row is read after.                                                  *)
VerifyRecovery(p) ==
    /\ req[p].pc = "challenge"
    /\ RevokeAll(req[p].user)
    /\ req' = [MarkStale(req[p].user, req) EXCEPT
                 ![p].pc = "reread", ![p].second = TRUE, ![p].stale = req[p].stale]
    /\ UNCHANGED <<users, nextId, clock, locks>>

Reread(p) ==
    /\ req[p].pc = "reread"
    /\ req' = [req EXCEPT ![p] = IF users[req[p].user].deleted
                                  THEN Ended("failed")
                                  ELSE [req[p] EXCEPT !.pc = "create",
                                          !.token_version =
                                             users[req[p].user].token_version]]
    /\ UNCHANGED <<users, sessions, nextId, clock, locks>>

(* The challenge expires, runs out of attempts, is abandoned, or its       *)
(* account is gone when it is answered.                                    *)
ChallengeLost(p) ==
    /\ req[p].pc \in {"challenge", "enroll", "enrolling"}
    /\ req' = [req EXCEPT ![p] = Ended("failed")]
    /\ UNCHANGED <<users, sessions, nextId, clock, locks>>

(* create_login_session: the transaction begins; created_at will be its    *)
(* start time, however long it then waits for the users row.               *)
CreateBegin(p) ==
    /\ req[p].pc = "create"
    /\ req' = [req EXCEPT ![p].pc = "begun", ![p].began = clock]
    /\ clock' = clock + 1
    /\ UNCHANGED <<users, sessions, nextId, locks>>

(* Mutant: update_last_login moved out of the transaction, no lock taken. *)
CreateWithoutLock(p) ==
    /\ req[p].pc = "begun"
    /\ req' = [req EXCEPT ![p].pc = "locked"]
    /\ UNCHANGED <<users, sessions, nextId, clock, locks>>

(* update_last_login, by id: it locks the row, deleted or not. *)
CreateLock(p) ==
    /\ req[p].pc = "begun"
    /\ RowFree(req[p].user)
    /\ locks' = [locks EXCEPT ![req[p].user] = p]
    /\ req' = [req EXCEPT ![p].pc = "locked"]
    /\ UNCHANGED <<users, sessions, nextId, clock>>

(* The order of enforce_user_limit: created_at, then id, newest first. *)
Newer(r, i, s, j) ==
    \/ r.created_at > s.created_at
    \/ r.created_at = s.created_at /\ i > j

(* Mutant: the session takes the account's token_version at insertion. *)
NewSessionFresh(r) ==
    [user |-> r.user, token_version |-> users[r.user].token_version,
     created_at |-> r.began, revoked |-> FALSE, expired |-> FALSE,
     idle |-> FALSE, found |-> FALSE,
     second |-> r.second, checked |-> r.checked, stale |-> r.stale]

(* enforce_user_limit: all but the MaxSessions newest of the unrevoked     *)
(* rows, among them the row the transaction has just inserted.             *)
OverLimit(new, id) ==
    LET live == Unrevoked(new.user) \cup {id}
        at(i) == IF i = id THEN new ELSE sessions[i]
    IN  {i \in live :
           Cardinality({j \in live : Newer(at(j), j, at(i), i)}) >= MaxSessions}

NewSession(r) ==
    [user |-> r.user, token_version |-> r.token_version,
     created_at |-> r.began, revoked |-> FALSE, expired |-> FALSE,
     idle |-> FALSE, found |-> FALSE,
     second |-> r.second, checked |-> r.checked, stale |-> r.stale]

(* create and enforce_user_limit, not yet visible to anybody else. *)
CreateWrite(p) ==
    /\ req[p].pc = "locked"
    /\ nextId <= MaxRows
    /\ req' = [req EXCEPT ![p].pc = "wrote", ![p].id = nextId,
                 ![p].evict = OverLimit(NewSession(req[p]), nextId)]
    /\ nextId' = nextId + 1
    /\ UNCHANGED <<users, sessions, clock, locks>>

(* Mutant: the transaction is left open, the row stays locked. *)
CreateLeaksLock(p) ==
    /\ req[p].pc = "wrote"
    /\ sessions' = [sessions EXCEPT ![req[p].id] = NewSession(req[p])]
    /\ req' = [req EXCEPT ![p] = Ended("done")]
    /\ UNCHANGED <<users, nextId, clock, locks>>

(* The commit, prune included: rows that have been dead for a week are     *)
(* deleted, any of the dead ones may be that old.                          *)
CreateCommit(p) ==
    /\ req[p].pc = "wrote"
    /\ \E old \in SUBSET {i \in Rows : sessions[i].revoked \/ sessions[i].expired} :
         sessions' = [i \in RowId |->
           IF i \in old THEN None
           ELSE IF i = req[p].id
                THEN [NewSession(req[p]) EXCEPT !.revoked = i \in req[p].evict]
                ELSE IF i \in req[p].evict /\ i \in Rows
                     THEN [sessions[i] EXCEPT !.revoked = TRUE]
                     ELSE sessions[i]]
    /\ locks' = [locks EXCEPT ![req[p].user] = None]
    /\ req' = [req EXCEPT ![p] = Ended("done")]
    /\ UNCHANGED <<users, nextId, clock>>

-----------------------------------------------------------------------------
(* What happens to accounts and sessions meanwhile *)

(* change_password: the caller's session is accepted and the current       *)
(* password verified; then the new one is hashed.                          *)
ChangeRead(p, u, w, new) ==
    /\ req[p].pc = "idle"
    /\ \E i \in Rows : sessions[i].user = u /\ Usable(i)
    /\ w # new
    /\ users[u].password = w
    /\ req' = [req EXCEPT ![p] = [Idle EXCEPT !.pc = "hash", !.user = u,
                                             !.new = new]]
    /\ UNCHANGED <<users, sessions, nextId, clock, locks>>

(* Mutant: token_version counts past what the column may hold. *)
SetPasswordTwice(u, w) ==
    users' = [users EXCEPT ![u].password = w, ![u].token_version = @ + 2]

(* update_password and what follows it in one transaction. *)
SetPassword(u, w) ==
    users' = [users EXCEPT ![u].password = w, ![u].token_version = @ + 1]

ChangeCommit(p) ==
    LET u == req[p].user IN
    /\ req[p].pc = "hash"
    /\ RowFree(u)
    /\ users[u].token_version < MaxVersion
    /\ ~users[u].deleted
    /\ SetPassword(u, req[p].new)
    /\ RevokeAll(u)
    /\ req' = [MarkStale(u, req) EXCEPT ![p] = Ended("done")]
    /\ UNCHANGED <<nextId, clock, locks>>

ChangeRefused(p) ==
    /\ req[p].pc = "hash"
    /\ RowFree(req[p].user)
    /\ users[req[p].user].deleted
    /\ req' = [req EXCEPT ![p] = Ended("failed")]
    /\ UNCHANGED <<users, sessions, nextId, clock, locks>>

(* users::update, with or without a new status and a new password: either *)
(* may revoke the sessions, only the password changes token_version.       *)
AdminUpdate(u, status, w) ==
    /\ RowFree(u)
    /\ ~users[u].deleted
    /\ w # None => users[u].token_version < MaxVersion
    /\ users' = [users EXCEPT
         ![u].status = IF status = None THEN @ ELSE status,
         ![u].password = IF w = None THEN @ ELSE w,
         ![u].token_version = IF w = None THEN @ ELSE @ + 1]
    /\ IF w # None \/ status = "inactive"
       THEN RevokeAll(u) /\ req' = MarkStale(u, req)
       ELSE UNCHANGED <<sessions, req>>
    /\ UNCHANGED <<nextId, clock, locks>>

(* users::delete: soft_delete takes the roles away with the account. *)
Delete(u) ==
    /\ RowFree(u)
    /\ ~users[u].deleted
    /\ users' = [users EXCEPT ![u].deleted = TRUE, ![u].super = FALSE]
    /\ RevokeAll(u)
    /\ req' = MarkStale(u, req)
    /\ UNCHANGED <<nextId, clock, locks>>

(* bootstrap_super_admin on an existing account. *)
Bootstrap(u, w) ==
    /\ RowFree(u)
    /\ ~users[u].deleted
    /\ users[u].token_version < MaxVersion
    /\ users' = [users EXCEPT ![u].password = w, ![u].status = "active",
                              ![u].token_version = @ + 1, ![u].super = TRUE]
    /\ RevokeAll(u)
    /\ req' = MarkStale(u, req)
    /\ UNCHANGED <<nextId, clock, locks>>

(* users::assign_roles: no session is revoked. *)
AssignSuper(u, b) ==
    /\ ~users[u].deleted
    /\ users[u].super # b
    /\ users' = [users EXCEPT ![u].super = b]
    /\ UNCHANGED <<sessions, nextId, clock, locks, req>>

(* revoke_passkey and regenerate_recovery_codes, asked for by the account's *)
(* own session after password and TOTP: every session is revoked.          *)
RevokeFactor(u) ==
    /\ users[u].totp
    /\ \E i \in Rows : sessions[i].user = u /\ Usable(i)
    /\ RevokeAll(u)
    /\ req' = MarkStale(u, req)
    /\ UNCHANGED <<users, nextId, clock, locks>>

(* logout *)
Logout(i) ==
    /\ Usable(i)
    /\ sessions' = [sessions EXCEPT ![i].revoked = TRUE]
    /\ UNCHANGED <<users, nextId, clock, locks, req>>

(* auth_context, first statement: a request presents the session's cookie. *)
AuthRead(i) ==
    /\ Usable(i)
    /\ ~sessions[i].found
    /\ sessions' = [sessions EXCEPT ![i].found = TRUE]
    /\ UNCHANGED <<users, nextId, clock, locks, req>>

(* Mutant: a sliding session, the touch renews expires_at too. *)
TouchRenews(i) ==
    /\ i \in Rows
    /\ sessions[i].found
    /\ sessions' = [sessions EXCEPT ![i].idle = FALSE, ![i].expired = FALSE,
                                    ![i].found = FALSE]
    /\ UNCHANGED <<users, nextId, clock, locks, req>>

(* auth_context, second statement: last_seen_at becomes now() in the row   *)
(* of that id, whatever has happened to it since it was read.  It writes   *)
(* nothing when last_seen_at is less than a minute old (an idle timeout    *)
(* may be shorter than that) or when the request is given up.  Further     *)
(* requests may be between the two statements.                             *)
Touch(i) ==
    /\ i \in Rows
    /\ sessions[i].found
    /\ \E idle \in {FALSE, sessions[i].idle}, more \in BOOLEAN :
          sessions' = [sessions EXCEPT ![i].idle = idle, ![i].found = more]
    /\ UNCHANGED <<users, nextId, clock, locks, req>>

(* idle_timeout_secs pass since last_seen_at. *)
IdleOut(i) ==
    /\ i \in Rows
    /\ ~sessions[i].idle
    /\ sessions' = [sessions EXCEPT ![i].idle = TRUE]
    /\ UNCHANGED <<users, nextId, clock, locks, req>>

(* expires_at passes: nothing writes that column again. *)
Expire(i) ==
    /\ i \in Rows
    /\ ~sessions[i].expired
    /\ sessions' = [sessions EXCEPT ![i].expired = TRUE]
    /\ UNCHANGED <<users, nextId, clock, locks, req>>

-----------------------------------------------------------------------------
LoginStep(p) ==
    \/ LoginReject(p) \/ LoginAccept(p) \/ LoginChallenge(p)
    \/ Reread(p)
    \/ CreateBegin(p) \/ CreateLock(p) \/ CreateWrite(p) \/ CreateCommit(p)
    \/ ChangeCommit(p) \/ ChangeRefused(p)

SecondFactor(p) ==
    \/ VerifyTotp(p) \/ EnrollCheck(p) \/ EnrollCommit(p)
    \/ VerifyPasskey(p) \/ VerifyRecovery(p) \/ ChallengeLost(p)

Client(p) ==
    \E u \in User, w \in Password :
        \/ LoginRead(p, u, w)
        \/ \E new \in Password : ChangeRead(p, u, w, new)

AccountStep(u) ==
    \/ \E status \in {None, "active", "inactive"}, w \in Password \cup {None} :
          AdminUpdate(u, status, w)
    \/ Delete(u)
    \/ \E w \in Password : Bootstrap(u, w)
    \/ \E b \in BOOLEAN : AssignSuper(u, b)
    \/ RevokeFactor(u)

SessionStep(i) ==
    \/ Logout(i) \/ Expire(i)
    \/ AuthRead(i) \/ Touch(i) \/ IdleOut(i)

Next ==
    \/ \E p \in Request : Client(p) \/ LoginStep(p) \/ SecondFactor(p)
    \/ \E u \in User : AccountStep(u)
    \/ \E i \in RowId : SessionStep(i)

Spec == Init /\ [][Next]_vars

(* The server answers what it has been given: a handler that is not        *)
(* waiting for its client goes on, and PostgreSQL hands a released row     *)
(* lock to a waiter.  Clients and administrators owe nothing.              *)
FairSpec == Spec /\ \A p \in Request : WF_vars(LoginStep(p))

-----------------------------------------------------------------------------
(* Properties *)

(* enforce_user_limit keeps its promise between concurrent logins: in no   *)
(* committed state has an account more than MaxSessions unrevoked rows.    *)
(* Each login counts rows it can see; what makes the counts add up is the  *)
(* users row lock that update_last_login takes first.                      *)
SessionLimit == \A u \in User : Cardinality(Unrevoked(u)) <= MaxSessions

(* A login that was already past its password check when the password was  *)
(* changed or reset opens no usable session: create_login_session writes   *)
(* the token_version of the row the check was made against.  A login with  *)
(* a second factor reads the row again after it, and is not covered.       *)
NewPasswordEndsLogins ==
    \A i \in Rows : Usable(i) /\ ~sessions[i].second =>
        sessions[i].checked = users[sessions[i].user].token_version

(* Row locks: a users row is locked by a login exactly while that login is *)
(* between update_last_login and its commit for that account.  So no two   *)
(* logins of one account are inside enforce_user_limit together, and none  *)
(* that has ended keeps the row.                                           *)
LockDiscipline ==
    \A p \in Request, u \in User :
        locks[u] = p <=> req[p].pc \in {"locked", "wrote"} /\ req[p].user = u

(* What has ended a session: a revocation, its expires_at, a newer         *)
(* password, the deletion of its account; or its idle timeout, once no     *)
(* request that was let in before the timeout has its UPDATE still to do.  *)
Dead(i) ==
    \/ sessions[i].revoked \/ sessions[i].expired
    \/ sessions[i].token_version # users[sessions[i].user].token_version
    \/ users[sessions[i].user].deleted
    \/ sessions[i].idle /\ ~sessions[i].found

(* What ends a session ends it for good: one that is logged out, evicted,  *)
(* expired, of an older password or of a deleted account is not accepted   *)
(* by auth_context ever again, whatever is done to the account afterwards  *)
(* and although the late UPDATE of a request that was let in before        *)
(* rewrites last_seen_at.  An idle session is one of them only when no     *)
(* such UPDATE is on its way: that UPDATE does revive it.                  *)
DeadForever == [][\A i \in Rows : Dead(i) => ~Usable(i)']_vars

(* A session that has idled out is not accepted again, which the WHERE     *)
(* clause of auth_context is for (auth_sessions.rs:62).  It does not hold: *)
(* a request that was let in before the timeout may do its UPDATE after it *)
(* (auth_sessions.rs:85).                                                  *)
IdleStaysOut == [][\A i \in Rows : sessions[i].idle => ~Usable(i)']_vars

(* Every login that has been submitted is answered: with a session, with a *)
(* challenge, or with a refusal.  Nobody waits for a row lock for ever.    *)
LoginAnswered ==
    \A p \in Request :
        req[p].pc \in {"verify", "reread", "create", "begun", "locked", "wrote"}
            ~> req[p].pc \in {"challenge", "enroll", "done", "failed"}

(* docs/mfa-operations.md:3 and docs/security-roadmap.md:12: every         *)
(* super_admin has completed multi-factor authentication, with no way      *)
(* around it; read as: no session of a super_admin is accepted unless its  *)
(* own login passed a second factor.                                       *)
SuperAdminSessionsPassedMfa ==
    \A i \in Rows : Usable(i) /\ users[sessions[i].user].super =>
        sessions[i].second

(* docs/architecture.md:37 and docs/mfa-operations.md:21-22: suspending an *)
(* account, revoking a passkey and renewing the recovery codes make all    *)
(* sessions invalid at once; read as: a login whose password was checked   *)
(* before it does not yield an accepted session after it.                  *)
RevocationReachesLogins == \A i \in Rows : Usable(i) => ~sessions[i].stale

=============================================================================
