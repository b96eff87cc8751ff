--------------------------- MODULE MfaChallenges ---------------------------
(***************************************************************************)
(* The second factor of one account: its challenge rows, authenticator,    *)
(* recovery codes and passkeys (services/mfa.rs, repositories/mfa.rs).     *)
(*                                                                         *)
(* A transaction that locks its challenge row FOR UPDATE and then touches  *)
(* nothing another transaction waits for is one step.  Those that read     *)
(* before they lock (begin_login, verify_recovery_login), are in two parts *)
(* (verify_totp_enrollment), read another connection while they hold the   *)
(* row (finish_passkey_authentication) or replace rows they do not lock    *)
(* (regenerate_recovery_codes) are split where others can come between.    *)
(*                                                                         *)
(* The sessions that follow are the state of LoginSessions, the password   *)
(* checks that precede are made there.  Cryptography is left out: a code   *)
(* is right or wrong, a passkey signs or does not.  A row older than a day *)
(* is pruned by begin_login; such a row is expired or consumed and no      *)
(* statement finds it any more, so it is kept here.                        *)
(***************************************************************************)
EXTENDS Naturals, FiniteSets

CONSTANTS
    Request,        \* requests in flight
    Key,            \* passkeys anybody owns
    None,           \* no value
    MaxAttempts,    \* max_attempts, 5 in the schema
    MaxChallenges,  \* bound: challenge rows ever inserted
    MaxBatch,       \* bound: sets of recovery codes ever issued
    MaxStep         \* bound: TOTP time steps

ASSUME MfaAssumption ==
    /\ MaxAttempts \in Nat \ {0}
    /\ MaxChallenges \in Nat
    /\ MaxBatch \in Nat \ {0}
    /\ MaxStep \in Nat \ {0}

ASSUME NoneAssumption == None \notin Nat \cup Key

VARIABLES
    required,       \* the account has the active role super_admin
    totp,           \* None, or the enrolment whose secret is stored; 0: an old one
    counter,        \* last_reauth_totp_counter; 0 is NULL
    codes,          \* user_mfa_recovery_codes, one code standing for each batch
    nextBatch,
    passkeys,       \* user_passkeys
    challenges,     \* auth_mfa_challenges: row id -> row, or None
    nextId,
    now,            \* the current TOTP time step
    req,            \* the requests
    wins,           \* history: logins completed, per password check
    spent,          \* history: logins each recovery code has opened
    reauths,        \* history: times each step confirmed a sensitive request
    logins          \* history: the steps that completed a login

settings == <<required, totp, counter, codes, nextBatch, passkeys>>
history == <<wins, spent, reauths, logins>>
vars == <<settings, challenges, nextId, now, req, history>>

Id == 1..MaxChallenges
Batch == 1..MaxBatch
Step == 1..MaxStep

(* The kinds of challenge that stand between a password and a session. *)
LoginKind == {"login", "totp_enrollment", "passkey_authentication"}

(* login: the row that the password check of this login has created; keys: *)
(* the credentials a WebAuthn ceremony was started for; failures: history, *)
(* the wrong answers since the password check.                             *)
Challenge ==
    [kind : LoginKind \cup {"passkey_registration"}, login : Id,
     attempts : 0..MaxAttempts, consumed : BOOLEAN, expired : BOOLEAN,
     keys : SUBSET Key, failures : Nat]

(* NULL is no row. *)
ASSUME NoRow == None \notin Challenge

Pc == {"idle", "begin", "insert", "enroll", "match", "passkey",
       "regen", "replace", "register", "revoke"}

(* held: the challenge rows locked; seen: the recovery codes in the        *)
(* snapshot of a DELETE.                                                   *)
RequestState ==
    [pc : Pc, kind : {"login", "totp_enrollment"}, challenge : Id \cup {None},
     held : SUBSET Id, code : Batch \cup {None}, seen : SUBSET Batch]

Idle == [pc |-> "idle", kind |-> "login", challenge |-> None, held |-> {},
         code |-> None, seen |-> {}]

TypeOK ==
    /\ required \in BOOLEAN
    /\ totp \in Id \cup {0, None}
    /\ counter \in 0..MaxStep
    /\ codes \in [Batch -> {"none", "unused", "used"}]
    /\ nextBatch \in 1..(MaxBatch + 1)
    /\ passkeys \in SUBSET Key
    /\ challenges \in [Id -> Challenge \cup {None}]
    /\ nextId \in 1..(MaxChallenges + 1)
    /\ now \in 1..MaxStep
    /\ req \in [Request -> RequestState]
    /\ wins \in [Id -> Nat]
    /\ spent \in [Batch -> Nat]
    /\ reauths \in [Step -> Nat]
    /\ logins \in SUBSET Step

(* An ordinary account, or one that has enrolled; passkeys need TOTP. *)
Init ==
    /\ required \in BOOLEAN
    /\ totp \in {0, None}
    /\ counter = 0
    /\ codes = [b \in Batch |-> IF b = 1 /\ totp # None THEN "unused" ELSE "none"]
    /\ nextBatch = IF totp = None THEN 1 ELSE 2
    /\ passkeys \in IF totp = None THEN {{}} ELSE SUBSET Key
    /\ challenges = [i \in Id |-> None]
    /\ nextId = 1
    /\ now = 1
    /\ req = [p \in Request |-> Idle]
    /\ wins = [i \in Id |-> 0]
    /\ spent = [b \in Batch |-> 0]
    /\ reauths = [s \in Step |-> 0]
    /\ logins = {}

-----------------------------------------------------------------------------
Rows == {i \in Id : challenges[i] # None}

(* The rows the unique index uq_auth_mfa_challenges_user_login is about. *)
Unconsumed == {i \in Rows : challenges[i].kind \in LoginKind /\ ~challenges[i].consumed}

Locked(i) == \E p \in Request : i \in req[p].held

(* challenge, challenge_kind; and challenge_for_update once it has the lock *)
Open(i, kind) ==
    /\ i \in Rows
    /\ challenges[i].kind = kind
    /\ ~challenges[i].consumed
    /\ ~challenges[i].expired

OpenForUpdate(i, kind) == Open(i, kind) /\ ~Locked(i)

Consume(f, S) ==
    [i \in Id |-> IF i \in S THEN [f[i] EXCEPT !.consumed = TRUE] ELSE f[i]]

NewChallenge(kind, login, keys, failures) ==
    [kind |-> kind, login |-> login, attempts |-> 0, consumed |-> FALSE,
     expired |-> FALSE, keys |-> keys, failures |-> failures]

(* The steps whose code check_current accepts: skew 1. *)
Current == {s \in Step : s <= now + 1 /\ now <= s + 1}

Won(i) == wins' = [wins EXCEPT ![challenges[i].login] = @ + 1]

-----------------------------------------------------------------------------
(* The password stage: begin_login *)

(* The summary is read before the transaction begins. *)
BeginRead(p) ==
    /\ req[p].pc = "idle"
    /\ required \/ totp # None \/ passkeys # {}
    /\ req' = [req EXCEPT ![p] = [Idle EXCEPT !.pc = "begin",
                 !.kind = IF required /\ totp = None THEN "totp_enrollment"
                                                     ELSE "login"]]
    /\ UNCHANGED <<settings, challenges, nextId, now, history>>

(* consume_login_challenges_for_user: the rows it sees are locked. *)
BeginConsume(p) ==
    /\ req[p].pc = "begin"
    /\ \A i \in Unconsumed : ~Locked(i)
    /\ req' = [req EXCEPT ![p].pc = "insert", ![p].held = Unconsumed]
    /\ UNCHANGED <<settings, challenges, nextId, now, history>>

(* Mutant: the schema has no unique index on the open challenge. *)
BeginInsertUnindexed(p) ==
    /\ req[p].pc = "insert"
    /\ nextId <= MaxChallenges
    /\ challenges' = [Consume(challenges, req[p].held) EXCEPT
                        ![nextId] = NewChallenge(req[p].kind, nextId, {}, 0)]
    /\ nextId' = nextId + 1
    /\ req' = [req EXCEPT ![p] = Idle]
    /\ UNCHANGED <<settings, now, history>>

(* create_challenge and the commit.  A row another login has inserted in   *)
(* the meantime violates the unique index, and the login fails.            *)
BeginInsert(p) ==
    /\ req[p].pc = "insert"
    /\ nextId <= MaxChallenges
    /\ IF Unconsumed \subseteq req[p].held
       THEN challenges' = [Consume(challenges, req[p].held) EXCEPT
                             ![nextId] = NewChallenge(req[p].kind, nextId, {}, 0)]
       ELSE UNCHANGED challenges
    /\ nextId' = nextId + 1
    /\ req' = [req EXCEPT ![p] = Idle]
    /\ UNCHANGED <<settings, now, history>>

-----------------------------------------------------------------------------
(* The second stage *)

(* Mutant: the fifth failure is counted but does not consume the row. *)
RecordUncapped(i) ==
    challenges' = [challenges EXCEPT ![i].attempts = @ + 1, ![i].failures = @ + 1]

(* record_challenge_failure *)
RecordChallengeFailure(i) ==
    challenges' = [challenges EXCEPT ![i].attempts = @ + 1, ![i].failures = @ + 1,
        ![i].consumed = @ \/ challenges[i].attempts + 1 >= MaxAttempts]

(* A wrong TOTP code, for a login or an enrolment, or a wrong assertion.   *)
(* A login challenge of an account without TOTP fails without a trace.     *)
WrongAnswer(i) ==
    /\ \E kind \in LoginKind : OpenForUpdate(i, kind)
    /\ challenges[i].kind = "login" => totp # None
    /\ RecordChallengeFailure(i)
    /\ UNCHANGED <<settings, nextId, now, req, history>>

(* verify_totp_login with the code of step s. *)
VerifyTotpLogin(i, s) ==
    /\ OpenForUpdate(i, "login")
    /\ totp # None
    /\ s \in Current
    /\ challenges' = Consume(challenges, {i})
    /\ Won(i)
    /\ logins' = logins \cup {s}
    /\ UNCHANGED <<settings, nextId, now, req, spent, reauths>>

(* verify_totp_enrollment: the code is right; the row is released while    *)
(* the recovery codes are hashed.                                          *)
EnrollCheck(p, i) ==
    /\ req[p].pc = "idle"
    /\ OpenForUpdate(i, "totp_enrollment")
    /\ req' = [req EXCEPT ![p] = [Idle EXCEPT !.pc = "enroll", !.challenge = i]]
    /\ UNCHANGED <<settings, challenges, nextId, now, history>>

(* Mutant: the second transaction trusts the check of the first. *)
EnrollWithoutRecheck(p) ==
    LET i == req[p].challenge IN
    /\ req[p].pc = "enroll"
    /\ ~Locked(i)
    /\ nextBatch <= MaxBatch
    /\ totp' = i
    /\ codes' = [b \in Batch |-> IF b = nextBatch THEN "unused" ELSE "none"]
    /\ nextBatch' = nextBatch + 1
    /\ challenges' = Consume(challenges, {i})
    /\ Won(i)
    /\ req' = [req EXCEPT ![p] = Idle]
    /\ UNCHANGED <<required, counter, passkeys, nextId, now,
                   spent, reauths, logins>>

(* ... and locked again to store the secret: enable_totp and               *)
(* replace_recovery_codes overwrite whatever is stored.                    *)
EnrollCommit(p) ==
    LET i == req[p].challenge IN
    /\ req[p].pc = "enroll"
    /\ ~Locked(i)
    /\ IF Open(i, "totp_enrollment")
       THEN /\ nextBatch <= MaxBatch
            /\ totp' = i
            /\ codes' = [b \in Batch |-> IF b = nextBatch THEN "unused" ELSE "none"]
            /\ nextBatch' = nextBatch + 1
            /\ challenges' = Consume(challenges, {i})
            /\ Won(i)
       ELSE UNCHANGED <<totp, codes, nextBatch, challenges, wins>>
    /\ req' = [req EXCEPT ![p] = Idle]
    /\ UNCHANGED <<required, counter, passkeys, nextId, now,
                   spent, reauths, logins>>

(* verify_recovery_login: challenge and unused codes are read, the answer  *)
(* is matched by Argon2 without any lock; c is None when nothing matches.  *)
RecoveryRead(p, i, c) ==
    /\ req[p].pc = "idle"
    /\ Open(i, "login")
    /\ c # None => codes[c] = "unused"
    /\ req' = [req EXCEPT ![p] = [Idle EXCEPT !.pc = "match", !.challenge = i,
                                              !.code = c]]
    /\ UNCHANGED <<settings, challenges, nextId, now, history>>

(* Mutant: the code is looked up but not marked as used. *)
RecoveryCommitUnmarked(p) ==
    LET i == req[p].challenge
        c == req[p].code
    IN  /\ req[p].pc = "match"
        /\ ~Locked(i)
        /\ IF Open(i, "login") /\ c # None /\ codes[c] = "unused"
           THEN /\ challenges' = Consume(challenges, {i})
                /\ spent' = [spent EXCEPT ![c] = @ + 1]
                /\ Won(i)
           ELSE UNCHANGED <<challenges, spent, wins>>
        /\ req' = [req EXCEPT ![p] = Idle]
        /\ UNCHANGED <<settings, nextId, now, reauths, logins>>

(* The transaction of verify_recovery_login. *)
RecoveryCommit(p) ==
    LET i == req[p].challenge
        c == req[p].code
    IN  /\ req[p].pc = "match"
        /\ ~Locked(i)
        /\ IF ~Open(i, "login")
           THEN UNCHANGED <<challenges, codes, spent, wins>>
           ELSE IF c # None /\ codes[c] = "unused"
                THEN /\ codes' = [codes EXCEPT ![c] = "used"]
                     /\ challenges' = Consume(challenges, {i})
                     /\ spent' = [spent EXCEPT ![c] = @ + 1]
                     /\ Won(i)
                ELSE /\ RecordChallengeFailure(i)
                     /\ UNCHANGED <<codes, spent, wins>>
        /\ req' = [req EXCEPT ![p] = Idle]
        /\ UNCHANGED <<required, totp, counter, nextBatch, passkeys, nextId, now,
                       reauths, logins>>

(* start_passkey_authentication: the login challenge gives way to one for  *)
(* the ceremony, which starts with no failed attempt.  The WebAuthn        *)
(* library refuses to start one without passkeys.                          *)
PasskeyStart(i) ==
    /\ OpenForUpdate(i, "login")
    /\ passkeys # {}
    /\ nextId <= MaxChallenges
    /\ challenges' = [Consume(challenges, {i}) EXCEPT ![nextId] =
         NewChallenge("passkey_authentication", challenges[i].login, passkeys,
                      challenges[i].failures)]
    /\ nextId' = nextId + 1
    /\ UNCHANGED <<settings, now, req, history>>

(* finish_passkey_authentication: with the row locked the passkeys are     *)
(* read and the assertion checked.  A passkey that is no longer registered *)
(* ends the request without a trace.                                       *)
PasskeyCheck(p, i, k) ==
    /\ req[p].pc = "idle"
    /\ OpenForUpdate(i, "passkey_authentication")
    /\ k \in challenges[i].keys
    /\ k \in passkeys
    /\ req' = [req EXCEPT ![p] = [Idle EXCEPT !.pc = "passkey", !.challenge = i,
                                              !.held = {i}]]
    /\ UNCHANGED <<settings, challenges, nextId, now, history>>

(* ... and its end: update_passkey_after_use asks for no row. *)
PasskeyCommit(p) ==
    LET i == req[p].challenge IN
    /\ req[p].pc = "passkey"
    /\ challenges' = Consume(challenges, {i})
    /\ Won(i)
    /\ req' = [req EXCEPT ![p] = Idle]
    /\ UNCHANGED <<settings, nextId, now, spent, reauths, logins>>

-----------------------------------------------------------------------------
(* The sensitive requests of the account's own sessions *)

(* Mutant: the step of the last confirmation is accepted once more. *)
ConsumeReauthStale(s) ==
    /\ totp # None
    /\ s \in Current
    /\ counter <= s
    /\ counter' = s
    /\ reauths' = [reauths EXCEPT ![s] = @ + 1]

(* Mutant: the step after the one that was used is stored. *)
ConsumeReauthAhead(s) ==
    /\ totp # None
    /\ s \in Current
    /\ counter < s
    /\ counter' = s + 1
    /\ reauths' = [reauths EXCEPT ![s] = @ + 1]

(* verify_totp_code with the code of step s; consume_reauth_totp_counter   *)
(* accepts growing steps only.                                             *)
ConsumeReauth(s) ==
    /\ totp # None
    /\ s \in Current
    /\ counter < s
    /\ counter' = s
    /\ reauths' = [reauths EXCEPT ![s] = @ + 1]

(* verify_password_and_totp, then one of the three operations behind it;   *)
(* or the grant of a step-up or of a module, which are other modules.      *)
Reauthenticate(p, s, pc) ==
    /\ req[p].pc = "idle"
    /\ pc \in {"regen", "register", "revoke", "idle"}
    /\ ConsumeReauth(s)
    /\ req' = [req EXCEPT ![p] = [Idle EXCEPT !.pc = pc]]
    /\ UNCHANGED <<required, totp, codes, nextBatch, passkeys, challenges, nextId,
                   now, wins, spent, logins>>

(* regenerate_recovery_codes: the rows the DELETE of                       *)
(* replace_recovery_codes sees.                                            *)
RegenerateSnapshot(p) ==
    /\ req[p].pc = "regen"
    /\ req' = [req EXCEPT ![p].pc = "replace",
                          ![p].seen = {b \in Batch : codes[b] # "none"}]
    /\ UNCHANGED <<settings, challenges, nextId, now, history>>

(* ... what is left of them is deleted, the new codes are inserted. *)
RegenerateCommit(p) ==
    /\ req[p].pc = "replace"
    /\ nextBatch <= MaxBatch
    /\ codes' = [b \in Batch |-> IF b = nextBatch THEN "unused"
                                 ELSE IF b \in req[p].seen THEN "none" ELSE codes[b]]
    /\ nextBatch' = nextBatch + 1
    /\ req' = [req EXCEPT ![p] = Idle]
    /\ UNCHANGED <<required, totp, counter, passkeys, challenges, nextId, now, history>>

(* start_passkey_registration *)
RegisterStart(p) ==
    /\ req[p].pc = "register"
    /\ nextId <= MaxChallenges
    /\ challenges' = [challenges EXCEPT ![nextId] =
                        NewChallenge("passkey_registration", nextId, {}, 0)]
    /\ nextId' = nextId + 1
    /\ req' = [req EXCEPT ![p] = Idle]
    /\ UNCHANGED <<settings, now, history>>

(* finish_passkey_registration: credential_id is unique. *)
RegisterFinish(i, k) ==
    /\ OpenForUpdate(i, "passkey_registration")
    /\ k \notin passkeys
    /\ passkeys' = passkeys \cup {k}
    /\ challenges' = Consume(challenges, {i})
    /\ UNCHANGED <<required, totp, counter, codes, nextBatch, nextId, now, req, history>>

(* revoke_passkey; one that is not there is an error. *)
RevokePasskey(p, k) ==
    /\ req[p].pc = "revoke"
    /\ passkeys' = passkeys \ {k}
    /\ req' = [req EXCEPT ![p] = Idle]
    /\ UNCHANGED <<required, totp, counter, codes, nextBatch, challenges, nextId, now,
                   history>>

-----------------------------------------------------------------------------
(* The role is given or taken (users::assign_roles). *)
ChangeRole ==
    /\ required' = ~required
    /\ UNCHANGED <<totp, counter, codes, nextBatch, passkeys, challenges, nextId, now,
                   req, history>>

(* Five minutes have passed since the row was inserted; of a consumed row  *)
(* nobody asks.                                                            *)
Expire(i) ==
    /\ i \in Rows
    /\ ~challenges[i].consumed /\ ~challenges[i].expired
    /\ challenges' = [challenges EXCEPT ![i].expired = TRUE]
    /\ UNCHANGED <<settings, nextId, now, req, history>>

Tick ==
    /\ now < MaxStep
    /\ now' = now + 1
    /\ UNCHANGED <<settings, challenges, nextId, req, history>>

LoginStep(p) ==
    \/ BeginRead(p) \/ BeginConsume(p) \/ BeginInsert(p)
    \/ \E i \in Id : \/ EnrollCheck(p, i)
                     \/ \E c \in Batch \cup {None} : RecoveryRead(p, i, c)
                     \/ \E k \in Key : PasskeyCheck(p, i, k)
    \/ EnrollCommit(p) \/ RecoveryCommit(p) \/ PasskeyCommit(p)

SensitiveStep(p) ==
    \/ \E s \in Step, pc \in {"regen", "register", "revoke", "idle"} :
          Reauthenticate(p, s, pc)
    \/ RegenerateSnapshot(p) \/ RegenerateCommit(p) \/ RegisterStart(p)
    \/ \E k \in Key : RevokePasskey(p, k)

ChallengeStep(i) ==
    \/ WrongAnswer(i) \/ PasskeyStart(i) \/ Expire(i)
    \/ \E s \in Step : VerifyTotpLogin(i, s)
    \/ \E k \in Key : RegisterFinish(i, k)

Next ==
    \/ \E p \in Request : LoginStep(p) \/ SensitiveStep(p)
    \/ \E i \in Id : ChallengeStep(i)
    \/ ChangeRole
    \/ Tick

Spec == Init /\ [][Next]_vars

-----------------------------------------------------------------------------
(* Properties *)

(* docs/security-roadmap.md:7: a challenge is for one login.  Whatever     *)
(* factors are tried at once on it, and on the ceremony that replaces it,  *)
(* one password check yields at most one completed login.                  *)
OneLoginPerPassword == \A i \in Id : wins[i] <= 1

(* docs/mfa-operations.md:20: a recovery code opens at most one login,     *)
(* though it is matched against rows read before the transaction.          *)
RecoveryCodeOnce == \A b \in Batch : spent[b] <= 1

(* A TOTP step confirms at most one sensitive request, whatever requests   *)
(* race for it and in whatever order their codes were read.                *)
ReauthOnce == \A s \in Step : reauths[s] <= 1

(* The login that began last is the only one whose second stage is open:   *)
(* begin_login consumes what it sees, the unique index refuses what it     *)
(* could not see.                                                          *)
OneOpenChallenge == Cardinality(Unconsumed) <= 1

(* An open row has attempts left, so a login is refused after MaxAttempts  *)
(* wrong answers to one row even if they arrive together.                  *)
OpenHasAttempts ==
    \A i \in Rows : ~challenges[i].consumed => challenges[i].attempts < MaxAttempts

(* docs/mfa-operations.md:25: after five wrong answers in a row the user   *)
(* starts again with the password; read as: no row is open that belongs to *)
(* a login with that many.                                                 *)
FailuresEndLogin ==
    \A i \in Unconsumed : challenges[i].failures < MaxAttempts

(* docs/mfa-operations.md:21: once recovery codes have been renewed, the   *)
(* old ones are invalid; read as: the stored ones are of one batch.        *)
OldCodesEnd == Cardinality({b \in Batch : codes[b] # "none"}) <= 1

(* migrations/20260810080000_prevent_totp_replay.sql:1: a time step that   *)
(* has completed an authentication check is rejected; read as: none        *)
(* completes both a login and the confirmation of a sensitive request.     *)
TotpStepOnce == \A s \in logins : reauths[s] = 0

(* docs/security-roadmap.md:8 and docs/mfa-operations.md:3: TOTP is        *)
(* enrolled at the first login, afterwards it is asked for; read as: no    *)
(* enrolment replaces an authenticator that is enrolled.                   *)
EnrolledTotpStays == [][totp # None => totp' = totp]_vars

=============================================================================
