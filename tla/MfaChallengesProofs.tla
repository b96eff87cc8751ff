------------------------ MODULE MfaChallengesProofs ------------------------
(***************************************************************************)
(* The second factor works once: for any number of requests, challenges,   *)
(* recovery codes and time steps.                                          *)
(*                                                                         *)
(* The inductive invariant has four parts that depend on different         *)
(* variables, so that each is proved by itself.                            *)
(***************************************************************************)
EXTENDS MfaTickets, FiniteSetTheorems, TLAPS

SettingsOK ==
    /\ required \in BOOLEAN
    /\ totp \in Id \cup {0, None}
    /\ passkeys \in SUBSET Key
    /\ now \in 1..MaxStep
    /\ logins \in SUBSET Step

(* A step beyond the stored counter has confirmed nothing yet. *)
StepsOnce ==
    /\ counter \in 0..MaxStep
    /\ reauths \in [Step -> Nat]
    /\ \A s \in Step : reauths[s] <= 1 /\ (s > counter => reauths[s] = 0)

(* A code that is unused, or not issued yet, has opened nothing. *)
CodesOnce ==
    /\ codes \in [Batch -> {"none", "unused", "used"}]
    /\ nextBatch \in 1..(MaxBatch + 1)
    /\ spent \in [Batch -> Nat]
    /\ \A b \in Batch :
          /\ spent[b] <= 1
          /\ codes[b] = "unused" => spent[b] = 0
          /\ codes[b] # "none" => b < nextBatch
          /\ b >= nextBatch => spent[b] = 0

RowTypes ==
    /\ challenges \in [Id -> Challenge \cup {None}]
    /\ nextId \in 1..(MaxChallenges + 1)
    /\ wins \in [Id -> Nat]
    /\ req \in [Request -> RequestState]

(* The ids that have been given out. *)
Numbered ==
    /\ \A i \in Rows : i < nextId /\ challenges[i].login < nextId
    /\ \A l \in Id : l >= nextId => wins[l] = 0

(* The rows of one account on which a login can still be completed. *)
OneOpen == \A i, j \in Unconsumed : i = j

(* The password check behind an open row has not yielded a login. *)
Winnable ==
    /\ \A l \in Id : wins[l] <= 1
    /\ \A i \in Unconsumed : wins[challenges[i].login] = 0

(* Locked rows exist and have one holder; a passkey that is being checked  *)
(* belongs to a row that nobody can consume meanwhile.                     *)
Holding ==
    /\ \A p \in Request : req[p].held \subseteq Rows
    /\ \A p \in Request : req[p].pc = "passkey" =>
          req[p].challenge \in req[p].held \cap Unconsumed
    /\ \A p, q \in Request : p # q => req[p].held \cap req[q].held = {}

RowsInv ==
    /\ RowTypes /\ OpenHasAttempts /\ Numbered /\ OneOpen /\ Winnable /\ Holding

IInv == SettingsOK /\ StepsOnce /\ CodesOnce /\ RowsInv

(* A request that is over keeps nothing. *)
LEMMA IdleType == Idle \in RequestState /\ Idle.held = {} /\ Idle.pc = "idle"
  BY DEF Idle, RequestState, Pc

(* The states the program starts in. *)
LEMMA InitIInv == Init => IInv
<1> SUFFICES ASSUME Init PROVE IInv
  OBVIOUS
<1>1. SettingsOK
  BY MfaAssumption DEF Init, SettingsOK, Step
<1>2. StepsOnce
  BY MfaAssumption DEF Init, StepsOnce, Step
<1>3. CodesOnce
  BY MfaAssumption DEF Init, CodesOnce, Batch
<1>4. RowsInv
  <2>1. Rows = {} /\ Unconsumed = {}
    BY DEF Init, Rows, Unconsumed
  <2>2. RowTypes
    BY MfaAssumption, IdleType DEF Init, RowTypes
  <2>3. OpenHasAttempts /\ Numbered /\ OneOpen /\ Winnable
    BY <2>1 DEF Init, OpenHasAttempts, Numbered, OneOpen, Winnable
  <2>4. Holding
    BY <2>1, IdleType DEF Init, Holding
  <2>5. QED BY <2>2, <2>3, <2>4 DEF RowsInv
<1>5. QED BY <1>1, <1>2, <1>3, <1>4 DEF IInv

-----------------------------------------------------------------------------
(* The settings and the counters *)

(* No step puts an ill-typed value into the settings, the clock or the history. *)
LEMMA SettingsStep ==
  ASSUME SettingsOK, RowTypes, Next
  PROVE  SettingsOK'
<1> USE DEF SettingsOK
<1>1. ASSUME NEW p \in Request, LoginStep(p) PROVE SettingsOK'
  <2>1. CASE BeginRead(p) \/ BeginConsume(p) \/ BeginInsert(p)
    BY <2>1 DEF BeginRead, BeginConsume, BeginInsert, settings, history
  <2>2. CASE \E i \in Id : EnrollCheck(p, i)
    BY <2>2 DEF EnrollCheck, settings, history
  <2>3. CASE \E i \in Id, c \in Batch \cup {None} : RecoveryRead(p, i, c)
    BY <2>3 DEF RecoveryRead, settings, history
  <2>4. CASE \E i \in Id, k \in Key : PasskeyCheck(p, i, k)
    BY <2>4 DEF PasskeyCheck, settings, history
  <2>5. CASE EnrollCommit(p)
    BY <2>5 DEF EnrollCommit, Open, Rows
  <2>6. CASE RecoveryCommit(p)
    BY <2>6 DEF RecoveryCommit
  <2>7. CASE PasskeyCommit(p)
    BY <2>7 DEF PasskeyCommit, settings
  <2>8. QED BY <1>1, <2>1, <2>2, <2>3, <2>4, <2>5, <2>6, <2>7 DEF LoginStep
<1>2. ASSUME NEW p \in Request, SensitiveStep(p) PROVE SettingsOK'
  <2>1. CASE \E s \in Step, pc \in {"regen", "register", "revoke", "idle"} :
                Reauthenticate(p, s, pc)
    BY <2>1 DEF Reauthenticate
  <2>2. CASE RegenerateSnapshot(p) \/ RegenerateCommit(p) \/ RegisterStart(p)
    BY <2>2 DEF RegenerateSnapshot, RegenerateCommit, RegisterStart, settings, history
  <2>3. CASE \E k \in Key : RevokePasskey(p, k)
    BY <2>3 DEF RevokePasskey, history
  <2>4. QED BY <1>2, <2>1, <2>2, <2>3 DEF SensitiveStep
<1>3. ASSUME NEW i \in Id, ChallengeStep(i) PROVE SettingsOK'
  <2>1. CASE WrongAnswer(i) \/ PasskeyStart(i) \/ Expire(i)
    BY <2>1 DEF WrongAnswer, PasskeyStart, Expire, settings, history
  <2>2. CASE \E s \in Step : VerifyTotpLogin(i, s)
    BY <2>2 DEF VerifyTotpLogin, settings
  <2>3. CASE \E k \in Key : RegisterFinish(i, k)
    BY <2>3 DEF RegisterFinish, history
  <2>4. QED BY <1>3, <2>1, <2>2, <2>3 DEF ChallengeStep
<1>4. CASE ChangeRole
  BY <1>4 DEF ChangeRole, history
<1>5. CASE Tick
  BY <1>5, MfaAssumption DEF Tick, settings, history
<1>6. QED BY <1>1, <1>2, <1>3, <1>4, <1>5 DEF Next

(* Only verify_totp_code touches the counter, and it accepts growing steps. *)
LEMMA StepsStep ==
  ASSUME StepsOnce, Next
  PROVE  StepsOnce'
<1> DEFINE Same == UNCHANGED <<counter, reauths>>
<1>1. ASSUME NEW p \in Request, LoginStep(p) PROVE Same
  <2>1. CASE BeginRead(p) \/ BeginConsume(p) \/ BeginInsert(p)
    BY <2>1 DEF BeginRead, BeginConsume, BeginInsert, settings, history
  <2>2. CASE \E i \in Id : EnrollCheck(p, i)
    BY <2>2 DEF EnrollCheck, settings, history
  <2>3. CASE \E i \in Id, c \in Batch \cup {None} : RecoveryRead(p, i, c)
    BY <2>3 DEF RecoveryRead, settings, history
  <2>4. CASE \E i \in Id, k \in Key : PasskeyCheck(p, i, k)
    BY <2>4 DEF PasskeyCheck, settings, history
  <2>5. CASE EnrollCommit(p) \/ RecoveryCommit(p) \/ PasskeyCommit(p)
    BY <2>5 DEF EnrollCommit, RecoveryCommit, PasskeyCommit, settings
  <2>6. QED BY <1>1, <2>1, <2>2, <2>3, <2>4, <2>5 DEF LoginStep
<1>2. ASSUME NEW p \in Request, SensitiveStep(p)
      PROVE  Same \/ \E s \in Step : ConsumeReauth(s)
  BY <1>2 DEF SensitiveStep, Reauthenticate, RegenerateSnapshot, RegenerateCommit,
              RegisterStart, RevokePasskey, settings, history
<1>3. ASSUME NEW i \in Id, ChallengeStep(i) PROVE Same
  BY <1>3 DEF ChallengeStep, WrongAnswer, PasskeyStart, Expire, VerifyTotpLogin,
              RegisterFinish, settings, history
<1>4. CASE ChangeRole \/ Tick
  BY <1>4 DEF ChangeRole, Tick, settings, history, StepsOnce
<1>5. CASE Same
  BY <1>5 DEF StepsOnce
<1>6. ASSUME NEW s \in Step, ConsumeReauth(s) PROVE StepsOnce'
  <2>1. /\ counter < s /\ counter' = s
        /\ reauths' = [reauths EXCEPT ![s] = @ + 1]
    BY <1>6 DEF ConsumeReauth
  <2>2. s \in Nat /\ s <= MaxStep /\ reauths[s] = 0
    BY <2>1, MfaAssumption DEF StepsOnce, Step
  <2>3. counter' \in 0..MaxStep /\ reauths' \in [Step -> Nat]
    BY <2>1, <2>2, MfaAssumption DEF StepsOnce
  <2>4. ASSUME NEW t \in Step
        PROVE  reauths'[t] <= 1 /\ (t > s => reauths'[t] = 0)
    <3>1. t = s => reauths'[t] = 1
      BY <2>1, <2>2 DEF StepsOnce
    <3>2. t # s => reauths'[t] = reauths[t]
      BY <2>1 DEF StepsOnce
    <3>3. t \in Nat /\ counter \in Nat
      BY MfaAssumption DEF Step, StepsOnce
    <3>4. QED BY <2>1, <2>2, <3>1, <3>2, <3>3 DEF StepsOnce
  <2>5. QED BY <2>1, <2>3, <2>4 DEF StepsOnce
<1>7. QED BY <1>1, <1>2, <1>3, <1>4, <1>5, <1>6 DEF Next

(* A new batch of codes, instead of those in S. *)
LEMMA NewBatch ==
  ASSUME CodesOnce, nextBatch <= MaxBatch, NEW S,
         codes' = [b \in Batch |-> IF b = nextBatch THEN "unused"
                                   ELSE IF b \in S THEN "none" ELSE codes[b]],
         nextBatch' = nextBatch + 1, spent' = spent
  PROVE  CodesOnce'
<1>1. nextBatch' \in 1..(MaxBatch + 1)
  BY MfaAssumption DEF CodesOnce
<1>2. codes' \in [Batch -> {"none", "unused", "used"}]
  BY DEF CodesOnce
<1>3. ASSUME NEW b \in Batch
      PROVE  /\ spent'[b] <= 1
             /\ codes'[b] = "unused" => spent'[b] = 0
             /\ codes'[b] # "none" => b < nextBatch'
             /\ b >= nextBatch' => spent'[b] = 0
  <2>1. b \in Nat /\ nextBatch \in Nat
    BY MfaAssumption DEF Batch, CodesOnce
  <2>2. codes'[b] \in {"none", codes[b]} \/ b = nextBatch
    OBVIOUS
  <2>3. QED BY <2>1, <2>2 DEF CodesOnce
<1>4. QED BY <1>1, <1>2, <1>3 DEF CodesOnce

(* A code is spent by the transaction that found it unused. *)
LEMMA CodesStep ==
  ASSUME CodesOnce, RowTypes, Next
  PROVE  CodesOnce'
<1> DEFINE Same == UNCHANGED <<codes, nextBatch, spent>>
<1>1. ASSUME NEW p \in Request, LoginStep(p) PROVE CodesOnce'
  <2>0. CASE Same
    BY <2>0 DEF CodesOnce
  <2>1. CASE BeginRead(p) \/ BeginConsume(p) \/ BeginInsert(p)
    BY <2>0, <2>1 DEF BeginRead, BeginConsume, BeginInsert, settings, history
  <2>2. CASE \E i \in Id : EnrollCheck(p, i)
    BY <2>0, <2>2 DEF EnrollCheck, settings, history
  <2>3. CASE \E i \in Id, c \in Batch \cup {None} : RecoveryRead(p, i, c)
    BY <2>0, <2>3 DEF RecoveryRead, settings, history
  <2>4. CASE \E i \in Id, k \in Key : PasskeyCheck(p, i, k)
    BY <2>0, <2>4 DEF PasskeyCheck, settings, history
  <2>5. CASE EnrollCommit(p)
    <3>1. CASE Open(req[p].challenge, "totp_enrollment")
      <4>1. codes' = [b \in Batch |-> IF b = nextBatch THEN "unused"
                        ELSE IF b \in Batch THEN "none" ELSE codes[b]]
        BY <2>5, <3>1 DEF EnrollCommit
      <4>2. nextBatch <= MaxBatch /\ nextBatch' = nextBatch + 1 /\ spent' = spent
        BY <2>5, <3>1 DEF EnrollCommit
      <4>3. QED BY <4>1, <4>2, NewBatch
    <3>2. CASE ~Open(req[p].challenge, "totp_enrollment")
      BY <2>0, <2>5, <3>2 DEF EnrollCommit
    <3>3. QED BY <3>1, <3>2
  <2>6. CASE RecoveryCommit(p)
    <3> DEFINE c == req[p].code
    <3>1. CASE Open(req[p].challenge, "login") /\ c # None /\ codes[c] = "unused"
      <4>1. c \in Batch
        BY <3>1 DEF RowTypes, RequestState
      <4>2. /\ codes' = [codes EXCEPT ![c] = "used"]
            /\ spent' = [spent EXCEPT ![c] = @ + 1]
            /\ nextBatch' = nextBatch
        BY <2>6, <3>1 DEF RecoveryCommit
      <4>3. spent[c] = 0 /\ c < nextBatch
        BY <3>1, <4>1 DEF CodesOnce
      <4>4. /\ codes' \in [Batch -> {"none", "unused", "used"}]
            /\ spent' \in [Batch -> Nat]
            /\ codes'[c] = "used" /\ spent'[c] = 1
            /\ \A b \in Batch \ {c} : codes'[b] = codes[b] /\ spent'[b] = spent[b]
        BY <4>1, <4>2, <4>3 DEF CodesOnce
      <4>5. c \in Nat /\ nextBatch \in Nat
        BY <4>1, MfaAssumption DEF Batch, CodesOnce
      <4> HIDE DEF c
      <4>6. QED BY <4>1, <4>2, <4>3, <4>4, <4>5 DEF CodesOnce
    <3>2. CASE ~(Open(req[p].challenge, "login") /\ c # None /\ codes[c] = "unused")
      BY <2>0, <2>6, <3>2 DEF RecoveryCommit
    <3>3. QED BY <3>1, <3>2
  <2>7. CASE PasskeyCommit(p)
    BY <2>0, <2>7 DEF PasskeyCommit, settings
  <2>8. QED BY <1>1, <2>1, <2>2, <2>3, <2>4, <2>5, <2>6, <2>7 DEF LoginStep
<1>2. ASSUME NEW p \in Request, SensitiveStep(p) PROVE CodesOnce'
  <2>0. CASE Same
    BY <2>0 DEF CodesOnce
  <2>1. CASE RegenerateCommit(p)
    BY <2>1, NewBatch DEF RegenerateCommit, history
  <2>2. CASE ~RegenerateCommit(p)
    BY <1>2, <2>0, <2>2 DEF SensitiveStep, Reauthenticate, RegenerateSnapshot,
                            RegisterStart, RevokePasskey, settings, history
  <2>3. QED BY <2>1, <2>2
<1>3. ASSUME NEW i \in Id, ChallengeStep(i) PROVE Same
  BY <1>3 DEF ChallengeStep, WrongAnswer, PasskeyStart, Expire, VerifyTotpLogin,
              RegisterFinish, settings, history
<1>4. CASE ChangeRole \/ Tick
  BY <1>4 DEF ChangeRole, Tick, settings, history, CodesOnce
<1>5. CASE Same
  BY <1>5 DEF CodesOnce
<1>6. QED BY <1>1, <1>2, <1>3, <1>4, <1>5 DEF Next

-----------------------------------------------------------------------------
(* The challenge rows *)

(* consume_challenge on the rows in S. *)
LEMMA Consuming ==
  ASSUME RowTypes, OpenHasAttempts, NEW S \in SUBSET Rows, NEW f,
         f = Consume(challenges, S)
  PROVE  /\ f \in [Id -> Challenge \cup {None}]
         /\ \A i \in Id : f[i] # None <=> i \in Rows
         /\ \A i \in Rows : /\ f[i].kind = challenges[i].kind
                            /\ f[i].login = challenges[i].login
                            /\ f[i].attempts = challenges[i].attempts
                            /\ f[i].expired = challenges[i].expired
                            /\ f[i].consumed = (challenges[i].consumed \/ i \in S)
<1>1. ASSUME NEW i \in Rows
      PROVE  /\ challenges[i] \in Challenge
             /\ [challenges[i] EXCEPT !.consumed = TRUE] \in Challenge
  BY DEF RowTypes, Rows, Challenge
<1>2. \A i \in S : f[i] = [challenges[i] EXCEPT !.consumed = TRUE]
  BY DEF Consume, Rows
<1>3. \A i \in Id \ S : f[i] = challenges[i]
  BY DEF Consume
<1>4. f \in [Id -> Challenge \cup {None}]
  BY <1>1, <1>2, <1>3 DEF Consume, RowTypes
<1>5. ASSUME NEW i \in Id PROVE f[i] # None <=> i \in Rows
  BY <1>1, <1>2, <1>3, NoRow DEF Rows
<1>6. ASSUME NEW i \in Rows
      PROVE  /\ f[i].kind = challenges[i].kind
             /\ f[i].login = challenges[i].login
             /\ f[i].attempts = challenges[i].attempts
             /\ f[i].expired = challenges[i].expired
             /\ f[i].consumed = (challenges[i].consumed \/ i \in S)
  <2>1. challenges[i].consumed \in BOOLEAN
    BY <1>1 DEF Challenge
  <2>2. CASE i \in S
    BY <1>1, <1>2, <2>2 DEF Challenge
  <2>3. CASE i \notin S
    BY <1>3, <2>1, <2>3 DEF Rows
  <2>4. QED BY <2>2, <2>3
<1>7. QED BY <1>4, <1>5, <1>6

(* What the invariant needs to know of a step on the rows: those it keeps, *)
(* with their kind and login, those it consumes, and the one it inserts.   *)
Keeps(S) ==
    /\ Rows \subseteq Rows'
    /\ \A i \in Rows : /\ challenges'[i].login = challenges[i].login
                       /\ challenges'[i].kind = challenges[i].kind
    /\ Unconsumed' = Unconsumed \ S

(* Rows are consumed, none is inserted. *)
LEMMA ConsumeRows ==
  ASSUME RowsInv, NEW S \in SUBSET Rows, challenges' = Consume(challenges, S)
  PROVE  /\ challenges' \in [Id -> Challenge \cup {None}]
         /\ OpenHasAttempts'
         /\ Rows' = Rows
         /\ Keeps(S)
         /\ \A i \in Rows : challenges'[i].expired = challenges[i].expired
<1>1. /\ challenges' \in [Id -> Challenge \cup {None}]
      /\ \A i \in Id : challenges'[i] # None <=> i \in Rows
      /\ \A i \in Rows : /\ challenges'[i].kind = challenges[i].kind
                         /\ challenges'[i].login = challenges[i].login
                         /\ challenges'[i].attempts = challenges[i].attempts
                         /\ challenges'[i].expired = challenges[i].expired
                         /\ challenges'[i].consumed = (challenges[i].consumed \/ i \in S)
  BY Consuming DEF RowsInv
<1>2. Rows' = Rows
  BY <1>1 DEF Rows
<1>3. OpenHasAttempts'
  BY <1>1, <1>2 DEF OpenHasAttempts, RowsInv
<1>4. Unconsumed' = Unconsumed \ S
  BY <1>1, <1>2 DEF Unconsumed
<1>5. QED BY <1>1, <1>2, <1>3, <1>4 DEF Keeps

(* create_challenge, after S has been consumed. *)
LEMMA InsertRow ==
  ASSUME RowsInv, NEW S \in SUBSET Rows, nextId <= MaxChallenges,
         NEW kind \in LoginKind \cup {"passkey_registration"},
         NEW login \in Id, NEW keys \in SUBSET Key, NEW n \in Nat,
         challenges' = [Consume(challenges, S) EXCEPT
                          ![nextId] = NewChallenge(kind, login, keys, n)]
  PROVE  /\ nextId \in Id
         /\ challenges' \in [Id -> Challenge \cup {None}]
         /\ OpenHasAttempts'
         /\ Rows' = Rows \cup {nextId}
         /\ \A i \in Rows : /\ challenges'[i].login = challenges[i].login
                            /\ challenges'[i].kind = challenges[i].kind
                            /\ challenges'[i].expired = challenges[i].expired
         /\ challenges'[nextId].login = login
         /\ challenges'[nextId].kind = kind
         /\ ~challenges'[nextId].expired
         /\ Unconsumed' = (Unconsumed \ S) \cup
                            (IF kind \in LoginKind THEN {nextId} ELSE {})
<1> DEFINE f == Consume(challenges, S)
           c == NewChallenge(kind, login, keys, n)
<1>1. /\ f \in [Id -> Challenge \cup {None}]
      /\ \A i \in Id : f[i] # None <=> i \in Rows
      /\ \A i \in Rows : /\ f[i].kind = challenges[i].kind
                         /\ f[i].login = challenges[i].login
                         /\ f[i].attempts = challenges[i].attempts
                         /\ f[i].expired = challenges[i].expired
                         /\ f[i].consumed = (challenges[i].consumed \/ i \in S)
  BY Consuming DEF RowsInv
<1>2. nextId \in Id /\ nextId \notin Rows
  BY MfaAssumption DEF RowsInv, RowTypes, Numbered, Id
<1>3. /\ c \in Challenge /\ c.kind = kind /\ c.login = login
      /\ c.attempts = 0 /\ c.consumed = FALSE /\ c.expired = FALSE
  BY MfaAssumption DEF NewChallenge, Challenge
<1> HIDE DEF f, c
<1>4. challenges' = [f EXCEPT ![nextId] = c]
  BY DEF f, c
<1>5. /\ challenges' \in [Id -> Challenge \cup {None}]
      /\ challenges'[nextId] = c
      /\ \A i \in Id \ {nextId} : challenges'[i] = f[i]
  <2>1. f \in [Id -> Challenge \cup {None}] /\ nextId \in Id /\ c \in Challenge
    BY <1>1, <1>2, <1>3
  <2>2. QED BY <1>4, <2>1
<1>6. Rows' = Rows \cup {nextId}
  BY <1>1, <1>2, <1>3, <1>5, NoRow DEF Rows
<1>7. Rows \subseteq Id \ {nextId}
  BY <1>2 DEF Rows
<1>8. OpenHasAttempts'
  <2>1. ASSUME NEW i \in Rows
        PROVE  /\ challenges'[i].attempts = challenges[i].attempts
               /\ challenges'[i].consumed = (challenges[i].consumed \/ i \in S)
    BY <1>1, <1>5, <1>7
  <2>2. /\ challenges'[nextId].attempts = 0 /\ 0 < MaxAttempts
    BY <1>3, <1>5, MfaAssumption
  <2>3. QED BY <1>6, <2>1, <2>2 DEF OpenHasAttempts, RowsInv
<1>9. Unconsumed' = (Unconsumed \ S) \cup (IF kind \in LoginKind THEN {nextId} ELSE {})
  <2>1. ASSUME NEW i \in Rows
        PROVE  i \in Unconsumed' <=> i \in Unconsumed \ S
    BY <1>1, <1>5, <1>6, <1>7 DEF Unconsumed
  <2>2. nextId \in Unconsumed' <=> kind \in LoginKind
    BY <1>3, <1>5, <1>6 DEF Unconsumed
  <2>3. Unconsumed \subseteq Rows /\ Unconsumed' \subseteq Rows'
    BY DEF Unconsumed
  <2>4. QED BY <1>2, <1>6, <2>1, <2>2, <2>3
<1>10. QED BY <1>1, <1>2, <1>3, <1>5, <1>6, <1>7, <1>8, <1>9

(* record_challenge_failure on an open row. *)
LEMMA FailRow ==
  ASSUME RowsInv, NEW i \in Rows, ~challenges[i].consumed, RecordChallengeFailure(i)
  PROVE  /\ challenges' \in [Id -> Challenge \cup {None}]
         /\ OpenHasAttempts'
         /\ Rows' = Rows
         /\ \A j \in Rows : challenges'[j].expired = challenges[j].expired
         /\ \E S \in SUBSET {i} : Keeps(S)
<1> DEFINE a == challenges[i].attempts
           r == [challenges[i] EXCEPT !.attempts = @ + 1, !.failures = @ + 1,
                   !.consumed = @ \/ a + 1 >= MaxAttempts]
<1>1. i \in Id /\ challenges[i] \in Challenge /\ challenges[i].attempts \in Nat
  BY MfaAssumption DEF RowsInv, RowTypes, Rows, Challenge
<1>2. a < MaxAttempts
  BY DEF RowsInv, OpenHasAttempts
<1>3. /\ r.kind = challenges[i].kind /\ r.login = challenges[i].login
      /\ r.attempts = a + 1 /\ (a + 1 >= MaxAttempts => r.consumed)
      /\ r.expired = challenges[i].expired
  BY <1>1 DEF Challenge
<1>4. r \in Challenge
  <2>1. a + 1 \in 0..MaxAttempts
    BY <1>1, <1>2, MfaAssumption
  <2>2. challenges[i].failures + 1 \in Nat
    BY <1>1 DEF Challenge
  <2>3. QED BY <1>1, <2>1, <2>2 DEF Challenge
<1>5. challenges' = [challenges EXCEPT ![i] = r]
  BY <1>1 DEF RecordChallengeFailure, RowsInv, RowTypes
<1> HIDE DEF r
<1>6. /\ challenges' \in [Id -> Challenge \cup {None}]
      /\ challenges'[i] = r
      /\ \A j \in Id \ {i} : challenges'[j] = challenges[j]
  BY <1>1, <1>4, <1>5 DEF RowsInv, RowTypes
<1>7. Rows' = Rows
  BY <1>1, <1>4, <1>6, NoRow DEF Rows
<1>8. OpenHasAttempts'
  <2>1. ~challenges'[i].consumed => challenges'[i].attempts < MaxAttempts
    BY <1>1, <1>3, <1>6, MfaAssumption
  <2>2. QED BY <1>6, <1>7, <2>1 DEF OpenHasAttempts, RowsInv, Rows
<1>9. \A j \in Rows : /\ challenges'[j].login = challenges[j].login
                      /\ challenges'[j].kind = challenges[j].kind
                      /\ challenges'[j].expired = challenges[j].expired
  BY <1>3, <1>6 DEF Rows
<1>10. Unconsumed' = Unconsumed \/ Unconsumed' = Unconsumed \ {i}
  <2>1. ASSUME NEW j \in Rows, j # i PROVE j \in Unconsumed' <=> j \in Unconsumed
    BY <1>6, <1>7, <2>1 DEF Unconsumed, Rows
  <2>2. i \in Unconsumed' => i \in Unconsumed
    BY <1>3, <1>6, <1>7 DEF Unconsumed
  <2>3. Unconsumed \subseteq Rows /\ Unconsumed' \subseteq Rows
    BY <1>7 DEF Unconsumed
  <2>4. QED BY <2>1, <2>2, <2>3
<1>11. CASE Unconsumed' = Unconsumed
  <2>1. Keeps({})
    BY <1>7, <1>9, <1>11 DEF Keeps
  <2>2. QED BY <1>6, <1>7, <1>8, <1>9, <2>1
<1>12. CASE Unconsumed' = Unconsumed \ {i}
  <2>1. Keeps({i})
    BY <1>7, <1>9, <1>12 DEF Keeps
  <2>2. QED BY <1>6, <1>7, <1>8, <1>9, <2>1
<1>13. QED BY <1>10, <1>11, <1>12

(* The passing of time closes a row but consumes nothing. *)
LEMMA ExpireRow ==
  ASSUME RowsInv, NEW i \in Id, Expire(i)
  PROVE  /\ challenges' \in [Id -> Challenge \cup {None}]
         /\ OpenHasAttempts'
         /\ Rows' = Rows
         /\ Keeps({})
         /\ \A j \in Rows \ {i} : challenges'[j].expired = challenges[j].expired
<1> DEFINE r == [challenges[i] EXCEPT !.expired = TRUE]
<1>1. i \in Rows /\ challenges[i] \in Challenge
  BY DEF Expire, RowsInv, RowTypes, Rows
<1>2. /\ r \in Challenge
      /\ r.kind = challenges[i].kind /\ r.login = challenges[i].login
      /\ r.attempts = challenges[i].attempts /\ r.consumed = challenges[i].consumed
  BY <1>1 DEF Challenge
<1>3. challenges' = [challenges EXCEPT ![i] = r]
  BY DEF Expire
<1> HIDE DEF r
<1>4. /\ challenges' \in [Id -> Challenge \cup {None}]
      /\ challenges'[i] = r
      /\ \A j \in Id \ {i} : challenges'[j] = challenges[j]
  BY <1>2, <1>3 DEF RowsInv, RowTypes
<1>5. Rows' = Rows
  BY <1>1, <1>2, <1>4, NoRow DEF Rows
<1>6. \A j \in Rows : /\ challenges'[j].kind = challenges[j].kind
                      /\ challenges'[j].login = challenges[j].login
                      /\ challenges'[j].attempts = challenges[j].attempts
                      /\ challenges'[j].consumed = challenges[j].consumed
  BY <1>2, <1>4 DEF Rows
<1>7. OpenHasAttempts' /\ Unconsumed' = Unconsumed
  BY <1>5, <1>6 DEF OpenHasAttempts, RowsInv, Unconsumed
<1>8. \A j \in Rows \ {i} : challenges'[j].expired = challenges[j].expired
  BY <1>4 DEF Rows
<1>9. QED BY <1>4, <1>5, <1>6, <1>7, <1>8 DEF Keeps

(* Locks, when nobody takes one: a step that consumes S keeps Holding if   *)
(* nobody else has locked a row of S.                                      *)
LEMMA HoldSame ==
  ASSUME RowsInv, NEW S, \A q \in Request : S \cap req[q].held = {},
         Rows \subseteq Rows', Unconsumed \ S \subseteq Unconsumed', req' = req
  PROVE  req' \in [Request -> RequestState] /\ Holding'
  BY DEF RowsInv, RowTypes, Holding

(* The same when request p goes on as r, without a lock. *)
LEMMA HoldRelease ==
  ASSUME RowsInv, NEW S, NEW p \in Request,
         \A q \in Request \ {p} : S \cap req[q].held = {},
         Rows \subseteq Rows', Unconsumed \ S \subseteq Unconsumed',
         NEW r \in RequestState, r.held = {}, r.pc # "passkey",
         req' = [req EXCEPT ![p] = r]
  PROVE  req' \in [Request -> RequestState] /\ Holding'
<1>1. req' \in [Request -> RequestState] /\ req'[p] = r
  BY DEF RowsInv, RowTypes
<1>2. \A q \in Request \ {p} : req'[q] = req[q]
  BY DEF RowsInv, RowTypes
<1>3. \A q \in Request : req'[q].held \subseteq Rows'
  BY <1>1, <1>2 DEF RowsInv, Holding
<1>4. \A q \in Request : req'[q].pc = "passkey" =>
         req'[q].challenge \in req'[q].held \cap Unconsumed'
  BY <1>1, <1>2 DEF RowsInv, Holding
<1>5. \A q, t \in Request : q # t => req'[q].held \cap req'[t].held = {}
  BY <1>1, <1>2 DEF RowsInv, Holding
<1>6. QED BY <1>1, <1>3, <1>4, <1>5 DEF Holding

(* A step that inserts no row: it may consume some, and complete a login   *)
(* on one of those.  That login was the only open one.                     *)
LEMMA RowsUpdate ==
  ASSUME RowsInv, NEW S,
         challenges' \in [Id -> Challenge \cup {None}],
         OpenHasAttempts', Rows' = Rows, Keeps(S),
         nextId' \in nextId..(MaxChallenges + 1),
         \/ wins' = wins
         \/ \E i \in Unconsumed \cap S :
               wins' = [wins EXCEPT ![challenges[i].login] = @ + 1],
         req' \in [Request -> RequestState], Holding'
  PROVE  RowsInv'
<1>1. Unconsumed' \subseteq Unconsumed /\ OneOpen'
  BY DEF Keeps, RowsInv, OneOpen
<1>2. Unconsumed \subseteq Rows /\ \A i \in Rows : challenges[i].login \in Id
  BY DEF Unconsumed, Rows, RowsInv, RowTypes, Challenge
<1>3. /\ nextId \in Nat /\ nextId' \in 1..(MaxChallenges + 1) /\ nextId <= nextId'
      /\ Id \subseteq Nat /\ Rows \subseteq Id
  BY MfaAssumption DEF RowsInv, RowTypes, Id, Rows
<1>4. \A i \in Rows' : i < nextId' /\ challenges'[i].login < nextId'
  <2>1. ASSUME NEW i \in Rows PROVE i < nextId' /\ challenges'[i].login < nextId'
    <3>1. i \in Nat /\ challenges[i].login \in Nat
      BY <1>3, <1>2
    <3>2. i < nextId /\ challenges[i].login < nextId
      BY DEF RowsInv, Numbered
    <3>3. challenges'[i].login = challenges[i].login
      BY DEF Keeps
    <3>4. QED BY <1>3, <3>1, <3>2, <3>3
  <2>2. QED BY <2>1
<1>5. \A l \in Id : l >= nextId' => l >= nextId /\ wins[l] = 0
  BY <1>3 DEF RowsInv, Numbered
<1>6. CASE wins' = wins
  <2>1. RowTypes'
    BY <1>3, <1>6 DEF RowsInv, RowTypes
  <2>2. Numbered'
    BY <1>6, <1>4, <1>5 DEF Numbered
  <2>3. Winnable'
    BY <1>1, <1>2, <1>6 DEF RowsInv, Winnable, Keeps
  <2>4. QED BY <1>1, <2>1, <2>2, <2>3 DEF RowsInv
<1>7. ASSUME NEW i \in Unconsumed \cap S,
             wins' = [wins EXCEPT ![challenges[i].login] = @ + 1]
      PROVE  RowsInv'
  <2> DEFINE l == challenges[i].login
  <2>1. l \in Id /\ l < nextId /\ wins[l] = 0 /\ wins \in [Id -> Nat]
    BY <1>2 DEF RowsInv, Numbered, Winnable, RowTypes
  <2>2. wins' = [wins EXCEPT ![l] = 1]
    BY <1>7, <2>1
  <2> HIDE DEF l
  <2>3. /\ wins' \in [Id -> Nat] /\ wins'[l] = 1
        /\ \A m \in Id \ {l} : wins'[m] = wins[m]
    BY <2>1, <2>2
  <2>4. Unconsumed' = {}
    BY <1>7 DEF Keeps, RowsInv, OneOpen
  <2>5. RowTypes'
    BY <1>3, <2>3 DEF RowsInv, RowTypes
  <2>6. Numbered'
    <3>1. \A m \in Id : m >= nextId => m # l
      BY <2>1, MfaAssumption DEF Id, RowsInv, RowTypes
    <3>2. QED BY <1>4, <1>5, <2>3, <3>1 DEF Numbered
  <2>7. Winnable'
    BY <2>3, <2>4 DEF RowsInv, Winnable
  <2>8. QED BY <1>1, <2>5, <2>6, <2>7 DEF RowsInv
<1>8. QED BY <1>6, <1>7

(* A step that inserts a row after it has consumed S; an open row is of a  *)
(* new login or of one that is moved to it.                                *)
LEMMA RowsInsert ==
  ASSUME RowsInv, NEW S \in SUBSET Rows, nextId <= MaxChallenges,
         NEW kind \in LoginKind \cup {"passkey_registration"},
         NEW login \in Id, NEW keys \in SUBSET Key, NEW n \in Nat,
         challenges' = [Consume(challenges, S) EXCEPT
                          ![nextId] = NewChallenge(kind, login, keys, n)],
         kind \in LoginKind => Unconsumed \subseteq S,
         login = nextId \/ \E i \in Unconsumed : login = challenges[i].login,
         nextId' = nextId + 1, wins' = wins,
         req' \in [Request -> RequestState], Holding'
  PROVE  RowsInv'
<1>1. /\ nextId \in Id
      /\ challenges' \in [Id -> Challenge \cup {None}]
      /\ OpenHasAttempts'
      /\ Rows' = Rows \cup {nextId}
      /\ \A i \in Rows : challenges'[i].login = challenges[i].login
      /\ challenges'[nextId].login = login
      /\ Unconsumed' = (Unconsumed \ S) \cup
                         (IF kind \in LoginKind THEN {nextId} ELSE {})
  BY InsertRow
<1>2. nextId \in Nat /\ nextId' \in 1..(MaxChallenges + 1) /\ nextId < nextId'
  BY MfaAssumption DEF RowsInv, RowTypes
<1>3. login <= nextId /\ wins[login] = 0
  <2>1. CASE login = nextId
    BY <1>1, <1>2, <2>1 DEF RowsInv, Numbered
  <2>2. ASSUME NEW i \in Unconsumed, login = challenges[i].login
        PROVE  login <= nextId /\ wins[login] = 0
    <3>1. i \in Rows /\ login \in Nat
      BY MfaAssumption DEF Unconsumed, Id
    <3>2. QED BY <1>2, <2>2, <3>1 DEF RowsInv, Numbered, Winnable
  <2>3. QED BY <2>1, <2>2
<1>4. RowTypes'
  BY <1>1, <1>2 DEF RowsInv, RowTypes
<1>5. Numbered'
  <2>0. Id \subseteq Nat /\ Rows \subseteq Id /\ \A i \in Rows : challenges[i].login \in Nat
    BY MfaAssumption DEF Id, Rows, RowsInv, RowTypes, Challenge
  <2>1. \A i \in Rows : i < nextId' /\ challenges'[i].login < nextId'
    BY <1>1, <1>2, <2>0 DEF RowsInv, Numbered
  <2>2. login < nextId'
    BY <1>2, <1>3, <2>0
  <2>3. \A l \in Id : l >= nextId' => wins'[l] = 0
    BY <1>2, <2>0 DEF RowsInv, Numbered
  <2>4. QED BY <1>1, <1>2, <2>1, <2>2, <2>3 DEF Numbered
<1>6. CASE kind \in LoginKind
  <2>1. Unconsumed' = {nextId}
    BY <1>1, <1>6
  <2>2. OneOpen' /\ Winnable'
    BY <1>1, <1>3, <2>1 DEF OneOpen, Winnable, RowsInv
  <2>3. QED BY <1>1, <1>4, <1>5, <2>2 DEF RowsInv
<1>7. CASE kind \notin LoginKind
  <2>1. Unconsumed' \subseteq Unconsumed /\ Unconsumed \subseteq Rows
    BY <1>1, <1>7 DEF Unconsumed
  <2>2. OneOpen' /\ Winnable'
    BY <1>1, <2>1 DEF OneOpen, Winnable, RowsInv
  <2>3. QED BY <1>1, <1>4, <1>5, <2>2 DEF RowsInv
<1>8. QED BY <1>6, <1>7

-----------------------------------------------------------------------------
(* The steps *)

(* The rows stay; an insert that failed has used up an id. *)
LEMMA RowsKept ==
  ASSUME RowsInv, UNCHANGED <<challenges, wins>>,
         nextId' = nextId \/ (nextId <= MaxChallenges /\ nextId' = nextId + 1)
  PROVE  /\ Rows' = Rows /\ Unconsumed' = Unconsumed
         /\ (req' \in [Request -> RequestState] /\ Holding') => RowsInv'
<1>1. Rows' = Rows /\ Unconsumed' = Unconsumed /\ OpenHasAttempts'
  BY DEF Rows, Unconsumed, RowsInv, OpenHasAttempts
<1>2. /\ Keeps({}) /\ challenges' \in [Id -> Challenge \cup {None}]
      /\ nextId' \in nextId..(MaxChallenges + 1)
  BY <1>1, MfaAssumption DEF Keeps, RowsInv, RowTypes
<1>3. QED BY <1>1, <1>2, RowsUpdate

(* A step of a request that changes no row and leaves it without a lock. *)
LEMMA RequestMoves ==
  ASSUME RowsInv, UNCHANGED <<challenges, wins>>,
         nextId' = nextId \/ (nextId <= MaxChallenges /\ nextId' = nextId + 1),
         NEW p \in Request,
         NEW r \in RequestState, r.held = {}, r.pc # "passkey",
         req' = [req EXCEPT ![p] = r]
  PROVE  RowsInv'
<1>1. Rows \subseteq Rows' /\ Unconsumed \ {} \subseteq Unconsumed'
  BY RowsKept
<1>2. \A q \in Request \ {p} : {} \cap req[q].held = {}
  OBVIOUS
<1>3. req' \in [Request -> RequestState] /\ Holding'
  BY <1>1, <1>2, HoldRelease
<1>4. QED BY <1>3, RowsKept

(* A request that locks the rows S, which nobody else has locked. *)
LEMMA RequestLocks ==
  ASSUME RowsInv, UNCHANGED <<challenges, nextId, wins>>, NEW p \in Request,
         NEW r \in RequestState, r.held \subseteq Unconsumed,
         \A i \in r.held : ~Locked(i),
         r.pc = "passkey" => r.challenge \in r.held,
         req' = [req EXCEPT ![p] = r]
  PROVE  RowsInv'
<1>1. Rows' = Rows /\ Unconsumed' = Unconsumed /\ Unconsumed \subseteq Rows
  BY RowsKept DEF Unconsumed
<1>2. req' \in [Request -> RequestState] /\ req'[p] = r
  BY DEF RowsInv, RowTypes
<1>3. \A q \in Request \ {p} : req'[q] = req[q]
  BY DEF RowsInv, RowTypes
<1>4. \A q \in Request \ {p} : r.held \cap req[q].held = {}
  BY DEF Locked
<1>5. \A q \in Request : req'[q].held \subseteq Rows'
  BY <1>1, <1>2, <1>3 DEF RowsInv, Holding
<1>6. \A q \in Request : req'[q].pc = "passkey" =>
         req'[q].challenge \in req'[q].held \cap Unconsumed'
  BY <1>1, <1>2, <1>3 DEF RowsInv, Holding
<1>7. \A q, t \in Request : q # t => req'[q].held \cap req'[t].held = {}
  BY <1>2, <1>3, <1>4 DEF RowsInv, Holding
<1>8. QED BY <1>2, <1>5, <1>6, <1>7, RowsKept DEF Holding

(* The password stage. *)
LEMMA BeginStep ==
  ASSUME RowsInv, NEW p \in Request, BeginRead(p) \/ BeginConsume(p) \/ BeginInsert(p)
  PROVE  RowsInv'
<1>1. CASE BeginRead(p)
  <2> DEFINE r == [Idle EXCEPT !.pc = "begin",
                     !.kind = IF required /\ totp = None THEN "totp_enrollment"
                                                         ELSE "login"]
  <2>1. r \in RequestState /\ r.held = {} /\ r.pc # "passkey"
    BY DEF Idle, RequestState, Pc
  <2>2. req' = [req EXCEPT ![p] = r] /\ UNCHANGED <<challenges, nextId, wins>>
    BY <1>1 DEF BeginRead, history
  <2> HIDE DEF r
  <2>3. QED BY <2>1, <2>2, RequestMoves
<1>2. CASE BeginConsume(p)
  <2> DEFINE r == [req[p] EXCEPT !.pc = "insert", !.held = Unconsumed]
  <2>1. Unconsumed \subseteq Id /\ req[p] \in RequestState
    BY DEF Unconsumed, Rows, RowsInv, RowTypes
  <2>2. r \in RequestState /\ r.held = Unconsumed /\ r.pc # "passkey"
    BY <2>1 DEF RequestState, Pc
  <2>3. req' = [req EXCEPT ![p] = r] /\ UNCHANGED <<challenges, nextId, wins>>
    BY <1>2 DEF BeginConsume, history, RowsInv, RowTypes
  <2>4. \A i \in Unconsumed : ~Locked(i)
    BY <1>2 DEF BeginConsume
  <2> HIDE DEF r
  <2>5. QED BY <2>2, <2>3, <2>4, RequestLocks
<1>3. CASE BeginInsert(p)
  <2> DEFINE S == req[p].held
  <2>1. req' = [req EXCEPT ![p] = Idle] /\ wins' = wins /\ nextId' = nextId + 1
    BY <1>3 DEF BeginInsert, history
  <2>2. /\ S \in SUBSET Rows /\ \A q \in Request \ {p} : S \cap req[q].held = {}
        /\ req[p].kind \in LoginKind \cup {"passkey_registration"}
    BY DEF RowsInv, RowTypes, Holding, RequestState, LoginKind
  <2>3. nextId \in Id /\ nextId <= MaxChallenges
    BY <1>3, MfaAssumption DEF BeginInsert, RowsInv, RowTypes, Id
  <2>4. CASE Unconsumed \subseteq S
    <3>1. challenges' = [Consume(challenges, S) EXCEPT
                           ![nextId] = NewChallenge(req[p].kind, nextId, {}, 0)]
      BY <1>3, <2>4 DEF BeginInsert
    <3> HIDE DEF S
    <3>2. {} \in SUBSET Key /\ 0 \in Nat
      OBVIOUS
    <3>3. /\ Rows' = Rows \cup {nextId}
          /\ Unconsumed' = (Unconsumed \ S) \cup
                             (IF req[p].kind \in LoginKind THEN {nextId} ELSE {})
      BY <2>2, <2>3, <3>1, <3>2, InsertRow
    <3>4. req' \in [Request -> RequestState] /\ Holding'
      BY <2>1, <2>2, <3>3, HoldRelease, IdleType
    <3>5. QED BY <2>1, <2>2, <2>3, <2>4, <3>1, <3>2, <3>4, RowsInsert
  <2>5. CASE ~(Unconsumed \subseteq S)
    <3>1. challenges' = challenges
      BY <1>3, <2>5 DEF BeginInsert
    <3>2. Idle \in RequestState /\ Idle.held = {} /\ Idle.pc # "passkey"
      BY IdleType
    <3>3. QED BY <2>1, <2>3, <3>1, <3>2, RequestMoves
  <2>6. QED BY <2>4, <2>5
<1>4. QED BY <1>1, <1>2, <1>3

(* An answer that completes a login on row i, under the lock of request p  *)
(* or of nobody.                                                           *)
LEMMA Completes ==
  ASSUME RowsInv, NEW i \in Unconsumed, challenges' = Consume(challenges, {i}),
         Won(i), nextId' = nextId, req' \in [Request -> RequestState], Holding'
  PROVE  RowsInv'
<1>1. {i} \in SUBSET Rows /\ i \in Unconsumed \cap {i}
  BY DEF Unconsumed
<1>2. /\ challenges' \in [Id -> Challenge \cup {None}]
      /\ OpenHasAttempts' /\ Rows' = Rows /\ Keeps({i})
  BY <1>1, ConsumeRows
<1>3. \E j \in Unconsumed \cap {i} :
         wins' = [wins EXCEPT ![challenges[j].login] = @ + 1]
  BY <1>1 DEF Won
<1>4. nextId' \in nextId..(MaxChallenges + 1)
  BY MfaAssumption DEF RowsInv, RowTypes
<1>5. QED BY <1>2, <1>3, <1>4, RowsUpdate

(* A row that is open for a login is unconsumed. *)
LEMMA OpenRow ==
  ASSUME NEW i, NEW kind, Open(i, kind)
  PROVE  i \in Rows /\ i \in Id /\ (kind \in LoginKind => i \in Unconsumed)
  BY DEF Open, Rows, Unconsumed

(* Consuming an unlocked row leaves the locks alone. *)
LEMMA ConsumeUnlocked ==
  ASSUME RowsInv, NEW i \in Rows, ~Locked(i), NEW S \in SUBSET {i}, Keeps(S),
         \/ req' = req
         \/ \E p \in Request : req' = [req EXCEPT ![p] = Idle]
  PROVE  req' \in [Request -> RequestState] /\ Holding'
<1>1. \A q \in Request : S \cap req[q].held = {}
  BY DEF Locked
<1>2. Rows \subseteq Rows' /\ Unconsumed \ S \subseteq Unconsumed'
  BY DEF Keeps
<1>3. CASE req' = req
  BY <1>1, <1>2, <1>3, HoldSame
<1>4. ASSUME NEW p \in Request, req' = [req EXCEPT ![p] = Idle]
      PROVE  req' \in [Request -> RequestState] /\ Holding'
  BY <1>1, <1>2, <1>4, HoldRelease, IdleType
<1>5. QED BY <1>3, <1>4

(* A wrong answer to a row that is not locked. *)
LEMMA WrongStep ==
  ASSUME RowsInv, NEW i \in Id, NEW kind \in LoginKind, OpenForUpdate(i, kind),
         RecordChallengeFailure(i), nextId' = nextId, wins' = wins,
         \/ req' = req
         \/ \E p \in Request : req' = [req EXCEPT ![p] = Idle]
  PROVE  RowsInv'
<1>1. i \in Rows /\ ~Locked(i) /\ ~challenges[i].consumed
  BY DEF OpenForUpdate, Open
<1>2. /\ challenges' \in [Id -> Challenge \cup {None}]
      /\ OpenHasAttempts' /\ Rows' = Rows
  BY <1>1, FailRow
<1>3. PICK S \in SUBSET {i} : Keeps(S)
  BY <1>1, FailRow
<1>4. req' \in [Request -> RequestState] /\ Holding'
  BY <1>1, <1>3, ConsumeUnlocked
<1>5. nextId' \in nextId..(MaxChallenges + 1)
  BY MfaAssumption DEF RowsInv, RowTypes
<1>6. QED BY <1>2, <1>3, <1>4, <1>5, RowsUpdate

(* A right answer to a row that is not locked. *)
LEMMA RightStep ==
  ASSUME RowsInv, NEW i, NEW kind \in LoginKind, OpenForUpdate(i, kind),
         challenges' = Consume(challenges, {i}), Won(i), nextId' = nextId,
         \/ req' = req
         \/ \E p \in Request : req' = [req EXCEPT ![p] = Idle]
  PROVE  RowsInv'
<1>1. i \in Rows /\ ~Locked(i) /\ i \in Unconsumed
  BY OpenRow DEF OpenForUpdate
<1>2. Keeps({i})
  BY <1>1, ConsumeRows
<1>3. req' \in [Request -> RequestState] /\ Holding'
  BY <1>1, <1>2, ConsumeUnlocked
<1>4. QED BY <1>1, <1>3, Completes

(* The second stage. *)
LEMMA AnswerStep ==
  ASSUME RowsInv, NEW p \in Request,
         EnrollCommit(p) \/ RecoveryCommit(p) \/ PasskeyCommit(p)
  PROVE  RowsInv'
<1> DEFINE i == req[p].challenge
<1>0. Idle \in RequestState /\ Idle.held = {} /\ Idle.pc # "passkey"
  BY IdleType
<1>1. req' = [req EXCEPT ![p] = Idle] /\ nextId' = nextId
  BY DEF EnrollCommit, RecoveryCommit, PasskeyCommit
<1>2. CASE UNCHANGED <<challenges, wins>>
  BY <1>0, <1>1, <1>2, RequestMoves
<1>3. CASE EnrollCommit(p)
  <2>1. CASE Open(i, "totp_enrollment")
    <3>1. OpenForUpdate(i, "totp_enrollment") /\ "totp_enrollment" \in LoginKind
      BY <1>3, <2>1 DEF EnrollCommit, OpenForUpdate, LoginKind
    <3>2. challenges' = Consume(challenges, {i}) /\ Won(i)
      BY <1>3, <2>1 DEF EnrollCommit
    <3> HIDE DEF i
    <3>3. QED BY <1>1, <3>1, <3>2, RightStep
  <2>2. CASE ~Open(i, "totp_enrollment")
    BY <1>2, <1>3, <2>2 DEF EnrollCommit
  <2>3. QED BY <2>1, <2>2
<1>4. CASE RecoveryCommit(p)
  <2>1. CASE Open(i, "login")
    <3>1. OpenForUpdate(i, "login") /\ "login" \in LoginKind /\ i \in Id
      BY <1>4, <2>1, OpenRow DEF RecoveryCommit, OpenForUpdate, LoginKind
    <3>2. \/ challenges' = Consume(challenges, {i}) /\ Won(i)
          \/ RecordChallengeFailure(i) /\ wins' = wins
      BY <1>4, <2>1 DEF RecoveryCommit
    <3> HIDE DEF i
    <3>3. CASE challenges' = Consume(challenges, {i}) /\ Won(i)
      BY <1>1, <3>1, <3>3, RightStep
    <3>4. CASE RecordChallengeFailure(i) /\ wins' = wins
      BY <1>1, <3>1, <3>4, WrongStep
    <3>5. QED BY <3>2, <3>3, <3>4
  <2>2. CASE ~Open(i, "login")
    BY <1>2, <1>4, <2>2 DEF RecoveryCommit
  <2>3. QED BY <2>1, <2>2
<1>5. CASE PasskeyCommit(p)
  <2>1. i \in Unconsumed /\ i \in req[p].held /\ {i} \in SUBSET Rows
    BY <1>5 DEF PasskeyCommit, RowsInv, Holding, Unconsumed
  <2>2. challenges' = Consume(challenges, {i}) /\ Won(i)
    BY <1>5 DEF PasskeyCommit
  <2>3. \A q \in Request \ {p} : {i} \cap req[q].held = {}
    BY <2>1 DEF RowsInv, Holding
  <2> HIDE DEF i
  <2>4. Rows' = Rows /\ Keeps({i})
    BY <2>1, <2>2, ConsumeRows
  <2>5. Rows \subseteq Rows' /\ Unconsumed \ {i} \subseteq Unconsumed'
    BY <2>4 DEF Keeps
  <2>6. req' \in [Request -> RequestState] /\ Holding'
    BY <1>0, <1>1, <2>3, <2>5, HoldRelease
  <2>7. QED BY <1>1, <2>1, <2>2, <2>6, Completes
<1>6. QED BY <1>3, <1>4, <1>5

(* The first parts of the answers that take two. *)
LEMMA CheckStep ==
  ASSUME RowsInv, NEW p \in Request, NEW i \in Id,
         \/ EnrollCheck(p, i)
         \/ \E c \in Batch \cup {None} : RecoveryRead(p, i, c)
         \/ \E k \in Key : PasskeyCheck(p, i, k)
  PROVE  RowsInv'
<1>1. UNCHANGED <<challenges, nextId, wins>>
  BY DEF EnrollCheck, RecoveryRead, PasskeyCheck, history
<1>2. CASE EnrollCheck(p, i)
  <2> DEFINE r == [Idle EXCEPT !.pc = "enroll", !.challenge = i]
  <2>1. r \in RequestState /\ r.held = {} /\ r.pc # "passkey"
    BY DEF Idle, RequestState, Pc
  <2>2. req' = [req EXCEPT ![p] = r]
    BY <1>2 DEF EnrollCheck
  <2> HIDE DEF r
  <2>3. QED BY <1>1, <2>1, <2>2, RequestMoves
<1>3. ASSUME NEW c \in Batch \cup {None}, RecoveryRead(p, i, c) PROVE RowsInv'
  <2> DEFINE r == [Idle EXCEPT !.pc = "match", !.challenge = i, !.code = c]
  <2>1. r \in RequestState /\ r.held = {} /\ r.pc # "passkey"
    BY DEF Idle, RequestState, Pc
  <2>2. req' = [req EXCEPT ![p] = r]
    BY <1>3 DEF RecoveryRead
  <2> HIDE DEF r
  <2>3. QED BY <1>1, <2>1, <2>2, RequestMoves
<1>4. ASSUME NEW k \in Key, PasskeyCheck(p, i, k) PROVE RowsInv'
  <2> DEFINE r == [Idle EXCEPT !.pc = "passkey", !.challenge = i, !.held = {i}]
  <2>1. r \in RequestState /\ r.held = {i} /\ r.challenge = i
    BY DEF Idle, RequestState, Pc
  <2>2. req' = [req EXCEPT ![p] = r]
    BY <1>4 DEF PasskeyCheck
  <2>3. i \in Unconsumed /\ ~Locked(i)
    BY <1>4, OpenRow DEF PasskeyCheck, OpenForUpdate, LoginKind
  <2> HIDE DEF r
  <2>4. QED BY <1>1, <2>1, <2>2, <2>3, RequestLocks
<1>5. QED BY <1>2, <1>3, <1>4

(* The sensitive requests insert registration rows only. *)
LEMMA SensitiveRows ==
  ASSUME RowsInv, NEW p \in Request, SensitiveStep(p)
  PROVE  RowsInv'
<1>0. Idle \in RequestState /\ Idle.held = {} /\ Idle.pc # "passkey"
  BY IdleType
<1>1. ASSUME NEW s \in Step, NEW pc \in {"regen", "register", "revoke", "idle"},
             Reauthenticate(p, s, pc)
      PROVE  RowsInv'
  <2> DEFINE r == [Idle EXCEPT !.pc = pc]
  <2>1. r \in RequestState /\ r.held = {} /\ r.pc # "passkey"
    BY DEF Idle, RequestState, Pc
  <2>2. req' = [req EXCEPT ![p] = r] /\ UNCHANGED <<challenges, nextId, wins>>
    BY <1>1 DEF Reauthenticate
  <2> HIDE DEF r
  <2>3. QED BY <2>1, <2>2, RequestMoves
<1>2. CASE RegenerateSnapshot(p)
  <2> DEFINE b == {x \in Batch : codes[x] # "none"}
             r == [req[p] EXCEPT !.pc = "replace", !.seen = b]
  <2>1. req[p] \in RequestState /\ b \in SUBSET Batch
    BY DEF RowsInv, RowTypes
  <2>2. req' = [req EXCEPT ![p] = r] /\ UNCHANGED <<challenges, nextId, wins>>
    BY <1>2 DEF RegenerateSnapshot, history, RowsInv, RowTypes
  <2>3. r \in RequestState /\ r.held = req[p].held /\ r.pc = "replace"
    BY <2>1 DEF RequestState, Pc
  <2> HIDE DEF r, b
  <2>4. Rows' = Rows /\ Unconsumed' = Unconsumed
    BY <2>2, RowsKept
  <2>5. /\ req' \in [Request -> RequestState] /\ req'[p] = r
        /\ \A q \in Request \ {p} : req'[q] = req[q]
    BY <2>2, <2>3 DEF RowsInv, RowTypes
  <2>6. Holding'
    <3>1. \A q \in Request : req'[q].held = req[q].held
      BY <2>3, <2>5
    <3>2. \A q \in Request : req'[q].pc = "passkey" => q # p
      BY <2>3, <2>5
    <3>3. QED BY <2>4, <2>5, <3>1, <3>2 DEF RowsInv, Holding
  <2>7. QED BY <2>2, <2>5, <2>6, RowsKept
<1>3. CASE RegenerateCommit(p)
  <2>1. req' = [req EXCEPT ![p] = Idle] /\ UNCHANGED <<challenges, nextId, wins>>
    BY <1>3 DEF RegenerateCommit, history
  <2>2. QED BY <1>0, <2>1, RequestMoves
<1>4. CASE RegisterStart(p)
  <2>1. Consume(challenges, {}) = challenges
    BY DEF Consume, RowsInv, RowTypes
  <2>2. /\ req' = [req EXCEPT ![p] = Idle] /\ wins' = wins
        /\ nextId' = nextId + 1 /\ nextId <= MaxChallenges
        /\ challenges' = [Consume(challenges, {}) EXCEPT
             ![nextId] = NewChallenge("passkey_registration", nextId, {}, 0)]
    BY <1>4, <2>1 DEF RegisterStart, history
  <2>3. nextId \in Id /\ "passkey_registration" \notin LoginKind
    BY <2>2, MfaAssumption DEF RowsInv, RowTypes, Id, LoginKind
  <2>4. {} \in SUBSET Rows /\ {} \in SUBSET Key /\ 0 \in Nat
    OBVIOUS
  <2> DEFINE kind == "passkey_registration"
  <2>5. kind \in LoginKind \cup {"passkey_registration"}
    OBVIOUS
  <2>6. challenges' = [Consume(challenges, {}) EXCEPT
             ![nextId] = NewChallenge(kind, nextId, {}, 0)]
    BY <2>2
  <2>7. /\ Rows' = Rows \cup {nextId}
        /\ Unconsumed' = (Unconsumed \ {}) \cup
                           (IF kind \in LoginKind THEN {nextId} ELSE {})
    BY <2>2, <2>3, <2>4, <2>5, <2>6, InsertRow
  <2>8. \A q \in Request \ {p} : {} \cap req[q].held = {}
    OBVIOUS
  <2>9. Rows \subseteq Rows' /\ Unconsumed \ {} \subseteq Unconsumed'
    BY <2>7
  <2>10. req' \in [Request -> RequestState] /\ Holding'
    BY <1>0, <2>2, <2>8, <2>9, HoldRelease
  <2>11. QED BY <2>2, <2>3, <2>4, <2>5, <2>6, <2>10, RowsInsert
<1>5. ASSUME NEW k \in Key, RevokePasskey(p, k) PROVE RowsInv'
  <2>1. req' = [req EXCEPT ![p] = Idle] /\ UNCHANGED <<challenges, nextId, wins>>
    BY <1>5 DEF RevokePasskey, history
  <2>2. QED BY <1>0, <2>1, RequestMoves
<1>6. QED BY <1>1, <1>2, <1>3, <1>4, <1>5 DEF SensitiveStep

(* Answers in one transaction, the ceremony that replaces a login row, the *)
(* end of a registration, and the clock.                                   *)
LEMMA ChallengeRows ==
  ASSUME RowsInv, SettingsOK, NEW i \in Id, ChallengeStep(i)
  PROVE  RowsInv'
<1>1. CASE WrongAnswer(i)
  <2>1. RecordChallengeFailure(i) /\ nextId' = nextId /\ wins' = wins /\ req' = req
    BY <1>1 DEF WrongAnswer, history
  <2>2. PICK kind \in LoginKind : OpenForUpdate(i, kind)
    BY <1>1 DEF WrongAnswer
  <2>3. QED BY <2>1, <2>2, WrongStep
<1>2. CASE PasskeyStart(i)
  <2> DEFINE login == challenges[i].login
             n == challenges[i].failures
             kind == "passkey_authentication"
  <2>1. /\ challenges' = [Consume(challenges, {i}) EXCEPT
             ![nextId] = NewChallenge(kind, login, passkeys, n)]
        /\ nextId <= MaxChallenges /\ nextId' = nextId + 1 /\ req' = req /\ wins' = wins
    BY <1>2 DEF PasskeyStart, history
  <2>2. i \in Unconsumed /\ ~Locked(i)
    BY <1>2, OpenRow DEF PasskeyStart, OpenForUpdate, LoginKind
  <2>3. {i} \in SUBSET Rows /\ challenges[i] \in Challenge
    BY <2>2 DEF Unconsumed, Rows, RowsInv, RowTypes
  <2>4. login \in Id /\ n \in Nat /\ passkeys \in SUBSET Key
    BY <2>3 DEF Challenge, SettingsOK
  <2>5. kind \in LoginKind \cup {"passkey_registration"} /\ Unconsumed \subseteq {i}
    BY <2>2 DEF LoginKind, RowsInv, OneOpen
  <2>6. \E j \in Unconsumed : login = challenges[j].login
    BY <2>2
  <2> HIDE DEF login, n, kind
  <2>7. /\ Rows' = Rows \cup {nextId}
        /\ Unconsumed' = (Unconsumed \ {i}) \cup
                           (IF kind \in LoginKind THEN {nextId} ELSE {})
    BY <2>1, <2>3, <2>4, <2>5, InsertRow
  <2>8. \A q \in Request : {i} \cap req[q].held = {}
    BY <2>2 DEF Locked
  <2>9. Rows \subseteq Rows' /\ Unconsumed \ {i} \subseteq Unconsumed'
    BY <2>7
  <2>10. req' \in [Request -> RequestState] /\ Holding'
    BY <2>1, <2>8, <2>9, HoldSame
  <2>11. QED BY <2>1, <2>3, <2>4, <2>5, <2>6, <2>10, RowsInsert
<1>3. CASE Expire(i)
  <2>1. /\ challenges' \in [Id -> Challenge \cup {None}]
        /\ OpenHasAttempts' /\ Rows' = Rows /\ Keeps({})
    BY <1>3, ExpireRow
  <2>2. nextId' \in nextId..(MaxChallenges + 1) /\ wins' = wins /\ req' = req
    BY <1>3, MfaAssumption DEF Expire, history, RowsInv, RowTypes
  <2>3. Rows \subseteq Rows' /\ Unconsumed \ {} \subseteq Unconsumed'
    BY <2>1 DEF Keeps
  <2>4. \A q \in Request : {} \cap req[q].held = {}
    OBVIOUS
  <2>5. req' \in [Request -> RequestState] /\ Holding'
    BY <2>2, <2>3, <2>4, HoldSame
  <2>6. QED BY <2>1, <2>2, <2>5, RowsUpdate
<1>4. ASSUME NEW s \in Step, VerifyTotpLogin(i, s) PROVE RowsInv'
  <2>1. /\ OpenForUpdate(i, "login") /\ "login" \in LoginKind
        /\ challenges' = Consume(challenges, {i}) /\ Won(i)
        /\ nextId' = nextId /\ req' = req
    BY <1>4 DEF VerifyTotpLogin, LoginKind
  <2>2. QED BY <2>1, RightStep
<1>5. ASSUME NEW k \in Key, RegisterFinish(i, k) PROVE RowsInv'
  <2>1. /\ challenges' = Consume(challenges, {i})
        /\ nextId' = nextId /\ req' = req /\ wins' = wins
    BY <1>5 DEF RegisterFinish, history
  <2>2. i \in Rows /\ ~Locked(i) /\ {i} \in SUBSET Rows
    BY <1>5 DEF RegisterFinish, OpenForUpdate, Open
  <2>3. /\ challenges' \in [Id -> Challenge \cup {None}]
        /\ OpenHasAttempts' /\ Rows' = Rows /\ Keeps({i})
    BY <2>1, <2>2, ConsumeRows
  <2>4. req' \in [Request -> RequestState] /\ Holding'
    BY <2>1, <2>2, <2>3, ConsumeUnlocked
  <2>5. nextId' \in nextId..(MaxChallenges + 1)
    BY <2>1, MfaAssumption DEF RowsInv, RowTypes
  <2>6. QED BY <2>1, <2>3, <2>4, <2>5, RowsUpdate
<1>6. QED BY <1>1, <1>2, <1>3, <1>4, <1>5 DEF ChallengeStep

(* The challenge rows under any step. *)
LEMMA RowsStep ==
  ASSUME RowsInv, SettingsOK, Next
  PROVE  RowsInv'
<1>1. ASSUME NEW p \in Request, LoginStep(p) PROVE RowsInv'
  BY <1>1, BeginStep, CheckStep, AnswerStep DEF LoginStep
<1>2. ASSUME NEW p \in Request, SensitiveStep(p) PROVE RowsInv'
  BY <1>2, SensitiveRows
<1>3. ASSUME NEW i \in Id, ChallengeStep(i) PROVE RowsInv'
  BY <1>3, ChallengeRows
<1>4. CASE ChangeRole \/ Tick
  <2>1. UNCHANGED <<challenges, nextId, wins, req>>
    BY <1>4 DEF ChangeRole, Tick, history
  <2>2. Rows' = Rows /\ Unconsumed' = Unconsumed
    BY <2>1, RowsKept
  <2>3. req' \in [Request -> RequestState] /\ Holding'
    BY <2>1, <2>2 DEF RowsInv, RowTypes, Holding
  <2>4. QED BY <2>1, <2>3, RowsKept
<1>5. QED BY <1>1, <1>2, <1>3, <1>4 DEF Next

-----------------------------------------------------------------------------
(* A step of somebody else leaves the invariant alone. *)
LEMMA Stuttering == ASSUME IInv, UNCHANGED vars PROVE IInv'
<1>1. UNCHANGED <<required, totp, counter, codes, nextBatch, passkeys, challenges,
                  nextId, now, req, wins, spent, reauths, logins>>
  BY DEF vars, settings, history
<1>2. SettingsOK' /\ StepsOnce' /\ CodesOnce'
  BY <1>1 DEF IInv, SettingsOK, StepsOnce, CodesOnce
<1>3. RowsInv'
  <2>1. Rows' = Rows /\ Unconsumed' = Unconsumed
    BY <1>1 DEF Rows, Unconsumed
  <2>2. RowTypes' /\ OpenHasAttempts' /\ Numbered' /\ OneOpen' /\ Winnable' /\ Holding'
    BY <1>1, <2>1 DEF IInv, RowsInv, RowTypes, OpenHasAttempts, Numbered, OneOpen,
                      Winnable, Holding
  <2>3. QED BY <2>2 DEF RowsInv
<1>4. QED BY <1>2, <1>3 DEF IInv

(* The inductive invariant, in every reachable state. *)
LEMMA Inductive == Spec => []IInv
<1>1. ASSUME IInv, [Next]_vars PROVE IInv'
  <2>1. CASE Next
    <3>1. RowTypes
      BY <1>1 DEF IInv, RowsInv
    <3>2. QED BY <1>1, <2>1, <3>1, SettingsStep, StepsStep, CodesStep, RowsStep DEF IInv
  <2>2. QED BY <1>1, <2>1, Stuttering
<1>2. QED BY <1>1, InitIInv, PTL DEF Spec

(* Every variable keeps its type, whatever transactions interleave. *)
THEOREM MfaTypeCorrect == Spec => []TypeOK
<1>1. IInv => TypeOK
  BY DEF IInv, SettingsOK, StepsOnce, CodesOnce, RowsInv, RowTypes, TypeOK
<1>2. QED BY <1>1, Inductive, PTL

(* One password check yields at most one completed login, whatever factors *)
(* are tried at once on its challenge and on the ceremony that replaces it *)
(* (services/mfa.rs, verify_* and finish_passkey_authentication).          *)
THEOREM PasswordOpensOneLogin == Spec => []OneLoginPerPassword
<1>1. IInv => OneLoginPerPassword
  BY DEF IInv, RowsInv, Winnable, OneLoginPerPassword
<1>2. QED BY <1>1, Inductive, PTL

(* A recovery code opens at most one login, though it is matched against   *)
(* rows read before the transaction (verify_recovery_login).               *)
THEOREM RecoveryCodeOpensOne == Spec => []RecoveryCodeOnce
<1>1. IInv => RecoveryCodeOnce
  BY DEF IInv, CodesOnce, RecoveryCodeOnce
<1>2. QED BY <1>1, Inductive, PTL

(* A TOTP step confirms at most one sensitive request                      *)
(* (consume_reauth_totp_counter).                                          *)
THEOREM StepConfirmsOne == Spec => []ReauthOnce
<1>1. IInv => ReauthOnce
  BY DEF IInv, StepsOnce, ReauthOnce
<1>2. QED BY <1>1, Inductive, PTL

(* At most one login challenge of an account is unconsumed (begin_login    *)
(* and the unique index).                                                  *)
THEOREM SingleOpenChallenge == Spec => []OneOpenChallenge
<1>1. ASSUME IInv PROVE OneOpenChallenge
  <2>1. OneOpen
    BY <1>1 DEF IInv, RowsInv
  <2>2. CASE Unconsumed = {}
    BY <2>2, FS_EmptySet DEF OneOpenChallenge
  <2>3. ASSUME NEW i \in Unconsumed PROVE OneOpenChallenge
    <3>1. Unconsumed = {i}
      BY <2>1 DEF OneOpen
    <3>2. QED BY <3>1, FS_Singleton DEF OneOpenChallenge
  <2>4. QED BY <2>2, <2>3
<1>2. QED BY <1>1, Inductive, PTL

(* An open row has attempts left, even if wrong answers arrive together    *)
(* (record_challenge_failure).                                             *)
THEOREM AttemptsBounded == Spec => []OpenHasAttempts
<1>1. IInv => OpenHasAttempts
  BY DEF IInv, RowsInv
<1>2. QED BY <1>1, Inductive, PTL

-----------------------------------------------------------------------------
(* The refinement: what the rows say of each password check *)

(* The password checks that have a row, and those that can be answered. *)
Known == {l \in Id : RowsOf(l) # {}}
Live == {l \in Id : \E i \in RowsOf(l) : Answerable(i)}

AllTickets == [l \in Id |-> Ticket(l)]

(* A ticket in terms of these two sets, before a step and after it. *)
LEMMA TicketOf ==
  ASSUME NEW l \in Id
  PROVE  /\ Ticket(l) = IF wins[l] > 0 THEN "won" ELSE IF l \in Live THEN "open"
                        ELSE IF l \in Known THEN "closed" ELSE "none"
         /\ Ticket(l)' = IF wins'[l] > 0 THEN "won" ELSE IF l \in Live' THEN "open"
                         ELSE IF l \in Known' THEN "closed" ELSE "none"
  BY DEF Ticket, Live, Known

(* At most one password check can be answered; it has not been won. *)
LEMMA LiveLogins ==
  ASSUME RowsInv
  PROVE  /\ Live \subseteq Known
         /\ \A l \in Live : wins[l] = 0
         /\ \A i \in Unconsumed : /\ i \in Rows /\ challenges[i].login \in Id
                                  /\ Live = IF Answerable(i) THEN {challenges[i].login}
                                                             ELSE {}
         /\ Unconsumed = {} => Live = {}
<1>1. Live \subseteq Known
  BY DEF Live, Known
<1>2. \A l \in Live : \E i \in Unconsumed : Answerable(i) /\ challenges[i].login = l
  BY DEF Live, RowsOf, Answerable
<1>3. \A l \in Live : wins[l] = 0
  BY <1>2 DEF RowsInv, Winnable
<1>4. ASSUME NEW i \in Unconsumed
      PROVE  /\ i \in Rows /\ challenges[i].login \in Id
             /\ Live = IF Answerable(i) THEN {challenges[i].login} ELSE {}
  <2>1. i \in Rows /\ challenges[i].login \in Id /\ challenges[i].kind \in LoginKind
    BY DEF Unconsumed, Rows, RowsInv, RowTypes, Challenge
  <2>2. \A j \in Unconsumed : j = i
    BY DEF RowsInv, OneOpen
  <2>3. Answerable(i) => challenges[i].login \in Live
    BY <2>1 DEF Live, RowsOf
  <2>4. QED BY <1>2, <2>1, <2>2, <2>3
<1>5. QED BY <1>1, <1>2, <1>3, <1>4

(* Rows of password checks that keep their kind and login; a row that is   *)
(* inserted may be of a check that has one.                                *)
LEMMA KnownKept ==
  ASSUME RowsInv, Rows' = Rows,
         \A i \in Rows : /\ challenges'[i].login = challenges[i].login
                         /\ challenges'[i].kind = challenges[i].kind
  PROVE  Known' = Known
<1>1. ASSUME NEW l \in Id PROVE RowsOf(l)' = RowsOf(l)
  BY DEF RowsOf
<1>2. QED BY <1>1 DEF Known

(* A step of the rows that no ticket sees. *)
LEMMA StepStutters ==
  ASSUME wins' = wins, Live' = Live, Known' = Known
  PROVE  AllTickets' = AllTickets
  BY TicketOf DEF AllTickets

(* A password check l opens its ticket and closes the one that was open. *)
LEMMA StepBegins ==
  ASSUME RowsInv, NEW l \in Id, l \notin Known, wins[l] = 0,
         wins' = wins, Live' = {l}, Known' = Known \cup {l}
  PROVE  Tickets!Begin(l)
<1>1. Ticket(l) = "none" /\ Ticket(l)' = "open"
  BY LiveLogins, TicketOf DEF RowsInv, RowTypes
<1>2. ASSUME NEW m \in Id, m # l
      PROVE  Ticket(m)' = IF Ticket(m) = "open" THEN "closed" ELSE Ticket(m)
  BY <1>2, LiveLogins, TicketOf
<1>3. QED BY <1>1, <1>2 DEF Tickets!Begin, Tickets!Opened

(* The login l is completed. *)
LEMMA StepCompletes ==
  ASSUME RowsInv, NEW l \in Id, Live = {l}, wins' = [wins EXCEPT ![l] = @ + 1],
         Live' = {}, Known' = Known
  PROVE  Tickets!Complete(l)
<1>1. wins[l] = 0 /\ wins'[l] > 0 /\ \A m \in Id \ {l} : wins'[m] = wins[m]
  BY LiveLogins DEF RowsInv, RowTypes
<1>2. Ticket(l) = "open" /\ Ticket(l)' = "won"
  BY <1>1, TicketOf
<1>3. ASSUME NEW m \in Id, m # l PROVE Ticket(m)' = Ticket(m)
  BY <1>1, <1>3, TicketOf
<1>4. QED BY <1>2, <1>3 DEF Tickets!Complete, Tickets!Opened

(* The login l can no longer be completed. *)
LEMMA StepCloses ==
  ASSUME RowsInv, NEW l \in Id, Live = {l}, wins' = wins, Live' = {}, Known' = Known
  PROVE  Tickets!Close(l)
<1>1. Ticket(l) = "open" /\ Ticket(l)' = "closed"
  BY LiveLogins, TicketOf
<1>2. ASSUME NEW m \in Id, m # l PROVE Ticket(m)' = Ticket(m)
  BY <1>2, TicketOf
<1>3. QED BY <1>1, <1>2 DEF Tickets!Close, Tickets!Opened

-----------------------------------------------------------------------------
(* The refinement: the steps *)

(* What a step of the rows is to the tickets. *)
TicketStep == Tickets!TicketNext \/ AllTickets' = AllTickets

(* A step that changes no row, and lets go of no passkey ceremony. *)
LEMMA RequestStutters ==
  ASSUME RowsInv, UNCHANGED <<challenges, wins>>,
         \A i \in Unconsumed : challenges[i].expired =>
            ((\E p \in Request : req'[p].pc = "passkey" /\ req'[p].challenge = i)
             <=> (\E p \in Request : req[p].pc = "passkey" /\ req[p].challenge = i))
  PROVE  TicketStep
<1>1. Rows' = Rows /\ Unconsumed' = Unconsumed
  BY DEF Rows, Unconsumed
<1>2. \A i \in Rows : Answerable(i)' <=> Answerable(i)
  BY <1>1 DEF Answerable
<1>3. \A l \in Id : RowsOf(l)' = RowsOf(l) /\ RowsOf(l) \subseteq Rows
  BY <1>1 DEF RowsOf
<1>4. Known' = Known /\ Live' = Live
  BY <1>2, <1>3 DEF Known, Live
<1>5. QED BY <1>4, StepStutters DEF TicketStep

(* The same when request p goes on as r, and neither is a ceremony. *)
LEMMA MovesStutter ==
  ASSUME RowsInv, UNCHANGED <<challenges, wins>>, NEW p \in Request,
         req[p].pc # "passkey", NEW r, r.pc # "passkey",
         req' = [req EXCEPT ![p] = r]
  PROVE  TicketStep
<1>1. /\ \A q \in Request \ {p} : req'[q] = req[q]
      /\ req'[p] = r
  BY DEF RowsInv, RowTypes
<1>2. QED BY <1>1, RequestStutters

(* An answer that completes a login on row i. *)
LEMMA CompleteTicket ==
  ASSUME RowsInv, NEW i \in Unconsumed, Answerable(i),
         challenges' = Consume(challenges, {i}), Won(i)
  PROVE  TicketStep
<1> DEFINE l == challenges[i].login
<1>1. l \in Id /\ Live = {l} /\ {i} \in SUBSET Rows
  BY LiveLogins
<1>2. Rows' = Rows /\ Keeps({i})
  BY <1>1, ConsumeRows
<1>3. Known' = Known
  BY <1>2, KnownKept DEF Keeps
<1>4. Unconsumed' = {}
  BY <1>2 DEF Keeps, RowsInv, OneOpen
<1>5. Live' = {}
  BY <1>4 DEF Live, Answerable
<1>6. wins' = [wins EXCEPT ![l] = @ + 1]
  BY DEF Won
<1> HIDE DEF l
<1>7. Tickets!Complete(l)
  BY <1>1, <1>3, <1>5, <1>6, StepCompletes
<1>8. QED BY <1>1, <1>7 DEF TicketStep, Tickets!TicketNext

(* A row can be answered as long as it is open. *)
LEMMA OpenAnswerable ==
  ASSUME NEW i, NEW kind \in LoginKind, Open(i, kind)
  PROVE  i \in Unconsumed /\ i \in Rows /\ ~challenges[i].expired /\ Answerable(i)
  BY OpenRow DEF Answerable, Open

(* A wrong answer closes the ticket or leaves it. *)
LEMMA WrongTicket ==
  ASSUME RowsInv, NEW i, NEW kind \in LoginKind, Open(i, kind),
         RecordChallengeFailure(i), wins' = wins
  PROVE  TicketStep
<1>1. i \in Unconsumed /\ i \in Rows /\ ~challenges[i].expired /\ Answerable(i)
  BY OpenAnswerable
<1>2. PICK l \in Id : /\ challenges[i].login = l
                      /\ Live = {l} /\ ~challenges[i].consumed
  BY <1>1, LiveLogins DEF Unconsumed
<1>3. Rows' = Rows /\ ~challenges'[i].expired
  BY <1>1, <1>2, FailRow
<1>4. PICK S \in SUBSET {i} : Keeps(S)
  BY <1>1, <1>2, FailRow
<1>5. Known' = Known /\ challenges'[i].login = l /\ challenges'[i].kind \in LoginKind
  BY <1>1, <1>2, <1>3, <1>4, KnownKept DEF Keeps, Unconsumed
<1>6. Unconsumed = {i}
  BY <1>1 DEF RowsInv, OneOpen
<1>7. CASE S = {}
  <2>1. Unconsumed' = {i}
    BY <1>4, <1>6, <1>7 DEF Keeps
  <2>2. Answerable(i)' /\ \A j : Answerable(j)' => j = i
    BY <1>3, <2>1 DEF Answerable
  <2>3. i \in RowsOf(l)' /\ \A m \in Id : i \in RowsOf(m)' => m = l
    BY <1>1, <1>3, <1>5 DEF RowsOf
  <2>4. Live' = {l}
    BY <1>2, <2>2, <2>3 DEF Live
  <2>5. QED BY <1>2, <1>5, <2>4, StepStutters DEF TicketStep
<1>8. CASE S = {i}
  <2>1. Unconsumed' = {}
    BY <1>4, <1>6, <1>8 DEF Keeps
  <2>2. Live' = {}
    BY <2>1 DEF Live, Answerable
  <2>3. QED BY <1>2, <1>5, <2>2, StepCloses DEF TicketStep, Tickets!TicketNext
<1>9. QED BY <1>7, <1>8

(* A row of a login is inserted in place of the open one: of a new login,  *)
(* or of the one whose ticket is open.                                     *)
LEMMA InsertTicket ==
  ASSUME RowsInv, NEW S \in SUBSET Rows, nextId <= MaxChallenges,
         NEW kind \in LoginKind, NEW login \in Id, NEW keys \in SUBSET Key, NEW n \in Nat,
         challenges' = [Consume(challenges, S) EXCEPT
                          ![nextId] = NewChallenge(kind, login, keys, n)],
         Unconsumed \subseteq S, wins' = wins,
         login = nextId \/ Live = {login}
  PROVE  TicketStep
<1>1. /\ nextId \in Id
      /\ Rows' = Rows \cup {nextId}
      /\ \A i \in Rows : /\ challenges'[i].login = challenges[i].login
                         /\ challenges'[i].kind = challenges[i].kind
      /\ challenges'[nextId].login = login
      /\ challenges'[nextId].kind = kind
      /\ ~challenges'[nextId].expired
      /\ Unconsumed' = (Unconsumed \ S) \cup (IF kind \in LoginKind THEN {nextId} ELSE {})
  <2>1. kind \in LoginKind \cup {"passkey_registration"}
    OBVIOUS
  <2>2. QED BY <2>1, InsertRow
<1>0. PICK x \in Id : x = nextId
  BY <1>1
<1>2. Unconsumed' = {x} /\ x \in RowsOf(login)'
  BY <1>0, <1>1 DEF RowsOf
<1>3. Answerable(x)' /\ \A j : Answerable(j)' => j = x
  BY <1>0, <1>1, <1>2 DEF Answerable
<1>4. \A m \in Id : x \in RowsOf(m)' => m = login
  BY <1>0, <1>1 DEF RowsOf
<1>5. Live' = {login}
  BY <1>2, <1>3, <1>4 DEF Live
<1>6. x \notin Rows /\ \A i \in Rows : challenges[i].login # x
  BY <1>0, MfaAssumption DEF RowsInv, Numbered, RowTypes, Rows, Id, Challenge
<1>7. \A m \in Id \ {login} : RowsOf(m)' = RowsOf(m)
  BY <1>0, <1>1, <1>6 DEF RowsOf
<1>8. Known' = Known \cup {login}
  BY <1>2, <1>7 DEF Known
<1>9. CASE login = x
  <2>1. login \notin Known
    BY <1>6, <1>9 DEF Known, RowsOf
  <2>2. wins[login] = 0
    BY <1>0, <1>1, <1>9, MfaAssumption DEF RowsInv, Numbered, RowTypes, Id
  <2>3. QED BY <1>5, <1>8, <2>1, <2>2, StepBegins DEF TicketStep, Tickets!TicketNext
<1>10. CASE Live = {login}
  <2>1. login \in Known
    BY <1>10, LiveLogins
  <2>2. QED BY <1>5, <1>8, <1>10, <2>1, StepStutters DEF TicketStep
<1>11. QED BY <1>0, <1>9, <1>10

(* A step on a row that is of no login. *)
LEMMA OtherRow ==
  ASSUME RowsInv, NEW i \in Id, Rows' = Rows \cup {i}, i \in Rows => i \notin Unconsumed,
         \A j \in Rows : /\ challenges'[j].login = challenges[j].login
                         /\ challenges'[j].kind = challenges[j].kind,
         \A j \in Rows \ {i} : challenges'[j].expired = challenges[j].expired,
         challenges'[i].kind \notin LoginKind,
         Unconsumed' = Unconsumed, wins' = wins,
         \A q \in Request : req[q].pc = "passkey" \/ req'[q].pc = "passkey" =>
                               req'[q] = req[q]
  PROVE  TicketStep
<1>1. \A l \in Id : RowsOf(l)' = RowsOf(l)
  BY DEF RowsOf
<1>2. Known' = Known
  BY <1>1 DEF Known
<1>3. \A j \in Unconsumed : j \in Rows \ {i}
  BY DEF Unconsumed
<1>4. \A j \in Id : Answerable(j)' <=> Answerable(j)
  BY <1>3 DEF Answerable
<1>5. Live' = Live
  BY <1>1, <1>4 DEF Live, RowsOf, Rows
<1>6. QED BY <1>2, <1>5, StepStutters DEF TicketStep

(* The password stage. *)
LEMMA BeginTicket ==
  ASSUME RowsInv, NEW p \in Request, BeginRead(p) \/ BeginConsume(p) \/ BeginInsert(p)
  PROVE  TicketStep
<1>0. Idle.pc # "passkey" /\ req \in [Request -> RequestState]
  BY IdleType DEF RowsInv, RowTypes
<1>1. CASE BeginRead(p)
  <2> DEFINE r == [Idle EXCEPT !.pc = "begin",
                     !.kind = IF required /\ totp = None THEN "totp_enrollment"
                                                         ELSE "login"]
  <2>1. r.pc # "passkey"
    BY DEF Idle
  <2>2. /\ req' = [req EXCEPT ![p] = r] /\ UNCHANGED <<challenges, wins>>
        /\ req[p].pc # "passkey"
    BY <1>1 DEF BeginRead, history
  <2> HIDE DEF r
  <2>3. QED BY <2>1, <2>2, MovesStutter
<1>2. CASE BeginConsume(p)
  <2> DEFINE r == [req[p] EXCEPT !.pc = "insert", !.held = Unconsumed]
  <2>1. r.pc # "passkey"
    BY <1>0 DEF RequestState
  <2>2. /\ req' = [req EXCEPT ![p] = r] /\ UNCHANGED <<challenges, wins>>
        /\ req[p].pc # "passkey"
    BY <1>0, <1>2 DEF BeginConsume, history
  <2> HIDE DEF r
  <2>3. QED BY <2>1, <2>2, MovesStutter
<1>3. CASE BeginInsert(p)
  <2> DEFINE S == req[p].held
  <2>1. /\ req' = [req EXCEPT ![p] = Idle] /\ wins' = wins /\ nextId <= MaxChallenges
        /\ req[p].pc # "passkey"
    BY <1>3 DEF BeginInsert, history
  <2>2. S \in SUBSET Rows /\ req[p].kind \in LoginKind
    BY DEF RowsInv, RowTypes, Holding, RequestState, LoginKind
  <2>3. nextId \in Id /\ {} \in SUBSET Key /\ 0 \in Nat
    BY <2>1, MfaAssumption DEF RowsInv, RowTypes, Id
  <2>4. CASE Unconsumed \subseteq S
    <3>1. challenges' = [Consume(challenges, S) EXCEPT
                           ![nextId] = NewChallenge(req[p].kind, nextId, {}, 0)]
      BY <1>3, <2>4 DEF BeginInsert
    <3> HIDE DEF S
    <3>2. QED BY <2>1, <2>2, <2>3, <2>4, <3>1, InsertTicket
  <2>5. CASE ~(Unconsumed \subseteq S)
    <3>1. challenges' = challenges
      BY <1>3, <2>5 DEF BeginInsert
    <3>2. QED BY <1>0, <2>1, <3>1, MovesStutter
  <2>6. QED BY <2>4, <2>5
<1>4. QED BY <1>1, <1>2, <1>3

(* The first parts of the answers that take two. *)
LEMMA CheckTicket ==
  ASSUME RowsInv, NEW p \in Request, NEW i \in Id,
         \/ EnrollCheck(p, i)
         \/ \E c \in Batch \cup {None} : RecoveryRead(p, i, c)
         \/ \E k \in Key : PasskeyCheck(p, i, k)
  PROVE  TicketStep
<1>1. UNCHANGED <<challenges, wins>> /\ req[p].pc = "idle"
  BY DEF EnrollCheck, RecoveryRead, PasskeyCheck, history
<1>2. CASE EnrollCheck(p, i)
  <2> DEFINE r == [Idle EXCEPT !.pc = "enroll", !.challenge = i]
  <2>1. r.pc # "passkey" /\ req' = [req EXCEPT ![p] = r]
    BY <1>2 DEF Idle, EnrollCheck
  <2> HIDE DEF r
  <2>2. QED BY <1>1, <2>1, MovesStutter
<1>3. ASSUME NEW c \in Batch \cup {None}, RecoveryRead(p, i, c) PROVE TicketStep
  <2> DEFINE r == [Idle EXCEPT !.pc = "match", !.challenge = i, !.code = c]
  <2>1. r.pc # "passkey" /\ req' = [req EXCEPT ![p] = r]
    BY <1>3 DEF Idle, RecoveryRead
  <2> HIDE DEF r
  <2>2. QED BY <1>1, <2>1, MovesStutter
<1>4. ASSUME NEW k \in Key, PasskeyCheck(p, i, k) PROVE TicketStep
  <2> DEFINE r == [Idle EXCEPT !.pc = "passkey", !.challenge = i, !.held = {i}]
  <2>1. r.pc = "passkey" /\ r.challenge = i /\ req' = [req EXCEPT ![p] = r]
    BY <1>4 DEF Idle, PasskeyCheck
  <2>2. ~challenges[i].expired
    BY <1>4 DEF PasskeyCheck, OpenForUpdate, Open
  <2> HIDE DEF r
  <2>3. req'[p] = r /\ \A q \in Request \ {p} : req'[q] = req[q]
    BY <2>1 DEF RowsInv, RowTypes
  <2>4. QED BY <1>1, <2>1, <2>2, <2>3, RequestStutters
<1>5. QED BY <1>2, <1>3, <1>4

(* The second parts. *)
LEMMA AnswerTicket ==
  ASSUME RowsInv, NEW p \in Request,
         EnrollCommit(p) \/ RecoveryCommit(p) \/ PasskeyCommit(p)
  PROVE  TicketStep
<1> DEFINE i == req[p].challenge
<1>0. Idle.pc # "passkey"
  BY IdleType
<1>1. req' = [req EXCEPT ![p] = Idle]
  BY DEF EnrollCommit, RecoveryCommit, PasskeyCommit
<1>2. CASE EnrollCommit(p)
  <2>1. CASE Open(i, "totp_enrollment")
    <3>1. /\ challenges' = Consume(challenges, {i}) /\ Won(i)
          /\ "totp_enrollment" \in LoginKind
      BY <1>2, <2>1 DEF EnrollCommit, LoginKind
    <3> HIDE DEF i
    <3>2. QED BY <2>1, <3>1, OpenAnswerable, CompleteTicket
  <2>2. CASE ~Open(i, "totp_enrollment")
    <3>1. UNCHANGED <<challenges, wins>> /\ req[p].pc # "passkey"
      BY <1>2, <2>2 DEF EnrollCommit
    <3>2. QED BY <1>0, <1>1, <3>1, MovesStutter
  <2>3. QED BY <2>1, <2>2
<1>3. CASE RecoveryCommit(p)
  <2>1. CASE Open(i, "login")
    <3>1. /\ \/ challenges' = Consume(challenges, {i}) /\ Won(i)
             \/ RecordChallengeFailure(i) /\ wins' = wins
          /\ "login" \in LoginKind
      BY <1>3, <2>1 DEF RecoveryCommit, LoginKind
    <3> HIDE DEF i
    <3>2. QED BY <2>1, <3>1, OpenAnswerable, CompleteTicket, WrongTicket
  <2>2. CASE ~Open(i, "login")
    <3>1. UNCHANGED <<challenges, wins>> /\ req[p].pc # "passkey"
      BY <1>3, <2>2 DEF RecoveryCommit
    <3>2. QED BY <1>0, <1>1, <3>1, MovesStutter
  <2>3. QED BY <2>1, <2>2
<1>4. CASE PasskeyCommit(p)
  <2>1. i \in Unconsumed /\ Answerable(i)
    BY <1>4 DEF PasskeyCommit, RowsInv, Holding, Answerable
  <2>2. challenges' = Consume(challenges, {i}) /\ Won(i)
    BY <1>4 DEF PasskeyCommit
  <2> HIDE DEF i
  <2>3. QED BY <2>1, <2>2, CompleteTicket
<1>5. QED BY <1>2, <1>3, <1>4

(* The sensitive requests open and close no ticket. *)
LEMMA SensitiveTicket ==
  ASSUME RowsInv, NEW p \in Request, SensitiveStep(p)
  PROVE  TicketStep
<1>0. Idle.pc # "passkey" /\ req \in [Request -> RequestState]
  BY IdleType DEF RowsInv, RowTypes
<1>1. ASSUME NEW s \in Step, NEW pc \in {"regen", "register", "revoke", "idle"},
             Reauthenticate(p, s, pc)
      PROVE  TicketStep
  <2> DEFINE r == [Idle EXCEPT !.pc = pc]
  <2>1. r.pc # "passkey"
    BY DEF Idle
  <2>2. /\ req' = [req EXCEPT ![p] = r] /\ UNCHANGED <<challenges, wins>>
        /\ req[p].pc # "passkey"
    BY <1>1 DEF Reauthenticate
  <2> HIDE DEF r
  <2>3. QED BY <2>1, <2>2, MovesStutter
<1>2. CASE RegenerateSnapshot(p)
  <2> DEFINE r == [req[p] EXCEPT !.pc = "replace", !.seen = {b \in Batch : codes[b] # "none"}]
  <2>1. r.pc # "passkey"
    BY <1>0 DEF RequestState
  <2>2. /\ req' = [req EXCEPT ![p] = r] /\ UNCHANGED <<challenges, wins>>
        /\ req[p].pc # "passkey"
    BY <1>0, <1>2 DEF RegenerateSnapshot, history
  <2> HIDE DEF r
  <2>3. QED BY <2>1, <2>2, MovesStutter
<1>3. CASE RegenerateCommit(p) \/ \E k \in Key : RevokePasskey(p, k)
  <2>1. /\ req' = [req EXCEPT ![p] = Idle] /\ UNCHANGED <<challenges, wins>>
        /\ req[p].pc # "passkey"
    BY <1>3 DEF RegenerateCommit, RevokePasskey, history
  <2>2. QED BY <1>0, <2>1, MovesStutter
<1>4. CASE RegisterStart(p)
  <2> DEFINE kind == "passkey_registration"
  <2>1. Consume(challenges, {}) = challenges
    BY DEF Consume, RowsInv, RowTypes
  <2>2. /\ req' = [req EXCEPT ![p] = Idle] /\ wins' = wins /\ nextId <= MaxChallenges
        /\ challenges' = [Consume(challenges, {}) EXCEPT
             ![nextId] = NewChallenge(kind, nextId, {}, 0)]
        /\ req[p].pc # "passkey"
    BY <1>4, <2>1 DEF RegisterStart, history
  <2>3. /\ nextId \in Id /\ kind \notin LoginKind
        /\ kind \in LoginKind \cup {"passkey_registration"}
        /\ {} \in SUBSET Rows /\ {} \in SUBSET Key /\ 0 \in Nat
    BY <2>2, MfaAssumption DEF RowsInv, RowTypes, Id, LoginKind
  <2>4. nextId \notin Rows
    BY <2>3, MfaAssumption DEF RowsInv, RowTypes, Numbered, Id
  <2>5. /\ Rows' = Rows \cup {nextId}
        /\ \A i \in Rows : /\ challenges'[i].login = challenges[i].login
                           /\ challenges'[i].kind = challenges[i].kind
                           /\ challenges'[i].expired = challenges[i].expired
        /\ challenges'[nextId].kind = kind
        /\ Unconsumed' = (Unconsumed \ {}) \cup
                           (IF kind \in LoginKind THEN {nextId} ELSE {})
    BY <2>2, <2>3, InsertRow
  <2>6. \A q \in Request : req[q].pc = "passkey" \/ req'[q].pc = "passkey" =>
                              req'[q] = req[q]
    BY <1>0, <2>2
  <2>7. Unconsumed' = Unconsumed
    BY <2>3, <2>5
  <2> HIDE DEF kind
  <2>8. QED BY <2>2, <2>3, <2>4, <2>5, <2>6, <2>7, OtherRow
<1>5. QED BY <1>1, <1>2, <1>3, <1>4 DEF SensitiveStep

(* A row runs out: its ticket is closed unless a ceremony has it. *)
LEMMA ExpireTicket ==
  ASSUME RowsInv, NEW i \in Id, Expire(i)
  PROVE  TicketStep
<1>1. /\ i \in Rows /\ ~challenges[i].consumed /\ ~challenges[i].expired
      /\ req' = req /\ wins' = wins
  BY DEF Expire, history
<1>2. /\ Rows' = Rows /\ Keeps({})
      /\ \A j \in Rows \ {i} : challenges'[j].expired = challenges[j].expired
  BY ExpireRow
<1>3. /\ Unconsumed' = Unconsumed
      /\ \A j \in Rows : /\ challenges'[j].login = challenges[j].login
                         /\ challenges'[j].kind = challenges[j].kind
  BY <1>2 DEF Keeps
<1>4. CASE challenges[i].kind \notin LoginKind
  <2>1. i \notin Unconsumed /\ Rows' = Rows \cup {i}
    BY <1>1, <1>2, <1>4 DEF Unconsumed
  <2>2. QED BY <1>1, <1>2, <1>3, <1>4, <2>1, OtherRow
<1>5. CASE challenges[i].kind \in LoginKind
  <2>1. i \in Unconsumed /\ Answerable(i)
    BY <1>1, <1>5 DEF Unconsumed, Answerable
  <2>2. PICK l \in Id : challenges[i].login = l /\ Live = {l}
    BY <2>1, LiveLogins
  <2>3. Unconsumed' = {i} /\ Known' = Known
    BY <1>2, <1>3, <2>1, KnownKept DEF RowsInv, OneOpen
  <2>4. \A j : Answerable(j)' => j = i
    BY <2>3 DEF Answerable
  <2>5. i \in RowsOf(l)' /\ \A m \in Id : i \in RowsOf(m)' => m = l
    BY <1>1, <1>2, <1>3, <1>5, <2>2 DEF RowsOf
  <2>6. CASE Answerable(i)'
    <3>1. Live' = {l}
      BY <2>2, <2>4, <2>5, <2>6 DEF Live
    <3>2. QED BY <1>1, <2>2, <2>3, <3>1, StepStutters DEF TicketStep
  <2>7. CASE ~Answerable(i)'
    <3>1. Live' = {}
      BY <2>4, <2>7 DEF Live
    <3>2. QED BY <1>1, <2>2, <2>3, <3>1, StepCloses DEF TicketStep, Tickets!TicketNext
  <2>8. QED BY <2>6, <2>7
<1>6. QED BY <1>4, <1>5

(* Answers in one transaction, the ceremony that replaces a login row, the *)
(* end of a registration, and the clock.                                   *)
LEMMA ChallengeTicket ==
  ASSUME RowsInv, SettingsOK, NEW i \in Id, ChallengeStep(i)
  PROVE  TicketStep
<1>1. CASE WrongAnswer(i)
  <2>1. RecordChallengeFailure(i) /\ wins' = wins
    BY <1>1 DEF WrongAnswer, history
  <2>2. PICK kind \in LoginKind : Open(i, kind)
    BY <1>1 DEF WrongAnswer, OpenForUpdate
  <2>3. QED BY <2>1, <2>2, WrongTicket
<1>2. CASE PasskeyStart(i)
  <2> DEFINE login == challenges[i].login
             n == challenges[i].failures
             kind == "passkey_authentication"
  <2>1. /\ challenges' = [Consume(challenges, {i}) EXCEPT
             ![nextId] = NewChallenge(kind, login, passkeys, n)]
        /\ nextId <= MaxChallenges /\ wins' = wins
    BY <1>2 DEF PasskeyStart, history
  <2>2. i \in Unconsumed /\ i \in Rows /\ Answerable(i)
    BY <1>2, OpenAnswerable DEF PasskeyStart, OpenForUpdate, LoginKind
  <2>3. login \in Id /\ n \in Nat /\ passkeys \in SUBSET Key /\ Live = {login}
    BY <2>2, LiveLogins DEF Challenge, SettingsOK, Rows, RowsInv, RowTypes
  <2>4. kind \in LoginKind /\ Unconsumed \subseteq {i} /\ {i} \in SUBSET Rows
    BY <2>2 DEF LoginKind, RowsInv, OneOpen
  <2> HIDE DEF login, n, kind
  <2>5. QED BY <2>1, <2>3, <2>4, InsertTicket
<1>3. CASE Expire(i)
  BY <1>3, ExpireTicket
<1>4. ASSUME NEW s \in Step, VerifyTotpLogin(i, s) PROVE TicketStep
  <2>1. /\ Open(i, "login") /\ "login" \in LoginKind
        /\ challenges' = Consume(challenges, {i}) /\ Won(i)
    BY <1>4 DEF VerifyTotpLogin, OpenForUpdate, LoginKind
  <2>2. QED BY <2>1, OpenAnswerable, CompleteTicket
<1>5. ASSUME NEW k \in Key, RegisterFinish(i, k) PROVE TicketStep
  <2>1. challenges' = Consume(challenges, {i}) /\ req' = req /\ wins' = wins
    BY <1>5 DEF RegisterFinish, history
  <2>2. /\ i \in Rows /\ {i} \in SUBSET Rows /\ i \notin Unconsumed
        /\ challenges[i].kind \notin LoginKind
    BY <1>5 DEF RegisterFinish, OpenForUpdate, Open, Unconsumed, LoginKind
  <2>3. /\ Rows' = Rows /\ Keeps({i})
        /\ \A j \in Rows : challenges'[j].expired = challenges[j].expired
    BY <2>1, <2>2, ConsumeRows
  <2>4. /\ Unconsumed' = Unconsumed /\ Rows' = Rows \cup {i}
        /\ \A j \in Rows : /\ challenges'[j].login = challenges[j].login
                           /\ challenges'[j].kind = challenges[j].kind
    BY <2>2, <2>3 DEF Keeps
  <2>5. QED BY <2>1, <2>2, <2>3, <2>4, OtherRow
<1>6. QED BY <1>1, <1>2, <1>3, <1>4, <1>5 DEF ChallengeStep

(* Every step is a step of the tickets or none. *)
LEMMA TicketsStep ==
  ASSUME IInv, [Next]_vars
  PROVE  TicketStep
<1>0. RowsInv /\ SettingsOK
  BY DEF IInv
<1>1. ASSUME NEW p \in Request, LoginStep(p) PROVE TicketStep
  BY <1>0, <1>1, BeginTicket, CheckTicket, AnswerTicket DEF LoginStep
<1>2. ASSUME NEW p \in Request, SensitiveStep(p) PROVE TicketStep
  BY <1>0, <1>2, SensitiveTicket
<1>3. ASSUME NEW i \in Id, ChallengeStep(i) PROVE TicketStep
  BY <1>0, <1>3, ChallengeTicket
<1>4. CASE ChangeRole \/ Tick \/ UNCHANGED vars
  <2>1. UNCHANGED <<challenges, wins, req>>
    BY <1>4 DEF ChangeRole, Tick, vars, history
  <2>2. QED BY <1>0, <2>1, RequestStutters
<1>5. QED BY <1>1, <1>2, <1>3, <1>4 DEF Next

(* The second factor implements LoginTickets: whatever factors, ceremonies *)
(* and logins overlap, a login is completed only while its ticket is open, *)
(* and one that has been closed never is (services/mfa.rs).                *)
THEOREM SecondFactorImplementsTickets == Spec => ImplementsTickets
<1>1. Init => Tickets!TicketInit
  <2>1. ASSUME Init, NEW l \in Id PROVE Ticket(l) = "none"
    <3>1. wins[l] = 0 /\ RowsOf(l) = {}
      BY <2>1 DEF Init, RowsOf, Rows
    <3>2. QED BY <3>1 DEF Ticket
  <2>2. QED BY <2>1 DEF Tickets!TicketInit
<1>2. ASSUME IInv, [Next]_vars
      PROVE  [Tickets!TicketNext]_([l \in Id |-> Ticket(l)])
  BY <1>2, TicketsStep DEF TicketStep, AllTickets
<1>3. QED BY <1>1, <1>2, Inductive, PTL DEF Spec, ImplementsTickets, Tickets!TicketSpec

=============================================================================
