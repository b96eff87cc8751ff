--------------------------- MODULE LoginThrottle ---------------------------
(***************************************************************************)
(* The failure counters in front of the password check: three buckets per  *)
(* login, for the account, the source address and the pair                 *)
(* (services/auth.rs, login, record_failed_login, create_login_session;    *)
(* table auth_login_attempts).                                             *)
(*                                                                         *)
(* A login reads the locks, verifies the password for a while, and only    *)
(* then counts a failure or clears the counters; other logins of the same  *)
(* buckets run in between.  Time is kept as ages: how long ago the window  *)
(* of a bucket started, how long its lock still lasts.  The three reads of *)
(* locked_until are one step: no two buckets are related.  now() is the    *)
(* start of a transaction; the one of a failure is short, and taken as an  *)
(* instant.                                                                *)
(***************************************************************************)
EXTENDS Naturals, FiniteSets

CONSTANTS
    Account,        \* account names
    Address,        \* source addresses
    Request,        \* logins in flight
    None,           \* no row
    MaxFailures,    \* LOGIN_MAX_FAILURES and LOGIN_ACCOUNT_IP_MAX_FAILURES
    MaxAddressFailures, \* LOGIN_IP_MAX_FAILURES
    Window,         \* LOGIN_FAILURE_WINDOW_SECS
    Lockout,        \* LOGIN_LOCKOUT_SECS
    Retention       \* the 30 days after which prune drops a row

(* positive_i32 and positive_i64 in config.rs. *)
ASSUME ThrottleAssumption ==
    /\ MaxFailures \in Nat \ {0}
    /\ MaxAddressFailures \in Nat \ {0}
    /\ Window \in Nat \ {0}
    /\ Lockout \in Nat \ {0}
    /\ Retention \in Nat \ {0}

ASSUME NoneAssumption == None \notin Account \cup Address

(* A server has finitely many logins in flight. *)
ASSUME RequestAssumption == IsFiniteSet(Request)

VARIABLES
    buckets,    \* auth_login_attempts: key -> row, or None
    req         \* the logins

vars == <<buckets, req>>

(* The hashes of LoginThrottleKeys: the one without address is the         *)
(* account's, the one without account the address's.                       *)
Key == ((Account \cup {None}) \X (Address \cup {None})) \ {<<None, None>>}

Keys(r) == {<<r.account, None>>, <<None, r.address>>, <<r.account, r.address>>}

(* age: since window_started_at, at most Window; lock: until locked_until; *)
(* rest: since updated_at, no longer than is told apart.                   *)
Longest == IF Lockout >= Retention THEN Lockout ELSE Retention

Bucket == [failure_count : Nat \ {0}, age : 0..Window, lock : 0..Lockout,
           rest : 0..Longest]

ASSUME NoBucket == None \notin Bucket

NoRequest == [pc |-> "idle", account |-> None, address |-> None]

RequestState == [pc : {"idle", "verify", "accepted"}, account : Account \cup {None},
                 address : Address \cup {None}]

TypeOK ==
    /\ buckets \in [Key -> Bucket \cup {None}]
    /\ req \in [Request -> RequestState]

Init ==
    /\ buckets = [k \in Key |-> None]
    /\ req = [p \in Request |-> NoRequest]

-----------------------------------------------------------------------------
Locked(k) == buckets[k] # None /\ buckets[k].lock > 0

Limit(k) == IF k[1] = None THEN MaxAddressFailures ELSE MaxFailures

(* Mutant: the first failure is inserted with a count of zero. *)
CountedFromZero(k) ==
    LET b == buckets[k]
        count == IF b = None THEN 0 ELSE b.failure_count + 1
    IN  [failure_count |-> count, age |-> IF b = None THEN 0 ELSE b.age,
         lock |-> IF count >= Limit(k) THEN Lockout ELSE 0, rest |-> 0]

(* Mutant: the lock is set by the failure that reaches the limit, and      *)
(* forgotten by the next one.                                              *)
CountedLocksOnce(k) ==
    LET b == buckets[k]
        count == IF b = None \/ b.age >= Window THEN 1 ELSE b.failure_count + 1
    IN  [failure_count |-> count,
         age |-> IF b = None \/ b.age >= Window THEN 0 ELSE b.age,
         lock |-> IF count = Limit(k) THEN Lockout ELSE 0, rest |-> 0]

(* record_login_failure: the row is inserted without a lock, or counts on, *)
(* or starts a new window; whatever lock it had is overwritten.            *)
Counted(k) ==
    LET b == buckets[k]
        count == IF b = None \/ b.age >= Window THEN 1 ELSE b.failure_count + 1
    IN  [failure_count |-> count,
         age |-> IF b = None \/ b.age >= Window THEN 0 ELSE b.age,
         lock |-> IF b # None /\ count >= Limit(k) THEN Lockout ELSE 0,
         rest |-> 0]

(* Mutant: the answer is 429, the password is verified all the same. *)
CheckIgnored(p, a, x) ==
    /\ req[p].pc = "idle"
    /\ req' = [req EXCEPT ![p] = [pc |-> "verify", account |-> a, address |-> x]]
    /\ UNCHANGED buckets

(* login: a locked bucket refuses before the password is looked at. *)
Check(p, a, x) ==
    LET r == [pc |-> "verify", account |-> a, address |-> x] IN
    /\ req[p].pc = "idle"
    /\ \A k \in Keys(r) : ~Locked(k)
    /\ req' = [req EXCEPT ![p] = r]
    /\ UNCHANGED buckets

(* record_failed_login: one transaction counts in all three buckets. *)
Fail(p) ==
    /\ req[p].pc = "verify"
    /\ buckets' = [k \in Key |-> IF k \in Keys(req[p]) THEN Counted(k) ELSE buckets[k]]
    /\ req' = [req EXCEPT ![p] = NoRequest]

(* The password is right: on to the second factor or to the session. *)
Accept(p) ==
    /\ req[p].pc = "verify"
    /\ req' = [req EXCEPT ![p].pc = "accepted"]
    /\ UNCHANGED buckets

(* Mutant: the counters of the address are cleared too. *)
SucceedClearsAll(p) ==
    /\ req[p].pc = "accepted"
    /\ buckets' = [k \in Key |-> IF k \in Keys(req[p]) THEN None ELSE buckets[k]]
    /\ req' = [req EXCEPT ![p] = NoRequest]

(* prune: rows untouched for 30 days go, locked or not. *)
Stale == {k \in Key : buckets[k] # None /\ buckets[k].rest >= Retention}

(* create_login_session: prune, and clear_login_failures of the account    *)
(* and the pair.                                                           *)
Succeed(p) ==
    /\ req[p].pc = "accepted"
    /\ buckets' = [k \in Key |->
              IF k \in Stale \cup (Keys(req[p]) \ {<<None, req[p].address>>})
              THEN None ELSE buckets[k]]
    /\ req' = [req EXCEPT ![p] = NoRequest]

(* The second factor is never given, or the server fails. *)
Abandon(p) ==
    /\ req[p].pc # "idle"
    /\ req' = [req EXCEPT ![p] = NoRequest]
    /\ UNCHANGED buckets

(* Mutant: any locked_until counts, whether it is past or not. *)
TickKeepsLock ==
    /\ buckets' = [k \in Key |->
         IF buckets[k] = None THEN None
         ELSE [buckets[k] EXCEPT !.age = IF @ < Window THEN @ + 1 ELSE @,
                                 !.rest = IF @ < Longest THEN @ + 1 ELSE @]]
    /\ UNCHANGED req

(* now() advances in what window_started_at, locked_until and updated_at   *)
(* are compared with.                                                      *)
Tick ==
    /\ buckets' = [k \in Key |->
         IF buckets[k] = None THEN None
         ELSE [buckets[k] EXCEPT !.age = IF @ < Window THEN @ + 1 ELSE @,
                                 !.lock = IF @ > 0 THEN @ - 1 ELSE @,
                                 !.rest = IF @ < Longest THEN @ + 1 ELSE @]]
    /\ UNCHANGED req

Answer(p) == Fail(p) \/ Accept(p)

Next ==
    \/ \E p \in Request :
          \/ \E a \in Account, x \in Address : Check(p, a, x)
          \/ Answer(p) \/ Succeed(p) \/ Abandon(p)
    \/ Tick

Spec == Init /\ [][Next]_vars

(* Time passes, and a password check comes to an end (Argon2 is bounded). *)
FairSpec == Spec /\ WF_vars(Tick) /\ \A p \in Request : WF_vars(Answer(p))

-----------------------------------------------------------------------------
(* Properties *)

(* The limit has been reached within the window. *)
Full(k) ==
    /\ buckets[k] # None
    /\ buckets[k].failure_count >= Limit(k)
    /\ buckets[k].age < Window

(* The first failure of a window is an INSERT, which sets no lock: a limit *)
(* of one works as a limit of two.                                         *)
LockingCount(k) == IF Limit(k) > 1 THEN Limit(k) ELSE 2

(* The locks that can begin one after the other in a window: one when a    *)
(* lock is as long as the window, as it is by default.                     *)
LocksInWindow == (Window + Lockout - 1) \div Lockout

(* docs/architecture.md:39: in one window of a bucket no more passwords    *)
(* are tried than its limit and, for every lock that fits into the window, *)
(* the logins that were already past the lock check: whatever the          *)
(* interleaving of checks, failures and successes.                         *)
GuessesBounded ==
    \A k \in Key : buckets[k] # None =>
        buckets[k].failure_count < LockingCount(k) + Cardinality(Request) * LocksInWindow

(* What the bound rests on: a bucket that has reached its limit within its *)
(* window is locked until Lockout after the last failure that was counted, *)
(* in flight when the lock began or not; but for a first failure.          *)
FullIsLocked ==
    \A k \in Key : Full(k) /\ buckets[k].failure_count > 1 =>
        Locked(k) \/ buckets[k].rest >= Lockout

(* docs/architecture.md:39: a successful login does not reset the counter  *)
(* of its source address; only the end of the window does, or 30 days      *)
(* without a failure.                                                      *)
AddressKeepsCount ==
    [][\A x \in Address : LET k == <<None, x>> IN
         buckets[k] # None /\ buckets[k].age < Window /\ buckets[k].rest < Retention =>
             /\ buckets'[k] # None
             /\ buckets'[k].failure_count >= buckets[k].failure_count]_vars

(* A locked bucket is open again some time, whoever goes on trying: tries  *)
(* that are refused do not prolong the lock.                               *)
LockEnds == \A k \in Key : Locked(k) ~> ~Locked(k)

(* docs/architecture.md:39: a locked source address stays locked for the   *)
(* lockout time; read as: a lock ends by the passing of time only.         *)
LockLasts ==
    [][\A x \in Address : LET k == <<None, x>> IN
         Locked(k) /\ buckets[k].lock > 1 => Locked(k)']_vars

(* docs/architecture.md:39: after the configured number of failures the    *)
(* bucket is locked, for Lockout after the last of them and for every      *)
(* limit config.rs accepts.  It does not hold of a limit of one.           *)
LimitLocks ==
    \A k \in Key : Full(k) => Locked(k) \/ buckets[k].rest >= Lockout

=============================================================================
