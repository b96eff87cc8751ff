------------------------ MODULE LoginThrottleProofs ------------------------
(***************************************************************************)
(* The throttle bounds the guesses: for any accounts, addresses, limits,   *)
(* window and lockout, and any number of logins in flight.                 *)
(*                                                                         *)
(* The bound is not inductive as it stands.  Count the locks that began    *)
(* one after the other in the window of a bucket whose count has reached   *)
(* the limit: m of them take m times Lockout of the window's age and of    *)
(* the lock that is left (Bursts), and as long as the last one lasts, the  *)
(* failures counted and those that may still come from logins past the     *)
(* lock check are bounded together.                                        *)
(***************************************************************************)
EXTENDS LoginThrottle, FiniteSetTheorems, TLAPS

(* A login that is under way has an account and an address. *)
Named ==
    \A p \in Request : req[p].pc # "idle" =>
        req[p].account \in Account /\ req[p].address \in Address

(* The logins past the lock check that may still count in bucket k. *)
Verifying(k) == {p \in Request : req[p].pc = "verify" /\ k \in Keys(req[p])}

(* m locks began one after the other in the window of bucket k. *)
Bursts(k, m) ==
    /\ (m - 1) * Lockout < Window
    /\ buckets[k].failure_count < LockingCount(k) + Cardinality(Request) * m
    /\ buckets[k].age < Window =>
         /\ m * Lockout <= buckets[k].age + buckets[k].lock
         /\ Locked(k) => buckets[k].failure_count + Cardinality(Verifying(k))
                            < LockingCount(k) + Cardinality(Request) * m

BurstsCounted ==
    \A k \in Key : buckets[k] # None /\ buckets[k].failure_count >= LockingCount(k) =>
        \E m \in Nat \ {0} : Bursts(k, m)

(* A lock and the time since the failure that set it make up Lockout. *)
RestLocks ==
    \A k \in Key : buckets[k] # None /\ buckets[k].failure_count >= LockingCount(k) =>
        buckets[k].lock + buckets[k].rest >= Lockout

IInv == TypeOK /\ Named /\ BurstsCounted /\ RestLocks

-----------------------------------------------------------------------------
(* The operators *)

(* The count that locks is two or more. *)
LEMMA LockingCountNat == \A k : LockingCount(k) \in Nat /\ LockingCount(k) >= 2
  BY ThrottleAssumption DEF LockingCount, Limit

(* The logins in flight, and those that verify, are finitely many. *)
LEMMA VerifyingFinite ==
  /\ Cardinality(Request) \in Nat
  /\ \A k : /\ IsFiniteSet(Verifying(k))
            /\ Cardinality(Verifying(k)) \in Nat
            /\ Cardinality(Verifying(k)) <= Cardinality(Request)
<1>1. Cardinality(Request) \in Nat
  BY RequestAssumption, FS_CardinalityType
<1>2. ASSUME NEW k
      PROVE  /\ IsFiniteSet(Verifying(k))
             /\ Cardinality(Verifying(k)) \in Nat
             /\ Cardinality(Verifying(k)) <= Cardinality(Request)
  <2>1. Verifying(k) \subseteq Request
    BY DEF Verifying
  <2>2. QED BY <2>1, RequestAssumption, FS_Subset, FS_CardinalityType
<1>3. QED BY <1>1, <1>2

(* As many locks as begin in a window are at most LocksInWindow. *)
LEMMA LocksFit ==
  /\ LocksInWindow \in Nat
  /\ \A m \in Nat \ {0} : (m - 1) * Lockout < Window => m <= LocksInWindow
<1> DEFINE W == Window + Lockout - 1
<1>1. W \in Nat /\ Lockout \in Nat /\ Lockout > 0 /\ Window \in Nat
  BY ThrottleAssumption
<1>2. LocksInWindow = W \div Lockout
  BY DEF LocksInWindow
<1>3. \A v, l \in Nat : l > 0 => /\ v \div l \in Nat
                                /\ v < l * ((v \div l) + 1)
  OBVIOUS
<1>4. LocksInWindow \in Nat /\ W < Lockout * (LocksInWindow + 1)
  BY <1>1, <1>2, <1>3
<1>5. ASSUME NEW m \in Nat \ {0}, (m - 1) * Lockout < Window, ~(m <= LocksInWindow)
      PROVE  FALSE
  <2>1. PICK d \in Nat : m - 1 = LocksInWindow + d
    <3>1. m - 1 - LocksInWindow \in Nat
      BY <1>4, <1>5
    <3>2. QED BY <1>4, <3>1
  <2>2. (m - 1) * Lockout = Lockout * LocksInWindow + d * Lockout
    BY <1>1, <1>4, <2>1
  <2>3. d * Lockout \in Nat
    BY <1>1, <2>1
  <2>4. Lockout * (LocksInWindow + 1) = Lockout * LocksInWindow + Lockout
    BY <1>1, <1>4
  <2>5. Lockout * LocksInWindow \in Nat
    BY <1>1, <1>4
  <2>6. QED BY <1>1, <1>4, <1>5, <2>2, <2>3, <2>4, <2>5
<1>6. QED BY <1>4, <1>5

(* One more lock, one more time the logins in flight. *)
LEMMA OneMore ==
  ASSUME NEW c \in Nat, NEW m \in Nat
  PROVE  c * m \in Nat /\ c * (m + 1) = c * m + c
OBVIOUS

(* record_login_failure: the row that is written. *)
LEMMA CountedRow ==
  ASSUME TypeOK, NEW k \in Key
  PROVE  /\ Counted(k) \in Bucket
         /\ buckets[k] = None \/ buckets[k].age >= Window =>
              Counted(k).failure_count = 1
         /\ buckets[k] # None /\ buckets[k].age < Window =>
              /\ Counted(k).failure_count = buckets[k].failure_count + 1
              /\ Counted(k).age = buckets[k].age
              /\ Counted(k).failure_count >= Limit(k) =>
                   Counted(k).lock = Lockout /\ Counted(k).rest = 0
<1>1. buckets[k] = None \/ buckets[k] \in Bucket
  BY DEF TypeOK
<1>2. Limit(k) \in Nat /\ 0 \in 0..Longest
  BY ThrottleAssumption DEF Limit, Longest
<1>3. CASE buckets[k] = None
  BY <1>2, <1>3, ThrottleAssumption DEF Counted, Bucket
<1>4. CASE buckets[k] \in Bucket /\ buckets[k] # None
  <2> DEFINE b == buckets[k]
  <2>1. b.failure_count \in Nat \ {0} /\ b.age \in 0..Window
    BY <1>4 DEF Bucket
  <2>2. CASE b.age >= Window
    BY <1>2, <1>4, <2>1, <2>2, ThrottleAssumption DEF Counted, Bucket
  <2>3. CASE ~(b.age >= Window)
    BY <1>2, <1>4, <2>1, <2>3, ThrottleAssumption DEF Counted, Bucket
  <2>4. QED BY <2>2, <2>3
<1>5. QED BY <1>1, <1>3, <1>4

-----------------------------------------------------------------------------
(* The steps *)

(* The program starts without buckets and without logins. *)
LEMMA InitIInv == Init => IInv
<1> SUFFICES ASSUME Init PROVE IInv
  OBVIOUS
<1>1. NoRequest \in RequestState /\ NoRequest.pc = "idle"
  BY DEF NoRequest, RequestState
<1>2. TypeOK /\ Named
  BY <1>1 DEF Init, TypeOK, Named
<1>3. BurstsCounted /\ RestLocks
  BY DEF Init, BurstsCounted, RestLocks
<1>4. QED BY <1>2, <1>3 DEF IInv

(* A step that changes no bucket and puts no login past a lock. *)
LEMMA BucketsKept ==
  ASSUME IInv, buckets' = buckets, TypeOK', Named',
         \A k \in Key : Locked(k) => Verifying(k)' \subseteq Verifying(k)
  PROVE  IInv'
<1>1. RestLocks'
  BY DEF IInv, RestLocks, LockingCount, Limit
<1>2. ASSUME NEW k \in Key, buckets[k] # None, NEW m \in Nat \ {0}, Bursts(k, m)
      PROVE  Bursts(k, m)'
  <2> DEFINE B == LockingCount(k) + Cardinality(Request) * m
  <2>1. buckets[k].failure_count \in Nat /\ B \in Nat
    BY <1>2, VerifyingFinite, LockingCountNat, OneMore DEF IInv, TypeOK, Bucket
  <2>2. Locked(k) /\ buckets[k].age < Window =>
           buckets[k].failure_count + Cardinality(Verifying(k)') < B
    <3>1. SUFFICES ASSUME Locked(k), buckets[k].age < Window
                   PROVE  buckets[k].failure_count + Cardinality(Verifying(k)') < B
      OBVIOUS
    <3>2. /\ Cardinality(Verifying(k)') \in Nat
          /\ Cardinality(Verifying(k)') <= Cardinality(Verifying(k))
      BY <3>1, VerifyingFinite, FS_Subset, FS_CardinalityType
    <3>3. buckets[k].failure_count + Cardinality(Verifying(k)) < B
      BY <1>2, <3>1 DEF Bursts
    <3>4. QED BY <2>1, <3>2, <3>3, VerifyingFinite
  <2>3. QED BY <1>2, <2>2 DEF Bursts, Locked, LockingCount, Limit
<1>3. BurstsCounted'
  BY <1>2 DEF IInv, BurstsCounted, LockingCount, Limit
<1>4. QED BY <1>1, <1>3 DEF IInv

(* login: who passes the check finds every bucket of his unlocked. *)
LEMMA CheckStep ==
  ASSUME IInv, NEW p \in Request, NEW a \in Account, NEW x \in Address, Check(p, a, x)
  PROVE  IInv'
<1> DEFINE r == [pc |-> "verify", account |-> a, address |-> x]
<1>1. /\ req' = [req EXCEPT ![p] = r] /\ buckets' = buckets
      /\ \A k \in Keys(r) : ~Locked(k)
  BY DEF Check
<1>2. r \in RequestState /\ r.account = a /\ r.address = x
  BY DEF RequestState
<1> HIDE DEF r
<1>3. /\ req' \in [Request -> RequestState] /\ req'[p] = r
      /\ \A q \in Request \ {p} : req'[q] = req[q]
  BY <1>1, <1>2 DEF IInv, TypeOK
<1>4. TypeOK' /\ Named'
  BY <1>1, <1>2, <1>3 DEF IInv, TypeOK, Named
<1>5. ASSUME NEW k \in Key, Locked(k)
      PROVE  Verifying(k)' \subseteq Verifying(k)
  <2>1. k \notin Keys(r)
    BY <1>1, <1>5
  <2>2. QED BY <1>3, <2>1 DEF Verifying
<1>6. QED BY <1>1, <1>4, <1>5, BucketsKept

(* A login goes on or ends without touching a bucket. *)
LEMMA LeaveStep ==
  ASSUME IInv, NEW p \in Request, Accept(p) \/ Abandon(p)
  PROVE  IInv'
<1>1. PICK r \in RequestState :
        /\ req' = [req EXCEPT ![p] = r] /\ r.pc # "verify"
        /\ r.pc # "idle" => req[p].pc # "idle" /\ r.account = req[p].account
                                               /\ r.address = req[p].address
  <2>1. CASE Accept(p)
    <3> DEFINE r == [req[p] EXCEPT !.pc = "accepted"]
    <3>1. req[p] \in RequestState
      BY DEF IInv, TypeOK
    <3>2. /\ r \in RequestState /\ r.pc = "accepted"
          /\ r.account = req[p].account /\ r.address = req[p].address
      BY <3>1 DEF RequestState
    <3>3. req' = [req EXCEPT ![p] = r] /\ req[p].pc # "idle"
      BY <2>1 DEF Accept, IInv, TypeOK
    <3> HIDE DEF r
    <3>4. QED BY <3>2, <3>3
  <2>2. CASE Abandon(p)
    <3>1. NoRequest \in RequestState /\ NoRequest.pc = "idle"
      BY DEF NoRequest, RequestState
    <3>2. req' = [req EXCEPT ![p] = NoRequest]
      BY <2>2 DEF Abandon
    <3>3. QED BY <3>1, <3>2
  <2>3. QED BY <2>1, <2>2
<1>2. /\ req' \in [Request -> RequestState] /\ req'[p] = r
      /\ \A q \in Request \ {p} : req'[q] = req[q]
  BY <1>1 DEF IInv, TypeOK
<1>3. buckets' = buckets
  BY DEF Accept, Abandon
<1>4. TypeOK' /\ Named'
  BY <1>1, <1>2, <1>3 DEF IInv, TypeOK, Named
<1>5. \A k \in Key : Verifying(k)' \subseteq Verifying(k)
  BY <1>1, <1>2 DEF Verifying
<1>6. QED BY <1>3, <1>4, <1>5, BucketsKept

(* record_failed_login: a count that reaches the limit locks; one beyond   *)
(* it is of a login that was past the check before.                        *)
LEMMA FailStep ==
  ASSUME IInv, NEW p \in Request, Fail(p)
  PROVE  IInv'
<1>1. /\ req[p].pc = "verify" /\ req' = [req EXCEPT ![p] = NoRequest]
      /\ buckets' = [k \in Key |-> IF k \in Keys(req[p]) THEN Counted(k) ELSE buckets[k]]
  BY DEF Fail
<1>2. NoRequest \in RequestState /\ NoRequest.pc = "idle"
  BY DEF NoRequest, RequestState
<1>3. /\ req' \in [Request -> RequestState] /\ req'[p] = NoRequest
      /\ \A q \in Request \ {p} : req'[q] = req[q]
  BY <1>1, <1>2 DEF IInv, TypeOK
<1>4. TypeOK' /\ Named'
  <2>1. buckets' \in [Key -> Bucket \cup {None}]
    BY <1>1, CountedRow DEF IInv, TypeOK
  <2>2. QED BY <1>2, <1>3, <2>1 DEF IInv, TypeOK, Named
<1>5. ASSUME NEW k \in Key
      PROVE  Verifying(k)' = IF k \in Keys(req[p]) THEN Verifying(k) \ {p} ELSE Verifying(k)
  BY <1>1, <1>2, <1>3 DEF Verifying
<1>6. ASSUME NEW k \in Key, k \in Keys(req[p]), buckets'[k].failure_count >= LockingCount(k)
      PROVE  /\ \E m \in Nat \ {0} : Bursts(k, m)'
             /\ buckets'[k].lock + buckets'[k].rest >= Lockout
  <2> DEFINE L == LockingCount(k)
             R == Cardinality(Request)
             V == Cardinality(Verifying(k))
             n == buckets[k].failure_count
  <2>1. L \in Nat /\ L >= 2 /\ L >= Limit(k) /\ Limit(k) \in Nat /\ R \in Nat
    BY ThrottleAssumption, LockingCountNat, VerifyingFinite DEF LockingCount, Limit
  <2>2. /\ buckets'[k] = Counted(k) /\ Verifying(k)' = Verifying(k) \ {p}
        /\ p \in Verifying(k)
    BY <1>1, <1>5, <1>6 DEF Verifying
  <2>3. Counted(k) \in Bucket
    BY CountedRow DEF IInv
  <2>4. /\ Cardinality(Verifying(k)') = V - 1 /\ Cardinality(Verifying(k)') \in Nat
        /\ V \in Nat /\ V <= R
    BY <2>2, VerifyingFinite, FS_RemoveElement, FS_CardinalityType
  <2>5. buckets[k] # None /\ ~(buckets[k].age >= Window)
    BY <1>6, <2>1, <2>2, CountedRow DEF IInv
  <2>6. /\ buckets[k] \in Bucket /\ n \in Nat /\ buckets[k].age \in Nat
        /\ buckets[k].age < Window /\ buckets[k].lock \in 0..Lockout
    BY <2>5, ThrottleAssumption DEF Bucket, IInv, TypeOK
  <2>7. /\ buckets'[k].failure_count = n + 1
        /\ buckets'[k].age = buckets[k].age
        /\ buckets'[k].lock = Lockout /\ buckets'[k].rest = 0
    BY <1>6, <2>1, <2>2, <2>5, <2>6, CountedRow DEF IInv
  <2> HIDE DEF L, R, V, n
  <2>8. ASSUME NEW m \in Nat \ {0}, (m - 1) * Lockout < Window,
               m * Lockout <= buckets[k].age + Lockout,
               n + V < L + R * m
        PROVE  Bursts(k, m)'
    <3>1. R * m \in Nat
      BY <2>1, OneMore
    <3>2. buckets'[k].failure_count + Cardinality(Verifying(k)') < L + R * m
      BY <2>1, <2>4, <2>6, <2>7, <2>8, <3>1
    <3>3. buckets'[k].failure_count < L + R * m
      BY <2>1, <2>4, <2>6, <2>7, <3>1, <3>2
    <3>4. LockingCount(k)' = L
      BY DEF LockingCount, Limit, L
    <3>5. QED BY <2>7, <2>8, <3>2, <3>3, <3>4 DEF Bursts, R
  <2>9. \E m \in Nat \ {0} : Bursts(k, m)'
    <3>1. CASE n < L
      <4>1. (1 - 1) * Lockout < Window /\ 1 * Lockout <= buckets[k].age + Lockout
        BY <2>6, ThrottleAssumption
      <4>2. n + V < L + R * 1
        BY <2>1, <2>4, <2>6, <3>1
      <4>3. QED BY <2>8, <4>1, <4>2
    <3>2. CASE ~(n < L)
      <4>1. PICK m \in Nat \ {0} : Bursts(k, m)
        BY <2>1, <2>5, <2>6, <3>2 DEF IInv, BurstsCounted, n, L
      <4>2. /\ (m - 1) * Lockout < Window /\ n < L + R * m
            /\ m * Lockout <= buckets[k].age + buckets[k].lock
            /\ Locked(k) => n + V < L + R * m
        BY <2>6, <4>1 DEF Bursts, n, L, R, V
      <4>3. /\ m * Lockout \in Nat /\ Lockout \in Nat \ {0}
            /\ (m + 1) * Lockout = m * Lockout + Lockout
            /\ R * m \in Nat /\ R * (m + 1) = R * m + R
        BY <2>1, ThrottleAssumption, OneMore
      <4>4. CASE Locked(k)
        <5>1. m * Lockout <= buckets[k].age + Lockout
          BY <2>6, <4>2, <4>3
        <5>2. QED BY <2>8, <4>2, <4>4, <5>1
      <4>5. CASE ~Locked(k)
        <5>1. buckets[k].lock = 0
          BY <2>5, <2>6, <4>5 DEF Locked
        <5>2. m * Lockout <= buckets[k].age
          BY <2>6, <4>2, <4>3, <5>1
        <5>3. /\ ((m + 1) - 1) * Lockout < Window
              /\ (m + 1) * Lockout <= buckets[k].age + Lockout
          <6>1. ((m + 1) - 1) * Lockout = m * Lockout
            OBVIOUS
          <6>2. QED BY <2>6, <4>3, <5>2, <6>1, ThrottleAssumption
        <5>4. n + V < L + R * (m + 1)
          BY <2>1, <2>4, <2>6, <4>2, <4>3
        <5>5. QED BY <2>8, <5>3, <5>4
      <4>6. QED BY <4>4, <4>5
    <3>3. QED BY <3>1, <3>2
  <2>10. QED BY <2>7, <2>9, ThrottleAssumption
<1>7. ASSUME NEW k \in Key, k \notin Keys(req[p])
      PROVE  buckets'[k] = buckets[k] /\ Verifying(k)' = Verifying(k)
  BY <1>1, <1>5, <1>7
<1>8. BurstsCounted' /\ RestLocks'
  <2>1. ASSUME NEW k \in Key, buckets'[k] # None,
               buckets'[k].failure_count >= LockingCount(k)
        PROVE  /\ \E m \in Nat \ {0} : Bursts(k, m)'
               /\ buckets'[k].lock + buckets'[k].rest >= Lockout
    <3>1. CASE k \in Keys(req[p])
      BY <1>6, <2>1, <3>1
    <3>2. CASE k \notin Keys(req[p])
      <4>1. \A m \in Nat \ {0} : Bursts(k, m) => Bursts(k, m)'
        BY <1>7, <3>2 DEF Bursts, Locked, LockingCount, Limit
      <4>2. QED BY <1>7, <2>1, <3>2, <4>1 DEF IInv, BurstsCounted, RestLocks
    <3>3. QED BY <3>1, <3>2
  <2>2. QED BY <2>1 DEF BurstsCounted, RestLocks, LockingCount, Limit
<1>9. QED BY <1>4, <1>8 DEF IInv

(* create_login_session: rows go, no count grows. *)
LEMMA SucceedStep ==
  ASSUME IInv, NEW p \in Request, Succeed(p)
  PROVE  IInv'
<1>1. req[p].pc = "accepted" /\ req' = [req EXCEPT ![p] = NoRequest]
  BY DEF Succeed
<1>2. NoRequest \in RequestState /\ NoRequest.pc = "idle"
  BY DEF NoRequest, RequestState
<1>3. /\ req' \in [Request -> RequestState] /\ req'[p] = NoRequest
      /\ \A q \in Request \ {p} : req'[q] = req[q]
  BY <1>1, <1>2 DEF IInv, TypeOK
<1>4. /\ buckets' \in [Key -> Bucket \cup {None}]
      /\ \A k \in Key : buckets'[k] # None => buckets'[k] = buckets[k]
  BY DEF Succeed, IInv, TypeOK
<1>5. TypeOK' /\ Named'
  BY <1>2, <1>3, <1>4 DEF IInv, TypeOK, Named
<1>6. \A k \in Key : Verifying(k)' = Verifying(k)
  BY <1>1, <1>2, <1>3 DEF Verifying
<1>7. ASSUME NEW k \in Key, buckets'[k] # None
      PROVE  \A m \in Nat \ {0} : Bursts(k, m) => Bursts(k, m)'
  BY <1>4, <1>6, <1>7 DEF Bursts, Locked, LockingCount, Limit
<1>8. BurstsCounted' /\ RestLocks'
  BY <1>4, <1>7 DEF IInv, BurstsCounted, RestLocks, LockingCount, Limit
<1>9. QED BY <1>5, <1>8 DEF IInv

(* A bucket and its lock age together. *)
LEMMA TickRow ==
  ASSUME IInv, Tick, NEW k \in Key
  PROVE  /\ buckets[k] = None => buckets'[k] = None
         /\ buckets[k] # None =>
              /\ buckets'[k] \in Bucket
              /\ buckets'[k].failure_count = buckets[k].failure_count
              /\ buckets'[k].age = IF buckets[k].age < Window THEN buckets[k].age + 1
                                                              ELSE buckets[k].age
              /\ buckets'[k].lock = IF buckets[k].lock > 0 THEN buckets[k].lock - 1
                                                           ELSE buckets[k].lock
              /\ buckets'[k].rest = IF buckets[k].rest < Longest THEN buckets[k].rest + 1
                                                                 ELSE buckets[k].rest
<1>1. CASE buckets[k] = None
  BY <1>1 DEF Tick
<1>2. CASE buckets[k] # None
  <2> DEFINE b == buckets[k]
  <2>1. b \in Bucket
    BY <1>2 DEF IInv, TypeOK
  <2>2. buckets'[k] = [b EXCEPT !.age = IF @ < Window THEN @ + 1 ELSE @,
                                !.lock = IF @ > 0 THEN @ - 1 ELSE @,
                                !.rest = IF @ < Longest THEN @ + 1 ELSE @]
    BY <1>2 DEF Tick
  <2> HIDE DEF b
  <2>3. b.age \in 0..Window /\ b.lock \in 0..Lockout /\ b.rest \in 0..Longest
    BY <2>1 DEF Bucket
  <2>4. /\ (IF b.age < Window THEN b.age + 1 ELSE b.age) \in 0..Window
        /\ (IF b.lock > 0 THEN b.lock - 1 ELSE b.lock) \in 0..Lockout
        /\ (IF b.rest < Longest THEN b.rest + 1 ELSE b.rest) \in 0..Longest
    BY <2>3, ThrottleAssumption DEF Longest
  <2>5. QED BY <1>2, <2>1, <2>2, <2>4 DEF Bucket, b
<1>3. QED BY <1>1, <1>2

(* now() advances. *)
LEMMA TickStep ==
  ASSUME IInv, Tick
  PROVE  IInv'
<1>1. req' = req /\ buckets' \in [Key -> Bucket \cup {None}]
  BY TickRow DEF Tick
<1>2. TypeOK' /\ Named'
  BY <1>1 DEF IInv, TypeOK, Named
<1>3. \A k \in Key : Verifying(k)' = Verifying(k)
  BY <1>1 DEF Verifying
<1>4. ASSUME NEW k \in Key, buckets'[k] # None
      PROVE  /\ buckets[k] # None /\ buckets'[k].failure_count = buckets[k].failure_count
             /\ \A m \in Nat \ {0} : Bursts(k, m) => Bursts(k, m)'
             /\ buckets[k].lock + buckets[k].rest >= Lockout =>
                  buckets'[k].lock + buckets'[k].rest >= Lockout
  <2>1. buckets[k] # None /\ buckets[k] \in Bucket
    BY <1>4, TickRow DEF IInv, TypeOK
  <2>2. /\ buckets[k].age \in Nat /\ buckets[k].lock \in Nat /\ buckets[k].rest \in Nat
        /\ Longest \in Nat /\ Longest >= Lockout /\ Lockout \in Nat
    BY <2>1, ThrottleAssumption DEF Bucket, Longest
  <2>3. buckets'[k].failure_count = buckets[k].failure_count
    BY <2>1, TickRow
  <2>4. buckets'[k].age < Window =>
           /\ buckets[k].age < Window
           /\ buckets'[k].age + buckets'[k].lock >= buckets[k].age + buckets[k].lock
           /\ buckets'[k].age + buckets'[k].lock \in Nat
    BY <2>1, <2>2, TickRow, ThrottleAssumption
  <2>5. Locked(k)' => Locked(k)
    BY <1>4, <2>1, <2>2, TickRow DEF Locked
  <2>6. ASSUME NEW m \in Nat \ {0}, Bursts(k, m) PROVE Bursts(k, m)'
    <3>1. m * Lockout \in Nat
      BY <2>2
    <3>2. buckets'[k].age < Window => m * Lockout <= buckets'[k].age + buckets'[k].lock
      BY <2>2, <2>4, <2>6, <3>1 DEF Bursts
    <3>3. QED BY <1>3, <2>3, <2>4, <2>5, <2>6, <3>2 DEF Bursts, LockingCount, Limit
  <2>7. buckets[k].lock + buckets[k].rest >= Lockout =>
           buckets'[k].lock + buckets'[k].rest >= Lockout
    BY <2>1, <2>2, TickRow
  <2>8. QED BY <2>1, <2>3, <2>6, <2>7
<1>5. BurstsCounted' /\ RestLocks'
  BY <1>4 DEF IInv, BurstsCounted, RestLocks, LockingCount, Limit
<1>6. QED BY <1>2, <1>5 DEF IInv

(* The inductive invariant, in every reachable state. *)
LEMMA Inductive == Spec => []IInv
<1>1. ASSUME IInv, [Next]_vars PROVE IInv'
  <2>1. CASE Next
    BY <1>1, <2>1, CheckStep, LeaveStep, FailStep, SucceedStep, TickStep DEF Next, Answer
  <2>2. CASE UNCHANGED vars
    <3>1. UNCHANGED <<buckets, req>>
      BY <2>2 DEF vars
    <3>2. TypeOK' /\ Named' /\ \A k \in Key : Verifying(k)' = Verifying(k)
      BY <1>1, <3>1 DEF IInv, TypeOK, Named, Verifying
    <3>3. QED BY <1>1, <3>1, <3>2, BucketsKept
  <2>3. QED BY <1>1, <2>1, <2>2
<1>2. QED BY <1>1, InitIInv, PTL DEF Spec

-----------------------------------------------------------------------------
(* Every variable keeps its type: a bucket's count is positive, its age    *)
(* and its lock within the configured times.                               *)
THEOREM ThrottleTypeCorrect == Spec => []TypeOK
<1>1. IInv => TypeOK
  BY DEF IInv
<1>2. QED BY <1>1, Inductive, PTL

(* In one window of a bucket no more passwords are tried than its limit    *)
(* and, for every lock that fits into the window, the logins in flight:    *)
(* for every limit, window and lockout that config.rs accepts              *)
(* (record_failed_login after the checks of login).                        *)
THEOREM ThrottleBoundsGuesses == Spec => []GuessesBounded
<1>1. ASSUME IInv PROVE GuessesBounded
  <2> SUFFICES ASSUME NEW k \in Key, buckets[k] # None
               PROVE  buckets[k].failure_count
                        < LockingCount(k) + Cardinality(Request) * LocksInWindow
    BY DEF GuessesBounded
  <2> DEFINE n == buckets[k].failure_count
             L == LockingCount(k)
             R == Cardinality(Request)
             Q == LocksInWindow
  <2>1. n \in Nat /\ L \in Nat /\ R \in Nat /\ Q \in Nat /\ R * Q \in Nat
    BY <1>1, LockingCountNat, VerifyingFinite, LocksFit, OneMore DEF IInv, TypeOK, Bucket
  <2> HIDE DEF n, L, R, Q
  <2>2. CASE n < L
    BY <2>1, <2>2 DEF n, L, R, Q
  <2>3. CASE ~(n < L)
    <3>1. PICK m \in Nat \ {0} : (m - 1) * Lockout < Window /\ n < L + R * m
      BY <1>1, <2>1, <2>3 DEF IInv, BurstsCounted, Bursts, n, L, R
    <3>2. m <= Q
      BY <3>1, LocksFit DEF Q
    <3>3. PICK d \in Nat : Q = m + d
      <4>1. Q - m \in Nat /\ Q = m + (Q - m)
        BY <2>1, <3>2
      <4>2. QED BY <4>1
    <3>4. R * Q = R * m + R * d /\ R * m \in Nat /\ R * d \in Nat
      BY <2>1, <3>3
    <3>5. n < L + R * Q
      BY <2>1, <3>1, <3>4
    <3>6. QED BY <3>5 DEF n, L, R, Q
  <2>4. QED BY <2>2, <2>3
<1>2. QED BY <1>1, Inductive, PTL

(* A bucket that has reached its limit within its window is locked until   *)
(* Lockout after the last failure counted, unless the failure that reached *)
(* it was its first (record_login_failure).                                *)
THEOREM ThrottleLocksFull == Spec => []FullIsLocked
<1>1. ASSUME IInv PROVE FullIsLocked
  <2> SUFFICES ASSUME NEW k \in Key, Full(k), buckets[k].failure_count > 1
               PROVE  Locked(k) \/ buckets[k].rest >= Lockout
    BY DEF FullIsLocked
  <2>1. buckets[k] # None /\ buckets[k] \in Bucket
    BY <1>1 DEF Full, IInv, TypeOK
  <2>2. buckets[k].failure_count >= LockingCount(k)
    BY <2>1, ThrottleAssumption DEF Full, LockingCount, Limit, Bucket
  <2>3. buckets[k].lock + buckets[k].rest >= Lockout
    BY <1>1, <2>1, <2>2 DEF IInv, RestLocks
  <2>4. buckets[k].lock \in Nat /\ buckets[k].rest \in Nat
    BY <2>1, ThrottleAssumption DEF Bucket, Longest
  <2>5. QED BY <2>1, <2>3, <2>4, ThrottleAssumption DEF Locked
<1>2. QED BY <1>1, Inductive, PTL

(* A successful login does not reset the counter of its source address     *)
(* (create_login_session clears the account's and the pair's).             *)
THEOREM ThrottleKeepsAddress == Spec => AddressKeepsCount
<1> DEFINE Kept == \A x \in Address : LET k == <<None, x>> IN
                      buckets[k] # None /\ buckets[k].age < Window
                                        /\ buckets[k].rest < Retention =>
                          /\ buckets'[k] # None
                          /\ buckets'[k].failure_count >= buckets[k].failure_count
<1>1. ASSUME IInv, [Next]_vars PROVE Kept
  <2> SUFFICES ASSUME NEW x \in Address, NEW k, k = <<None, x>>,
                      buckets[k] # None, buckets[k].age < Window,
                      buckets[k].rest < Retention
               PROVE  /\ buckets'[k] # None
                      /\ buckets'[k].failure_count >= buckets[k].failure_count
    OBVIOUS
  <2>1. k \in Key /\ x # None
    BY NoneAssumption DEF Key
  <2>2. buckets[k] \in Bucket /\ buckets[k].failure_count \in Nat
    BY <1>1, <2>1 DEF IInv, TypeOK, Bucket
  <2>3. CASE buckets' = buckets
    BY <2>2, <2>3
  <2>4. ASSUME NEW p \in Request, Fail(p)
        PROVE  /\ buckets'[k] # None
               /\ buckets'[k].failure_count >= buckets[k].failure_count
    <3>1. buckets'[k] = IF k \in Keys(req[p]) THEN Counted(k) ELSE buckets[k]
      BY <2>1, <2>4 DEF Fail
    <3>2. Counted(k) \in Bucket /\ Counted(k).failure_count = buckets[k].failure_count + 1
      BY <1>1, <2>1, CountedRow DEF IInv
    <3>3. QED BY <2>2, <3>1, <3>2, NoBucket
  <2>5. ASSUME NEW p \in Request, Succeed(p)
        PROVE  /\ buckets'[k] # None
               /\ buckets'[k].failure_count >= buckets[k].failure_count
    <3>1. req[p].account \in Account /\ req[p].account # None
      BY <1>1, <2>5, NoneAssumption DEF IInv, Named, Succeed
    <3>2. k \notin Stale
      BY <2>2, ThrottleAssumption DEF Stale, Bucket, Longest
    <3>3. k \notin Keys(req[p]) \ {<<None, req[p].address>>}
      BY <2>1, <3>1 DEF Keys
    <3>4. buckets'[k] = buckets[k]
      BY <2>1, <2>5, <3>2, <3>3 DEF Succeed
    <3>5. QED BY <2>2, <3>4
  <2>6. CASE Tick
    BY <1>1, <2>1, <2>2, <2>6, TickRow, NoBucket
  <2>7. QED BY <1>1, <2>3, <2>4, <2>5, <2>6
            DEF Next, Answer, Check, Accept, Abandon, vars
<1>2. QED BY <1>1, Inductive, PTL DEF Spec, AddressKeepsCount

=============================================================================
