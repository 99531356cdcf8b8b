------------------------------ MODULE PublicProofs ------------------------------
(***************************************************************************)
(* Proofs about what guards the public pages: the sliding-window limiter   *)
(* keeps its promise for all keys, limits and windows, the lockout its own *)
(* for all addresses, requests, thresholds, windows and blocks, and the    *)
(* queue of scans loses none that it accepted.                             *)
(***************************************************************************)
EXTENDS RateLimiter, BurstLockout, ScanProperties, TLAPS

(* ------------------------------------------------------------------------ *)
(* The limiter: IInv is inductive, and the bound and the justification of a *)
(* refusal follow from it.                                                  *)

USE LimiterAssumption

LEMMA InitInvariant == Init => IInv
  BY DEF Init, IInv, DequeInv, TypeOK, WindowBound, Spaced, Held

(* What the invariant says of one key.                                     *)
LEMMA KeyFacts ==
  ASSUME IInv, NEW k \in Keys
  PROVE  /\ now \in Nat
         /\ head[k] \in Nat \ {0}
         /\ accepted[k] \in Seq(Nat)
         /\ Len(accepted[k]) \in Nat
         /\ \A i \in 1..Len(accepted[k]) : accepted[k][i] \in Nat
         /\ Window[k] \in Nat /\ Window[k] <= MaxAge
         /\ Limit[k] \in Nat \ {0}
         /\ DequeInv(k) /\ Spaced(k)
  BY DEF IInv, TypeOK, WindowBound

(* What a popleft loop with any cutoff at or before now - Window[k] leaves *)
(* behind: the head moves right, and only over times out of every window.  *)
LEMMA PopLemma ==
  ASSUME IInv, NEW k \in Keys, NEW cutoff \in Int, NEW f \in Int,
         cutoff <= now - Window[k], PopsTo(k, cutoff, f)
  PROVE  /\ f \in Nat \ {0}
         /\ head[k] <= f
         /\ f <= Len(accepted[k]) + 1
         /\ \A i \in 1..(f - 1) : accepted[k][i] < now - Window[k]
<1> DEFINE L == Len(accepted[k])
<1>1. /\ head[k] \in Nat \ {0}
      /\ L \in Nat
      /\ \A i \in 1..L : accepted[k][i] \in Nat
      /\ Window[k] \in Nat
      /\ now \in Nat
      /\ head[k] <= L + 1
      /\ \A i \in 1..(head[k] - 1) : accepted[k][i] < now - Window[k]
  BY KeyFacts DEF DequeInv
<1>2. /\ f \in head[k]..(L + 1)
      /\ \A i \in head[k]..(f - 1) : accepted[k][i] < cutoff
  BY DEF PopsTo
<1> HIDE DEF L
<1>3. ASSUME NEW i \in 1..(f - 1)
      PROVE  accepted[k][i] < now - Window[k]
  <2>1. CASE i < head[k]
    BY <1>1, <2>1
  <2>2. CASE i >= head[k]
    <3>1. i \in head[k]..(f - 1) /\ i \in 1..L
      BY <1>1, <1>2, <2>2
    <3> QED
      BY <1>1, <1>2, <3>1
  <2> QED
    BY <1>1, <2>1, <2>2
<1> QED
  BY <1>1, <1>2, <1>3 DEF L

(* A key of which only the head moves, as PopLemma says, while time passes,*)
(* keeps what the invariant says of it.                                    *)
LEMMA Popped ==
  ASSUME IInv, NEW k \in Keys, now' \in Nat, now' >= now,
         accepted'[k] = accepted[k],
         head'[k] \in Nat, head'[k] >= head[k], head'[k] <= Len(accepted[k]) + 1,
         \A i \in 1..(head'[k] - 1) : accepted[k][i] < now - Window[k]
  PROVE  DequeInv(k)' /\ Spaced(k)'
<1>1. Spaced(k)'
  BY KeyFacts DEF Spaced
<1>2. \A i \in 1..Len(accepted[k]) : accepted[k][i] <= now'
  BY KeyFacts DEF DequeInv
<1>3. ASSUME NEW i \in 1..(head'[k] - 1)
      PROVE  accepted[k][i] < now' - Window[k]
  <2>1. i \in 1..Len(accepted[k])
    BY KeyFacts
  <2>2. accepted[k][i] \in Nat /\ now \in Nat /\ Window[k] \in Nat
    BY <2>1, KeyFacts
  <2> QED
    BY <2>2
<1>4. Len(accepted[k]) - head'[k] + 1 <= Limit[k]
  BY KeyFacts DEF DequeInv, Held
<1> QED
  BY <1>1, <1>2, <1>3, <1>4, KeyFacts DEF DequeInv, Held

(* Another key is not touched by Check(k): time passes.                    *)
LEMMA Untouched ==
  ASSUME IInv, NEW k \in Keys, now' \in Nat, now' >= now,
         accepted'[k] = accepted[k], head'[k] = head[k]
  PROVE  DequeInv(k)' /\ Spaced(k)'
<1>1. /\ head[k] \in Nat /\ head[k] <= Len(accepted[k]) + 1
      /\ \A i \in 1..(head[k] - 1) : accepted[k][i] < now - Window[k]
  BY KeyFacts DEF DequeInv
<1> QED
  BY <1>1, Popped

(* Two clock values or positions compare.                                   *)
LEMMA Compare == \A x, y \in Int : x <= y \/ x > y
  OBVIOUS

(* A request is let through: the deque had room for it, so that the time   *)
(* `limit' places before it had been dropped.                              *)
LEMMA Admitted ==
  ASSUME NEW s \in Seq(Nat), NEW t \in Nat, NEW limit \in Nat \ {0},
         NEW window \in Nat, NEW f \in Nat \ {0},
         \A i \in 1..Len(s) : s[i] <= t,
         \A i, j \in 1..Len(s) : i <= j => s[i] <= s[j],
         \A i \in 1..Len(s) : i + limit <= Len(s) => s[i + limit] - s[i] > window,
         \A i \in 1..(f - 1) : s[i] < t - window,
         f <= Len(s) + 1, Len(s) - f + 1 < limit,
         NEW a, a = Append(s, t)
  PROVE  /\ Len(a) = Len(s) + 1
         /\ \A i \in 1..Len(a) : a[i] <= t
         /\ \A i, j \in 1..Len(a) : i <= j => a[i] <= a[j]
         /\ \A i \in 1..Len(a) : i + limit <= Len(a) => a[i + limit] - a[i] > window
         /\ \A i \in 1..(f - 1) : a[i] < t - window
<1>1. /\ Len(s) \in Nat
      /\ Len(a) = Len(s) + 1
      /\ a[Len(s) + 1] = t
      /\ \A i \in 1..Len(s) : a[i] = s[i] /\ a[i] \in Nat
  OBVIOUS
<1>2. \A i \in 1..(f - 1) : i \in 1..Len(s) /\ a[i] < t - window
  BY <1>1
<1>3. \A i \in 1..Len(a) : a[i] \in Nat /\ a[i] <= t
  BY <1>1
<1>4. ASSUME NEW i \in 1..Len(a), NEW j \in 1..Len(a), i <= j
      PROVE  a[i] <= a[j]
  <2>1. CASE j = Len(s) + 1
    BY <1>1, <1>3, <2>1
  <2>2. CASE j # Len(s) + 1
    <3>1. i \in 1..Len(s) /\ j \in 1..Len(s)
      BY <1>1, <1>4, <2>2
    <3> QED
      BY <1>1, <1>4, <3>1
  <2> QED
    BY <2>1, <2>2
<1>5. ASSUME NEW i \in 1..Len(a), i + limit <= Len(a)
      PROVE  a[i + limit] - a[i] > window
  <2> DEFINE n == Len(s)
  <2>1. i \in Nat \ {0} /\ limit \in Nat /\ n \in Nat /\ i + limit <= n + 1
    BY <1>1, <1>5
  <2>2. CASE i + limit <= n
    <3>1. i \in 1..n /\ i + limit \in 1..n
      BY <2>1, <2>2
    <3> QED
      BY <1>1, <2>2, <3>1
  <2>3. CASE i + limit > n
    <3> HIDE DEF n
    <3>1. i + limit = n + 1
      BY <2>1, <2>3
    <3>2. i \in 1..(f - 1)
      BY <2>1, <3>1 DEF n
    <3>3. a[i + limit] = t /\ a[i] \in Nat /\ a[i] < t - window
      BY <1>1, <1>2, <3>1, <3>2 DEF n
    <3> QED
      BY <3>3
  <2>4. i + limit \in Int /\ n \in Int
    BY <2>1
  <2> HIDE DEF n
  <2> QED
    BY <2>2, <2>3, <2>4, Compare, Zenon
<1> QED
  BY <1>1, <1>2, <1>3, <1>4, <1>5

-----------------------------------------------------------------------------
(* check, for the key it is called with and for the others.                *)
LEMMA CheckKeeps ==
  ASSUME IInv, NEW k \in Keys, Check(k)
  PROVE  IInv'
<1>1. PICK f \in 1..(Len(accepted[k]) + 1), lag \in 0..MaxLag :
        /\ PopsTo(k, now - Window[k], f)
        /\ now' = now + lag
        /\ head' = [head EXCEPT ![k] = f]
        /\ accepted' = [accepted EXCEPT ![k] =
                          IF IsFull(k, f) THEN @ ELSE Append(@, now + lag)]
  BY DEF Check
<1>2. now \in Nat /\ now' \in Nat /\ now' >= now /\ Window[k] \in Nat
  BY <1>1, KeyFacts
<1>3. f \in Int /\ now - Window[k] \in Int /\ now - Window[k] <= now - Window[k]
  BY <1>1, <1>2
<1>4. /\ f \in Nat \ {0}
      /\ head[k] <= f
      /\ f <= Len(accepted[k]) + 1
      /\ \A i \in 1..(f - 1) : accepted[k][i] < now - Window[k]
  BY <1>1, <1>3, PopLemma
<1>5. TypeOK'
  BY <1>1, <1>2, <1>4 DEF IInv, TypeOK
<1>6. head'[k] = f /\ accepted'[k] = IF IsFull(k, f) THEN accepted[k] ELSE Append(accepted[k], now')
  BY <1>1 DEF IInv, TypeOK
<1>7. ASSUME NEW o \in Keys
      PROVE  DequeInv(o)' /\ Spaced(o)'
  <2>1. CASE o # k
    <3>1. accepted'[o] = accepted[o] /\ head'[o] = head[o]
      BY <1>1, <2>1 DEF IInv, TypeOK
    <3> QED
      BY <3>1, <1>2, Untouched
  <2>2. CASE o = k /\ IsFull(k, f)
    BY <1>2, <1>4, <1>6, <2>2, Popped
  <2>3. CASE o = k /\ ~IsFull(k, f)
    <3> DEFINE s == accepted[k]
    <3>1. accepted'[k] = Append(s, now') /\ head'[k] = f
      BY <1>6, <2>3
    <3>2. /\ s \in Seq(Nat) /\ Limit[k] \in Nat \ {0} /\ DequeInv(k) /\ Spaced(k)
          /\ \A i \in 1..Len(s) : s[i] \in Nat /\ s[i] <= now
      BY KeyFacts DEF DequeInv
    <3>a. \A i \in 1..Len(s) : s[i] <= now'
      BY <1>2, <3>2
    <3>b. Len(s) - f + 1 < Limit[k]
      BY <1>4, <2>3, <3>2 DEF IsFull, Held
    <3>c. ASSUME NEW i \in 1..(f - 1)
          PROVE  i \in 1..Len(s) /\ s[i] < now' - Window[k]
      <4>1. i \in 1..Len(s) /\ s[i] < now - Window[k]
        BY <1>4, <3>2
      <4>2. s[i] \in Nat
        BY <4>1, <3>2
      <4> QED
        BY <1>2, <4>1, <4>2
    <3>3. f <= Len(s) + 1
      BY <1>4
    <3>4. /\ \A i, j \in 1..Len(s) : i <= j => s[i] <= s[j]
          /\ \A i \in 1..Len(s) : i + Limit[k] <= Len(s) => s[i + Limit[k]] - s[i] > Window[k]
      BY <3>2 DEF DequeInv, Spaced
    <3> HIDE DEF s
    <3>5. /\ Len(accepted'[k]) = Len(s) + 1
          /\ \A i \in 1..Len(accepted'[k]) : accepted'[k][i] <= now'
          /\ \A i, j \in 1..Len(accepted'[k]) : i <= j => accepted'[k][i] <= accepted'[k][j]
          /\ \A i \in 1..Len(accepted'[k]) : i + Limit[k] <= Len(accepted'[k]) =>
               accepted'[k][i + Limit[k]] - accepted'[k][i] > Window[k]
          /\ \A i \in 1..(f - 1) : accepted'[k][i] < now' - Window[k]
      <4>1. PICK a, t, limit, window : a = accepted'[k] /\ t = now' /\ limit = Limit[k]
                                       /\ window = Window[k]
        OBVIOUS
      <4>2. /\ t \in Nat /\ limit \in Nat \ {0} /\ window \in Nat /\ f \in Nat \ {0}
            /\ s \in Seq(Nat) /\ a = Append(s, t)
        BY <1>2, <1>4, <3>1, <3>2, <4>1
      <4>3. /\ \A i \in 1..Len(s) : s[i] <= t
            /\ \A i, j \in 1..Len(s) : i <= j => s[i] <= s[j]
            /\ \A i \in 1..Len(s) : i + limit <= Len(s) => s[i + limit] - s[i] > window
            /\ \A i \in 1..(f - 1) : s[i] < t - window
            /\ f <= Len(s) + 1 /\ Len(s) - f + 1 < limit
        BY <3>a, <3>b, <3>c, <3>3, <3>4, <4>1
      <4>4. Len(a) = Len(s) + 1
        BY <4>2, <4>3, Admitted
      <4>5. \A i \in 1..Len(a) : a[i] <= t
        BY <4>2, <4>3, Admitted
      <4>6. \A i, j \in 1..Len(a) : i <= j => a[i] <= a[j]
        BY <4>2, <4>3, Admitted
      <4>7. \A i \in 1..Len(a) : i + limit <= Len(a) => a[i + limit] - a[i] > window
        BY <4>2, <4>3, Admitted
      <4>8. \A i \in 1..(f - 1) : a[i] < t - window
        BY <4>2, <4>3, Admitted
      <4>. QED  BY <4>1, <4>4, <4>5, <4>6, <4>7, <4>8
    <3>6. Len(s) + 1 - f + 1 <= Limit[k]
      BY <1>4, <3>2, <3>b
    <3>7. DequeInv(k)'
      <4>1. /\ head'[k] <= Len(accepted'[k]) + 1
            /\ Len(accepted'[k]) - head'[k] + 1 <= Limit[k]
        BY <1>4, <3>1, <3>2, <3>3, <3>5, <3>6
      <4>2. \A i \in 1..(head'[k] - 1) : accepted'[k][i] < now' - Window[k]
        BY <3>1, <3>5
      <4> QED
        BY <3>5, <4>1, <4>2 DEF DequeInv, Held
    <3>8. Spaced(k)'
      BY <3>5 DEF Spaced
    <3> QED
      BY <2>3, <3>7, <3>8
  <2> QED
    BY <2>1, <2>2, <2>3
<1> QED
  BY <1>5, <1>7 DEF IInv, WindowBound

(* cleanup_expired drops only what is out of every window, because no      *)
(* window is longer than max_age.                                          *)
LEMMA CleanupKeeps ==
  ASSUME IInv, CleanupExpired
  PROVE  IInv'
<1>1. PICK f \in [Keys -> UNION {1..(Len(accepted[k]) + 1) : k \in Keys}] :
        /\ \A k \in Keys : PopsTo(k, Expired, f[k])
        /\ head' = f
  BY DEF CleanupExpired
<1>2. now' = now /\ accepted' = accepted /\ now \in Nat
  BY DEF CleanupExpired, IInv, TypeOK
<1>3. ASSUME NEW k \in Keys
      PROVE  /\ f[k] \in Nat \ {0}
             /\ head[k] <= f[k]
             /\ f[k] <= Len(accepted[k]) + 1
             /\ \A i \in 1..(f[k] - 1) : accepted[k][i] < now - Window[k]
  <2>1. f[k] \in Int
    BY <1>1
  <2>2. Expired \in Int /\ Expired <= now - Window[k]
    <3>1. /\ now \in Nat /\ MaxAge \in Nat
          /\ Window[k] \in Nat /\ Window[k] <= MaxAge
      BY KeyFacts
    <3> QED
      BY <3>1 DEF Expired
  <2> QED
    BY <1>1, <2>1, <2>2, PopLemma
<1>4. TypeOK'
  BY <1>1, <1>2, <1>3 DEF IInv, TypeOK
<1>5. ASSUME NEW k \in Keys
      PROVE  DequeInv(k)' /\ Spaced(k)'
  <2>1. head'[k] \in Nat /\ Len(accepted[k]) \in Nat /\ now' >= now
    BY <1>1, <1>2, <1>3, KeyFacts
  <2> QED
    BY <1>1, <1>2, <1>3, <2>1, Popped
<1> QED
  BY <1>4, <1>5 DEF IInv, WindowBound

LEMMA TickKeeps ==
  ASSUME IInv, Tick
  PROVE  IInv'
<1>1. now' \in Nat /\ now' >= now /\ accepted' = accepted /\ head' = head
  BY DEF Tick, IInv, TypeOK
<1>2. TypeOK'
  BY <1>1 DEF IInv, TypeOK
<1>3. \A k \in Keys : DequeInv(k)' /\ Spaced(k)'
  BY <1>1, Untouched
<1> QED
  BY <1>2, <1>3 DEF IInv, WindowBound

(* The invariant of the limiter, for every set of keys with their limits   *)
(* and windows, and every max_age no window exceeds.                       *)
THEOREM Invariance == Spec => []IInv
<1>1. IInv /\ [Next]_vars => IInv'
  <2>1. ASSUME IInv, UNCHANGED vars
        PROVE  IInv'
    BY <2>1 DEF vars, IInv, TypeOK, WindowBound, Spaced, DequeInv, Held
  <2> QED
    BY <2>1, CheckKeeps, CleanupKeeps, TickKeeps DEF Next
<1> QED
  BY InitInvariant, <1>1, PTL DEF Spec

(* No window of time holds more accepted requests than the limit, wherever *)
(* it starts and whatever the hourly eviction does.                        *)
THEOREM WindowIsBounded == Spec => []WindowBound
  BY Invariance, PTL DEF IInv

(* A refused client has used up its limit within the window before.        *)
THEOREM RefusalIsJustified == Spec => RefusalJustified
<1>1. ASSUME IInv, NEW k \in Keys, Refusal(k)
      PROVE  /\ Len(accepted[k]) >= Limit[k]
             /\ accepted[k][Len(accepted[k]) - Limit[k] + 1] >= now - Window[k]
  <2>1. PICK f \in 1..(Len(accepted[k]) + 1), lag \in 0..MaxLag :
          /\ PopsTo(k, now - Window[k], f)
          /\ accepted' = [accepted EXCEPT ![k] =
                            IF IsFull(k, f) THEN @ ELSE Append(@, now + lag)]
    BY <1>1 DEF Refusal, Check
  <2> DEFINE s == accepted[k]
  <2>2. /\ s \in Seq(Nat) /\ Len(s) \in Nat /\ Limit[k] \in Nat \ {0}
        /\ head[k] \in Nat \ {0} /\ Len(s) - head[k] + 1 <= Limit[k]
    BY <1>1, KeyFacts DEF DequeInv, Held
  <2>3. s = IF IsFull(k, f) THEN s ELSE Append(s, now + lag)
    BY <1>1, <2>1 DEF Refusal, IInv, TypeOK
  <2>4. IsFull(k, f)
    <3>1. now + lag \in Nat
      BY <1>1, <2>1, KeyFacts
    <3>2. Len(Append(s, now + lag)) = Len(s) + 1
      BY <2>2, <3>1
    <3>3. Append(s, now + lag) # s
      BY <2>2, <3>2
    <3> QED
      BY <2>3, <3>3
  <2>5. Len(s) - f + 1 >= Limit[k]
    BY <2>4 DEF IsFull, Held
  <2>6. f \in Nat /\ f >= head[k] /\ (f <= Len(s) => s[f] >= now - Window[k])
    BY <2>1, <2>2 DEF PopsTo
  <2> HIDE DEF s
  <2>7. f = Len(s) - Limit[k] + 1 /\ f <= Len(s) /\ Len(s) >= Limit[k]
    BY <2>2, <2>5, <2>6
  <2>8. Len(s) >= Limit[k] /\ s[Len(s) - Limit[k] + 1] >= now - Window[k]
    BY <2>6, <2>7
  <2> QED
    BY <2>8 DEF s
<1>2. IInv => [\A k \in Keys : Refusal(k) =>
                 /\ Len(accepted[k]) >= Limit[k]
                 /\ accepted[k][Len(accepted[k]) - Limit[k] + 1] >= now - Window[k]]_vars
  BY <1>1
<1> QED
  BY <1>2, Invariance, PTL DEF RefusalJustified

(* ------------------------------------------------------------------------ *)
(* The lockout                                                              *)

HIDE LimiterAssumption
USE LockoutAssumption

LEMMA InitInv == BurstInit => BurstInv
  BY DEF BurstInit, BurstInv, BurstTypeOK, BurstsAnswered, HitsInv, BlockInv, InFlight

(* What BurstsAnswered says of one address.                                *)
Answered(i) ==
  \A j \in (spent[i] + 1)..(Len(misses[i]) - Threshold + 1) :
    misses[i][j + Threshold - 1] - misses[i][j] > BurstWindow

LEMMA Facts ==
  ASSUME BurstInv, NEW i \in Ips
  PROVE  /\ clock \in Nat
         /\ oldest[i] \in Nat \ {0} /\ until[i] \in Nat /\ spent[i] \in Nat
         /\ misses[i] \in Seq(Nat) /\ Len(misses[i]) \in Nat
         /\ \A j \in 1..Len(misses[i]) : misses[i][j] \in Nat
         /\ HitsInv(i) /\ BlockInv(i) /\ Answered(i)
  BY DEF BurstInv, BurstTypeOK, BurstsAnswered, Answered

(* The invariant of an address whose misses stay, while the head moves     *)
(* right over what is forgiven.                                            *)
LEMMA Kept ==
  ASSUME BurstInv, NEW i \in Ips, clock' \in Nat, clock' >= clock,
         misses'[i] = misses[i], oldest'[i] = oldest[i], spent'[i] = spent[i]
  PROVE  HitsInv(i)' /\ Answered(i)'
PROOF
  <1>1. Answered(i)'  BY Facts DEF Answered
  <1>2. \A j \in 1..Len(misses[i]) : misses[i][j] <= clock'
    BY Facts DEF HitsInv
  <1>3. ASSUME NEW j \in (spent[i] + 1)..(oldest[i] - 1)
        PROVE  misses[i][j] < clock' - BurstWindow
    <2>1. j \in 1..Len(misses[i])  BY Facts DEF HitsInv
    <2>2. misses[i][j] \in Nat /\ clock \in Nat  BY <2>1, Facts
    <2>3. misses[i][j] < clock - BurstWindow  BY Facts DEF HitsInv
    <2>. QED  BY <2>2, <2>3
  <1>. QED  BY <1>1, <1>2, <1>3, Facts DEF HitsInv

(* All that was counted is forgiven, or answered by a block.               *)
LEMMA Spent ==
  ASSUME NEW i \in Ips, clock' \in Nat, misses'[i] \in Seq(Nat),
         oldest'[i] = Len(misses'[i]) + 1, spent'[i] = Len(misses'[i]),
         \A j \in 1..Len(misses'[i]) : misses'[i][j] <= clock',
         \A j, k \in 1..Len(misses'[i]) : j <= k => misses'[i][j] <= misses'[i][k]
  PROVE  HitsInv(i)' /\ Answered(i)'
PROOF
  <1> DEFINE n == Len(misses'[i])
  <1>1. n \in Nat  OBVIOUS
  <1>2. Answered(i)'
    <2>1. (n + 1)..(n - Threshold + 1) = {}
      <3> HIDE DEF n
      <3>. QED  BY <1>1
    <2>. QED  BY <2>1 DEF Answered
  <1>3. /\ \A j \in (n + 1)..(n + 1 - 1) : FALSE
        /\ n < n + 1 /\ n + 1 <= n + 1 /\ n - (n + 1) + 1 < Threshold
    <2> HIDE DEF n
    <2>. QED  BY <1>1
  <1>4. /\ spent'[i] < oldest'[i]
        /\ oldest'[i] <= Len(misses'[i]) + 1
        /\ Len(misses'[i]) - oldest'[i] + 1 < Threshold
        /\ \A j \in (spent'[i] + 1)..(oldest'[i] - 1) : FALSE
    <2> HIDE DEF n
    <2>. QED  BY <1>3 DEF n
  <1>. QED  BY <1>2, <1>4 DEF HitsInv

(* Putting the parts together.                                             *)
LEMMA Whole ==
  ASSUME BurstTypeOK', \A i \in Ips : HitsInv(i)' /\ Answered(i)',
         \A i \in Ips : BlockInv(i)'
  PROVE  BurstInv'
  BY DEF BurstInv, BurstsAnswered, Answered

-----------------------------------------------------------------------------
LEMMA StepEnter ==
  ASSUME BurstInv, NEW s \in Slots, NEW i \in Ips, Enter(s, i)  PROVE BurstInv'
PROOF
  <1>1. UNCHANGED <<clock, misses, oldest, spent>> /\ clock \in Nat
    BY DEF Enter, BurstInv, BurstTypeOK
  <1>2. BurstTypeOK'  BY DEF Enter, BurstInv, BurstTypeOK
  <1>3. \A o \in Ips : HitsInv(o)' /\ Answered(o)'  BY <1>1, Kept
  <1>4. ASSUME NEW o \in Ips  PROVE BlockInv(o)'
    <2>1. CASE o = i
      BY <1>1, <2>1 DEF Enter, BurstInv, BurstTypeOK, BlockInv
    <2>2. CASE o # i
      BY <1>1, <2>2 DEF Enter, BurstInv, BurstTypeOK, BlockInv, InFlight
    <2>. QED  BY <2>1, <2>2
  <1>. QED  BY <1>2, <1>3, <1>4, Whole

LEMMA StepEnterLimited ==
  ASSUME BurstInv, NEW i \in Ips, EnterLimited(i)  PROVE BurstInv'
PROOF
  <1>1. UNCHANGED <<clock, misses, oldest, spent>> /\ clock \in Nat
    BY DEF EnterLimited, BurstInv, BurstTypeOK
  <1>2. BurstTypeOK'  BY DEF EnterLimited, BurstInv, BurstTypeOK
  <1>3. \A o \in Ips : HitsInv(o)' /\ Answered(o)'  BY <1>1, Kept
  <1>4. \A o \in Ips : BlockInv(o)'
    BY <1>1 DEF EnterLimited, BurstInv, BurstTypeOK, BlockInv, InFlight
  <1>. QED  BY <1>2, <1>3, <1>4, Whole

LEMMA StepMissBlocked ==
  ASSUME BurstInv, NEW s \in Slots, MissBlocked(s)  PROVE BurstInv'
PROOF
  <1>1. UNCHANGED <<clock, misses, oldest, spent>> /\ clock \in Nat
    BY DEF MissBlocked, BurstInv, BurstTypeOK
  <1>2. BurstTypeOK'  BY DEF MissBlocked, Leave, BurstInv, BurstTypeOK
  <1>3. \A o \in Ips : HitsInv(o)' /\ Answered(o)'  BY <1>1, Kept
  <1>4. \A o \in Ips : BlockInv(o)'
    BY <1>1 DEF MissBlocked, Leave, BurstInv, BurstTypeOK, BlockInv, InFlight
  <1>. QED  BY <1>2, <1>3, <1>4, Whole

LEMMA StepAnswer ==
  ASSUME BurstInv, NEW s \in Slots, Answer(s)  PROVE BurstInv'
PROOF
  <1>1. UNCHANGED <<clock, misses, oldest, spent>> /\ clock \in Nat
    BY DEF Answer, BurstInv, BurstTypeOK
  <1>2. BurstTypeOK'  BY DEF Answer, Leave, BurstInv, BurstTypeOK
  <1>3. \A o \in Ips : HitsInv(o)' /\ Answered(o)'  BY <1>1, Kept
  <1>4. \A o \in Ips : BlockInv(o)'
    BY <1>1 DEF Answer, Leave, BurstInv, BurstTypeOK, BlockInv, InFlight
  <1>. QED  BY <1>2, <1>3, <1>4, Whole

LEMMA StepTick ==
  ASSUME BurstInv, BurstTick  PROVE BurstInv'
PROOF
  <1>1. /\ UNCHANGED <<misses, oldest, spent, until, pc, ip, early>>
        /\ clock \in Nat /\ clock' = clock + 1
    BY DEF BurstTick, BurstInv, BurstTypeOK
  <1>2. BurstTypeOK'  BY <1>1 DEF BurstInv, BurstTypeOK
  <1>3. \A o \in Ips : HitsInv(o)' /\ Answered(o)'  BY <1>1, Kept
  <1>4. ASSUME NEW o \in Ips  PROVE BlockInv(o)'
    <2>1. InFlight(o)' = InFlight(o)  BY <1>1 DEF InFlight
    <2>2. until[o] \in Nat /\ until'[o] = until[o] /\ until[o] <= clock + Block
      BY <1>1, Facts DEF BlockInv
    <2>3. until[o] <= clock' + Block /\ (until[o] > clock' => until[o] > clock)
      BY <1>1, <2>2
    <2>. QED  BY <1>1, <2>1, <2>2, <2>3 DEF BurstInv, BlockInv
  <1>. QED  BY <1>2, <1>3, <1>4, Whole

LEMMA StepShow ==
  ASSUME BurstInv, NEW s \in Slots, Show(s)  PROVE BurstInv'
PROOF
  <1> DEFINE i == ip[s]
  <1>1. i \in Ips  BY DEF BurstInv, BurstTypeOK
  <1>2. clock' = clock /\ misses' = misses /\ clock \in Nat
    BY DEF Show, BurstInv, BurstTypeOK
  <1>3. BurstTypeOK'  BY Facts, <1>1 DEF Show, Leave, ResetHead, BurstInv, BurstTypeOK
  <1>4. ASSUME NEW o \in Ips  PROVE HitsInv(o)' /\ Answered(o)'
    <2>1. CASE o = i
      <3>1. oldest'[o] = Len(misses'[o]) + 1 /\ spent'[o] = Len(misses'[o])
        BY <1>2, <2>1 DEF Show, ResetHead, BurstInv, BurstTypeOK
      <3>. QED  BY <1>2, <3>1, Facts, Spent DEF HitsInv
    <2>2. CASE o # i
      <3>1. oldest'[o] = oldest[o] /\ spent'[o] = spent[o]
        BY <2>2 DEF Show, BurstInv, BurstTypeOK
      <3>. QED  BY <1>2, <3>1, Kept
    <2>. QED  BY <2>1, <2>2
  <1>5. \A o \in Ips : BlockInv(o)'
    BY <1>2 DEF Show, Leave, BurstInv, BurstTypeOK, BlockInv, InFlight
  <1>. QED  BY <1>3, <1>4, <1>5, Whole

-----------------------------------------------------------------------------
(* A time that is not before the others keeps a sequence in order.         *)
LEMMA Appended ==
  ASSUME NEW s \in Seq(Nat), NEW t \in Nat,
         \A j \in 1..Len(s) : s[j] <= t,
         \A j, k \in 1..Len(s) : j <= k => s[j] <= s[k],
         NEW a, a = Append(s, t)
  PROVE  /\ a \in Seq(Nat)
         /\ Len(a) = Len(s) + 1
         /\ a[Len(s) + 1] = t
         /\ \A j \in 1..Len(s) : a[j] = s[j]
         /\ \A j \in 1..Len(a) : a[j] <= t
         /\ \A j, k \in 1..Len(a) : j <= k => a[j] <= a[k]
PROOF
  <1>1. /\ a \in Seq(Nat) /\ Len(s) \in Nat
        /\ Len(a) = Len(s) + 1
        /\ a[Len(s) + 1] = t
        /\ \A j \in 1..Len(s) : a[j] = s[j] /\ a[j] \in Nat
    OBVIOUS
  <1>2. \A j \in 1..Len(a) : a[j] \in Nat /\ a[j] <= t  BY <1>1
  <1>3. ASSUME NEW j \in 1..Len(a), NEW k \in 1..Len(a), j <= k
        PROVE  a[j] <= a[k]
    <2>1. CASE k = Len(s) + 1  BY <1>1, <1>2, <2>1
    <2>2. CASE k # Len(s) + 1
      <3>1. j \in 1..Len(s) /\ k \in 1..Len(s)  BY <1>1, <1>3, <2>2
      <3>. QED  BY <1>1, <1>3, <3>1
    <2>. QED  BY <2>1, <2>2
  <1>. QED  BY <1>1, <1>2, <1>3

(* A 404 that is no burst: the miss Threshold places before it has been    *)
(* dropped, or forgiven.                                                   *)
LEMMA NoBurst ==
  ASSUME NEW s \in Seq(Nat), NEW t \in Nat, NEW f \in Nat \ {0}, NEW p \in Nat,
         \A j \in (p + 1)..(Len(s) - Threshold + 1) : s[j + Threshold - 1] - s[j] > BurstWindow,
         \A j \in (p + 1)..(f - 1) : s[j] < t - BurstWindow,
         f <= Len(s) + 1, Len(s) - f + 2 < Threshold,
         NEW a, Len(a) = Len(s) + 1, a[Len(s) + 1] = t,
         \A j \in 1..Len(s) : a[j] = s[j],
         NEW j \in (p + 1)..(Len(a) - Threshold + 1)
  PROVE  a[j + Threshold - 1] - a[j] > BurstWindow
PROOF
  <1> DEFINE n == Len(s)
  <1>1. n \in Nat /\ j \in Nat /\ j >= p + 1 /\ j + Threshold - 1 <= n + 1
    OBVIOUS
  <1> DEFINE e == j + Threshold - 1
  <1>2. CASE e = n + 1
    <2>1. j \in (p + 1)..(f - 1) /\ j \in 1..n  BY <1>1, <1>2
    <2>2. a[e] = t  BY <1>2
    <2>3. a[j] = s[j] /\ s[j] < t - BurstWindow  BY <2>1
    <2>4. s[j] \in Nat  BY <2>1
    <2> HIDE DEF e
    <2>5. a[e] - a[j] > BurstWindow  BY <2>2, <2>3, <2>4
    <2>. QED  BY <2>5 DEF e
  <1>3. CASE e # n + 1
    <2> HIDE DEF n
    <2>1. /\ j \in (p + 1)..(n - Threshold + 1)
          /\ j \in 1..n /\ e \in 1..n
      BY <1>1, <1>3
    <2>2. s[e] - s[j] > BurstWindow  BY <2>1 DEF n
    <2>3. a[e] = s[e] /\ a[j] = s[j]  BY <2>1 DEF n
    <2>. QED  BY <2>2, <2>3
  <1>. QED  BY <1>2, <1>3

LEMMA StepMiss ==
  ASSUME BurstInv, NEW s \in Slots, NEW i \in Ips, i = ip[s], Miss(s)  PROVE BurstInv'
PROOF
  <1> DEFINE m == misses[i]
             n == Len(m) + 1
  <1>1. i \in Ips  OBVIOUS
  <1>2. /\ pc[s] = "looking" /\ until[i] <= clock
        /\ misses' = [misses EXCEPT ![i] = Append(m, clock)]
        /\ Leave(s) /\ clock' = clock /\ ip' = ip
    BY DEF Miss
  <1>3. PICK f \in 1..n :
          /\ MissesPopTo(i, f)
          /\ IF IsBurst(i, f)
               THEN /\ until' = [until EXCEPT ![i] = clock + Block]
                    /\ oldest' = [oldest EXCEPT ![i] = n + 1]
                    /\ spent' = [spent EXCEPT ![i] = n]
                    /\ early' = early \cup InFlight(i)
               ELSE /\ oldest' = [oldest EXCEPT ![i] = f]
                    /\ UNCHANGED <<until, spent, early>>
    BY DEF Miss
  <1>4. misses'[i] = Append(m, clock)  BY <1>1, <1>2 DEF BurstInv, BurstTypeOK
  <1>5. /\ clock \in Nat /\ m \in Seq(Nat) /\ Len(m) \in Nat
        /\ \A j \in 1..Len(m) : m[j] \in Nat /\ m[j] <= clock
        /\ \A j, k \in 1..Len(m) : j <= k => m[j] <= m[k]
    BY <1>1, Facts DEF HitsInv
  <1>6. /\ misses'[i] \in Seq(Nat)
        /\ Len(misses'[i]) = Len(m) + 1
        /\ misses'[i][Len(m) + 1] = clock
        /\ \A j \in 1..Len(m) : misses'[i][j] = m[j]
        /\ \A j \in 1..Len(misses'[i]) : misses'[i][j] <= clock
        /\ \A j, k \in 1..Len(misses'[i]) : j <= k => misses'[i][j] <= misses'[i][k]
    <2> HIDE DEF m
    <2>1. PICK a : a = misses'[i]  OBVIOUS
    <2>2. a = Append(m, clock)  BY <1>4, <2>1
    <2>3. /\ a \in Seq(Nat) /\ Len(a) = Len(m) + 1 /\ a[Len(m) + 1] = clock
      BY <1>5, <2>2, Appended
    <2>4. \A j \in 1..Len(m) : a[j] = m[j]  BY <1>5, <2>2, Appended
    <2>5. \A j \in 1..Len(a) : a[j] <= clock  BY <1>5, <2>2, Appended
    <2>6. \A j, k \in 1..Len(a) : j <= k => a[j] <= a[k]  BY <1>5, <2>2, Appended
    <2>. QED  BY <2>1, <2>3, <2>4, <2>5, <2>6
  <1>7. f \in Nat \ {0} /\ n \in Nat /\ f <= n  BY <1>3, <1>5
  <1>8. InFlight(i) \subseteq Slots  BY DEF InFlight
  <1>9. BurstTypeOK'
    <2>1. misses' \in [Ips -> Seq(Nat)]
      BY <1>2, <1>5 DEF BurstInv, BurstTypeOK
    <2>2. oldest' \in [Ips -> Nat \ {0}] /\ spent' \in [Ips -> Nat]
          /\ until' \in [Ips -> Nat] /\ early' \subseteq Slots
      <3>1. /\ oldest \in [Ips -> Nat \ {0}] /\ spent \in [Ips -> Nat]
            /\ until \in [Ips -> Nat] /\ early \subseteq Slots
        BY DEF BurstInv, BurstTypeOK
      <3>2. n + 1 \in Nat \ {0} /\ clock + Block \in Nat  BY <1>5, <1>7
      <3> HIDE DEF n
      <3>3. CASE IsBurst(i, f)  BY <1>3, <1>7, <1>8, <3>1, <3>2, <3>3
      <3>4. CASE ~IsBurst(i, f)  BY <1>3, <1>7, <3>1, <3>4
      <3>. QED  BY <3>3, <3>4
    <2>. QED  BY <1>2, <2>1, <2>2 DEF BurstInv, BurstTypeOK, Leave
  <1>10. ASSUME NEW o \in Ips, o # i  PROVE HitsInv(o)' /\ Answered(o)'
    <2>1. misses'[o] = misses[o]
      BY <1>2, <1>10 DEF BurstInv, BurstTypeOK
    <2>2. oldest'[o] = oldest[o] /\ spent'[o] = spent[o]
      BY <1>3, <1>10 DEF BurstInv, BurstTypeOK
    <2>. QED  BY <1>2, <1>5, <2>1, <2>2, Kept
  <1>11. CASE IsBurst(i, f)
    <2>1. oldest'[i] = Len(misses'[i]) + 1 /\ spent'[i] = Len(misses'[i])
      BY <1>1, <1>3, <1>6, <1>11 DEF BurstInv, BurstTypeOK
    <2>2. HitsInv(i)' /\ Answered(i)'
      BY <1>1, <1>2, <1>5, <1>6, <2>1, Spent
    <2>3. ASSUME NEW o \in Ips  PROVE BlockInv(o)'
      <3>1. InFlight(o)' \subseteq InFlight(o)
        BY <1>2 DEF InFlight, Leave, BurstInv, BurstTypeOK
      <3>2. /\ until' = [until EXCEPT ![i] = clock + Block]
            /\ early' = early \cup InFlight(i)
        BY <1>3, <1>11
      <3>3. BlockInv(o)  BY DEF BurstInv
      <3>4. CASE o = i
        <4>1. until'[o] = clock + Block  BY <1>1, <3>2, <3>4 DEF BurstInv, BurstTypeOK
        <4>. QED  BY <1>2, <1>5, <3>1, <3>2, <3>4, <4>1 DEF BlockInv
      <3>5. CASE o # i
        <4>1. until'[o] = until[o]  BY <3>2, <3>5 DEF BurstInv, BurstTypeOK
        <4>. QED  BY <1>2, <3>1, <3>2, <3>3, <4>1 DEF BlockInv
      <3>. QED  BY <3>4, <3>5
    <2>4. ASSUME NEW o \in Ips  PROVE HitsInv(o)' /\ Answered(o)'
      BY <1>10, <2>2
    <2>. QED  BY <1>9, <2>3, <2>4, Whole
  <1>12. CASE ~IsBurst(i, f)
    <2>1. oldest'[i] = f /\ spent' = spent /\ until' = until /\ early' = early
      BY <1>1, <1>3, <1>12 DEF BurstInv, BurstTypeOK
    <2>2. /\ f >= oldest[i] /\ spent[i] < oldest[i]
          /\ oldest[i] \in Nat /\ spent[i] \in Nat
          /\ \A j \in oldest[i]..(f - 1) : m[j] < clock - BurstWindow
          /\ \A j \in (spent[i] + 1)..(oldest[i] - 1) : m[j] < clock - BurstWindow
      <3>1. /\ f \in oldest[i]..(Len(m) + 1)
            /\ \A j \in oldest[i]..(f - 1) : m[j] < clock - BurstWindow
        BY <1>3 DEF MissesPopTo
      <3>2. /\ oldest[i] \in Nat /\ spent[i] \in Nat /\ spent[i] < oldest[i]
            /\ \A j \in (spent[i] + 1)..(oldest[i] - 1) : m[j] < clock - BurstWindow
        BY Facts DEF HitsInv
      <3>. QED  BY <1>5, <3>1, <3>2
    <2>3. ASSUME NEW j \in (spent[i] + 1)..(f - 1)
          PROVE  j \in 1..Len(m) /\ m[j] < clock - BurstWindow
      <3> HIDE DEF m
      <3>1. j \in 1..Len(m)  BY <1>5, <1>7, <2>2 DEF n
      <3>2. CASE j < oldest[i]  BY <2>2, <3>2
      <3>3. CASE j >= oldest[i]
        <4>1. j \in oldest[i]..(f - 1)  BY <1>7, <2>2, <3>3
        <4>. QED  BY <2>2, <3>1, <4>1
      <3>. QED  BY <2>2, <3>1, <3>2, <3>3
    <2>4. Len(m) - f + 2 < Threshold
      BY <1>5, <1>7, <1>12 DEF IsBurst
    <2>5. Answered(i)'
      <3>1. \A j \in (spent[i] + 1)..(Len(m) - Threshold + 1) :
              m[j + Threshold - 1] - m[j] > BurstWindow
        BY <1>1, Facts DEF Answered
      <3> DEFINE a == misses'[i]
      <3>2. /\ Len(a) = Len(m) + 1 /\ a[Len(m) + 1] = clock
            /\ \A j \in 1..Len(m) : a[j] = m[j]
        BY <1>6
      <3>3. f <= Len(m) + 1  BY <1>7
      <3>4. spent'[i] = spent[i]  BY <2>1
      <3>5. \A j \in (spent[i] + 1)..(Len(a) - Threshold + 1) :
              a[j + Threshold - 1] - a[j] > BurstWindow
        <4> HIDE DEF a, m
        <4>. QED  BY <1>5, <1>7, <2>2, <2>3, <2>4, <3>1, <3>2, <3>3, NoBurst
      <3>. QED  BY <1>2, <3>4, <3>5 DEF Answered
    <2>6. HitsInv(i)'
      <3>1. /\ spent'[i] < oldest'[i]
            /\ oldest'[i] <= Len(misses'[i]) + 1
            /\ Len(misses'[i]) - oldest'[i] + 1 < Threshold
        <4>1. Len(misses'[i]) = n /\ spent'[i] = spent[i]  BY <1>6, <2>1
        <4>2. n = Len(m) + 1 /\ Len(m) \in Nat  BY <1>5
        <4> HIDE DEF m, n
        <4>3. spent[i] < f /\ f <= n + 1 /\ n - f + 1 < Threshold
          BY <1>7, <2>2, <2>4, <4>2
        <4>. QED  BY <2>1, <4>1, <4>3
      <3>2. \A j \in (spent'[i] + 1)..(oldest'[i] - 1) : misses'[i][j] < clock' - BurstWindow
        BY <1>2, <1>6, <2>1, <2>3
      <3>. QED  BY <1>2, <1>6, <3>1, <3>2 DEF HitsInv
    <2>7. \A o \in Ips : BlockInv(o)'
      BY <1>2, <2>1 DEF BurstInv, BurstTypeOK, BlockInv, InFlight, Leave
    <2>8. ASSUME NEW o \in Ips  PROVE HitsInv(o)' /\ Answered(o)'
      BY <1>10, <2>5, <2>6
    <2>. QED  BY <1>9, <2>7, <2>8, Whole
  <1>. QED  BY <1>11, <1>12

-----------------------------------------------------------------------------
LEMMA NextInv == BurstInv /\ [BurstNext]_burstVars => BurstInv'
PROOF
  <1>1. ASSUME BurstInv, UNCHANGED burstVars  PROVE BurstInv'
    BY <1>1 DEF burstVars, BurstInv, BurstTypeOK, BurstsAnswered, HitsInv, BlockInv, InFlight
  <1>2. ASSUME BurstInv, NEW s \in Slots, Miss(s)  PROVE BurstInv'
    <2>1. ip[s] \in Ips  BY <1>2 DEF BurstInv, BurstTypeOK
    <2>2. PICK i \in Ips : i = ip[s]  BY <2>1
    <2>. QED  BY <1>2, <2>2, StepMiss
  <1>. QED
    BY <1>1, <1>2, StepEnter, StepEnterLimited, StepMissBlocked, StepShow,
       StepAnswer, StepTick DEF BurstNext

(* The inductive invariant holds for every threshold, window and block,    *)
(* however many requests of an address overlap.                            *)
THEOREM BurstInvariance == BurstSpec => []BurstInv
  BY InitInv, NextInv, PTL DEF BurstSpec

(* Threshold 404s within the window have always led to a block (record_404)*)
(* unless a card was shown after one of them.                              *)
THEOREM BurstsAreAnswered == BurstSpec => []BurstsAnswered
  BY BurstInvariance, PTL DEF BurstInv

(* Only a request that was in flight when the block began moves its end.   *)
THEOREM BlocksHold == BurstSpec => BlockHolds
PROOF
  <1>1. ASSUME BurstInv, BurstNext, NEW i \in Ips, Moves(i)
        PROVE  \E s \in InFlight(i) : s \in early /\ pc'[s] = "idle"
    <2> USE <1>1
    <2>1. until[i] > clock /\ until'[i] # until[i] /\ clock \in Nat /\ until[i] \in Nat
      BY Facts DEF Moves
    <2>2. InFlight(i) \subseteq early
      BY <2>1 DEF BurstInv, BlockInv
    <2>3. PICK s \in Slots : MissBlocked(s) \/ Miss(s) \/ Show(s)
      <3>1. ~\E q \in Slots, o \in Ips : Enter(q, o)
        BY <2>1 DEF Enter, Admits, BurstInv, BurstTypeOK
      <3>2. ~\E o \in Ips : EnterLimited(o)
        BY <2>1 DEF EnterLimited, Admits, BurstInv, BurstTypeOK
      <3>3. ~(\E q \in Slots : Answer(q)) /\ ~BurstTick
        BY <2>1 DEF Answer, BurstTick
      <3>. QED  BY <3>1, <3>2, <3>3 DEF BurstNext
    <2>4. pc[s] = "looking" /\ pc'[s] = "idle"
      BY <2>3 DEF MissBlocked, Miss, Show, Leave, BurstInv, BurstTypeOK
    <2>5. ip[s] = i
      BY <2>1, <2>3 DEF MissBlocked, Miss, Show, BurstInv, BurstTypeOK
    <2>. QED  BY <2>2, <2>4, <2>5 DEF InFlight
  <1>2. BurstInv /\ [BurstNext]_burstVars =>
          [\A i \in Ips : Moves(i) =>
             \E s \in InFlight(i) : s \in early /\ pc'[s] = "idle"]_burstVars
    BY <1>1
  <1>. QED  BY <1>2, BurstInvariance, PTL DEF BurstSpec, BlockHolds

(* A block begins only with Threshold 404s within the window, all of them  *)
(* after the last card that was shown and the last block (record_404).     *)
THEOREM BlocksAreJustified == BurstSpec => BlockJustified
PROOF
  <1>1. ASSUME BurstInv, BurstNext, NEW i \in Ips, Begins(i)
        PROVE  LET first == Len(misses'[i]) - Threshold + 1
               IN first > spent[i] /\ misses'[i][first] >= clock - BurstWindow
    <2> USE <1>1
    <2> DEFINE m == misses[i]
    <2>1. /\ until[i] <= clock /\ until'[i] > clock' /\ clock \in Nat
          /\ until[i] \in Nat /\ m \in Seq(Nat) /\ Len(m) \in Nat
      BY Facts DEF Begins
    <2>2. PICK s \in Slots : Miss(s) /\ ip[s] = i
      <3>0. until \in [Ips -> Nat] /\ ip \in [Slots -> Ips]
        BY DEF BurstInv, BurstTypeOK
      <3>1. ASSUME NEW j \in Ips, until' = [until EXCEPT ![j] = 0], clock' = clock
            PROVE  FALSE
        <4>1. until'[i] = 0 \/ until'[i] = until[i]  BY <3>0, <3>1
        <4>. QED  BY <2>1, <3>1, <4>1
      <3>2. /\ ~\E q \in Slots, o \in Ips : Enter(q, o)
            /\ ~\E o \in Ips : EnterLimited(o)
            /\ ~\E q \in Slots : Show(q)
        BY <3>0, <3>1 DEF Enter, EnterLimited, Show
      <3>3. ~(\E q \in Slots : Answer(q)) /\ ~BurstTick
        BY <2>1 DEF Answer, BurstTick
      <3>4. ASSUME NEW q \in Slots, MissBlocked(q)  PROVE FALSE
        <4>1. ip[q] # i  BY <2>1, <3>4 DEF MissBlocked
        <4>2. until'[i] = until[i] /\ clock' = clock
          BY <3>0, <3>4, <4>1 DEF MissBlocked
        <4>. QED  BY <2>1, <4>2
      <3>6. PICK s \in Slots : Miss(s)
        BY <3>2, <3>3, <3>4 DEF BurstNext
      <3>7. ip[s] = i
        BY <2>1, <3>6 DEF Miss, BurstInv, BurstTypeOK
      <3>. QED  BY <3>6, <3>7
    <2>3. PICK f \in 1..(Len(m) + 1) :
            MissesPopTo(i, f) /\ (~IsBurst(i, f) => until' = until)
      BY <2>2 DEF Miss
    <2>4. misses'[i] = Append(m, clock) /\ clock' = clock
      BY <2>2 DEF Miss, BurstInv, BurstTypeOK
    <2>5. Len(m) - f + 2 >= Threshold
      BY <2>1, <2>3, <2>4 DEF IsBurst
    <2>6. /\ f \in Nat \ {0} /\ oldest[i] <= f /\ f <= Len(m) + 1
          /\ f <= Len(m) => m[f] >= clock - BurstWindow
          /\ oldest[i] \in Nat /\ spent[i] \in Nat /\ spent[i] < oldest[i]
          /\ Len(m) - oldest[i] + 1 < Threshold
      BY <2>3, Facts DEF MissesPopTo, HitsInv
    <2> HIDE DEF m
    <2>7. /\ Len(Append(m, clock)) = Len(m) + 1
          /\ Append(m, clock)[Len(m) + 1] = clock
          /\ \A j \in 1..Len(m) : Append(m, clock)[j] = m[j]
      BY <2>1
    <2>8. Len(m) + 1 - Threshold + 1 = f
      BY <2>1, <2>5, <2>6
    <2>9. Append(m, clock)[f] >= clock - BurstWindow
      <3>1. CASE f = Len(m) + 1  BY <2>1, <2>7, <3>1
      <3>2. CASE f # Len(m) + 1
        <4>1. f \in 1..Len(m)  BY <2>1, <2>6, <3>2
        <4>. QED  BY <2>6, <2>7, <4>1
      <3>. QED  BY <3>1, <3>2
    <2>10. f > spent[i]  BY <2>6
    <2>. QED  BY <2>4, <2>7, <2>8, <2>9, <2>10
  <1>2. BurstInv /\ [BurstNext]_burstVars =>
          [\A i \in Ips : Begins(i) =>
             LET first == Len(misses'[i]) - Threshold + 1
             IN first > spent[i] /\ misses'[i][first] >= clock - BurstWindow]_burstVars
    BY <1>1
  <1>. QED  BY <1>2, BurstInvariance, PTL DEF BurstSpec, BlockJustified

(* Blocks begin for cause, and only who was inside moves their ends.       *)
THEOREM BlocksAreFairToAll == BurstSpec => BlocksAreFair
  BY BlocksAreJustified, BlocksHold, PTL DEF BlocksAreFair

(* ------------------------------------------------------------------------ *)
(* The queue of scans: the pipeline keeps its inductive invariant, and      *)
(* implements the ledger, for any number of scans, any fetch size, any      *)
(* limits of the consumer and any set of faults.                            *)

HIDE LockoutAssumption
USE ScanAssumption
    DEF ScanInv, ScanTypeOK, HeldInv, RowsInv, DeliveriesInv, SettledIsRecorded,
        queue, worker, history

LEMMA ScanInitially == ScanInit => ScanInv
  BY DEF ScanInit

LEMMA OpenCardKeeps ==
  ASSUME ScanInv, NEW s \in Scans, OpenCard(s)
  PROVE  ScanInv'
<1>1. ScanTypeOK' /\ HeldInv'
  BY DEF OpenCard
<1>2. RowsInv' /\ SettledIsRecorded'
  BY DEF OpenCard
<1>3. DeliveriesInv'
  BY DEF OpenCard
<1> QED
  BY <1>1, <1>2, <1>3 DEF ScanInv

LEMMA PublishScanKeeps ==
  ASSUME ScanInv, NEW s \in Scans, PublishScan(s)
  PROVE  ScanInv'
<1>1. ScanTypeOK' /\ HeldInv'
  BY DEF PublishScan
<1>2. RowsInv' /\ SettledIsRecorded'
  BY DEF PublishScan
<1>3. DeliveriesInv'
  BY DEF PublishScan
<1> QED
  BY <1>1, <1>2, <1>3 DEF ScanInv

LEMMA FetchKeeps ==
  ASSUME ScanInv, Fetch
  PROVE  ScanInv'
<1>1. PICK S \in SUBSET {s \in Scans : msg[s] = "queued"} :
        /\ batch' = S
        /\ msg' = [s \in Scans |-> IF s \in S THEN "pending" ELSE msg[s]]
        /\ deliveries' = [s \in Scans |-> IF s \in S THEN deliveries[s] + 1
                                                     ELSE deliveries[s]]
  BY DEF Fetch
<1>2. batch = {} /\ cur = NoScan /\ loopAt = "loop"
      /\ UNCHANGED <<task, rows, loopAt, cur, history>>
  BY DEF Fetch
<1>3. ScanTypeOK' /\ HeldInv'
  BY <1>1, <1>2
<1>4. RowsInv' /\ SettledIsRecorded'
  BY <1>1, <1>2
<1>5. DeliveriesInv'
  BY <1>1, <1>2
<1> QED
  BY <1>3, <1>4, <1>5 DEF ScanInv

LEMMA AckWaitExpiresKeeps ==
  ASSUME ScanInv, NEW s \in Scans, AckWaitExpires(s)
  PROVE  ScanInv'
<1>1. ScanTypeOK' /\ HeldInv'
  BY DEF AckWaitExpires, Requeued
<1>2. RowsInv' /\ SettledIsRecorded'
  BY DEF AckWaitExpires, Requeued
<1>3. DeliveriesInv'
  BY DEF AckWaitExpires, Requeued
<1> QED
  BY <1>1, <1>2, <1>3 DEF ScanInv

(* In each of its outcomes the handler's rows are acknowledged or counted  *)
(* as mishaps, and a message is acknowledged only after an INSERT.         *)
LEMMA OutcomeFacts ==
  \A o \in Outcomes :
    /\ o.n \in Nat /\ o.unacked \in Nat
    /\ o.next \in {"ack", "nak"}
    /\ o.next = "ack" => o.n > 0 /\ o.n = o.unacked + 1
    /\ o.next = "nak" => o.n = o.unacked
  BY DEF Outcomes, Outcome

LEMMA HandleScanKeeps ==
  ASSUME ScanInv, NEW s \in Scans, HandleScan(s)
  PROVE  ScanInv'
<1>1. PICK o \in Outcomes :
        /\ rows' = [rows EXCEPT ![s] = @ + o.n]
        /\ loopAt' = o.next
        /\ mishaps' = [mishaps EXCEPT ![s] = @ + o.unacked]
  BY DEF HandleScan
<1>2. /\ loopAt = "loop" /\ s \in batch /\ cur = NoScan /\ cur' = s
      /\ UNCHANGED <<task, queue, batch, failures>>
  BY DEF HandleScan
<1>3. ScanTypeOK' /\ HeldInv'
  BY <1>1, <1>2, OutcomeFacts
<1>4. RowsInv'
  <2>1. rows[s] \in Nat /\ mishaps[s] \in Nat /\ rows[s] <= mishaps[s]
    BY <1>2
  <2>2. \A t \in Scans \ {s} : rows'[t] = rows[t] /\ mishaps'[t] = mishaps[t]
    BY <1>1
  <2>3. rows'[s] = rows[s] + o.n /\ mishaps'[s] = mishaps[s] + o.unacked
    BY <1>1
  <2>4. /\ o.n \in Nat /\ o.unacked \in Nat
        /\ o.next = "ack" => o.n > 0 /\ o.n = o.unacked + 1
        /\ o.next = "nak" => o.n = o.unacked
        /\ o.next = "ack" \/ o.next = "nak"
    BY OutcomeFacts
  <2>5. CASE o.next = "ack"
    <3>1. rows'[s] > 0 /\ rows'[s] <= mishaps'[s] + 1
      BY <2>1, <2>3, <2>4, <2>5
    <3>2. loopAt' = "ack" /\ cur' = s
      BY <1>1, <1>2, <2>5
    <3>3. \A t \in Scans \ {s} : t # cur
      BY <1>2
    <3> QED
      BY <1>2, <2>2, <3>1, <3>2, <3>3
  <2>6. CASE o.next = "nak"
    <3>1. rows'[s] <= mishaps'[s]
      BY <2>1, <2>3, <2>4, <2>6
    <3>2. loopAt' = "nak" /\ cur' = s
      BY <1>1, <1>2, <2>6
    <3>3. \A t \in Scans \ {s} : t # cur
      BY <1>2
    <3>4. rows'[s] \in Nat /\ mishaps'[s] \in Nat
      BY <1>3
    <3> QED
      BY <1>2, <2>2, <3>1, <3>2, <3>3, <3>4
  <2> QED
    BY <2>4, <2>5, <2>6
<1>5. SettledIsRecorded'
  BY <1>1, <1>2, OutcomeFacts
<1>6. DeliveriesInv'
  BY <1>1, <1>2, OutcomeFacts
<1> QED
  BY <1>3, <1>4, <1>5, <1>6 DEF ScanInv

LEMMA AckKeeps ==
  ASSUME ScanInv, Ack
  PROVE  ScanInv'
<1>1. loopAt = "ack" /\ cur \in batch /\ cur \in Scans
  BY DEF Ack
<1>2. CASE /\ msg' = [msg EXCEPT ![cur] = "settled"] \/ (msg[cur] = "exhausted" /\ UNCHANGED msg)
           /\ Done
           /\ UNCHANGED mishaps
  <2>1. ScanTypeOK' /\ HeldInv'
    BY <1>1, <1>2 DEF Ack, Done
  <2>2. RowsInv' /\ SettledIsRecorded'
    BY <1>1, <1>2 DEF Ack, Done
  <2>3. DeliveriesInv'
    BY <1>1, <1>2 DEF Ack, Done
  <2> QED
    BY <2>1, <2>2, <2>3 DEF ScanInv
<1>3. CASE /\ mishaps' = [mishaps EXCEPT ![cur] = @ + 1]
           /\ Done \/ (loopAt' = "nak" /\ UNCHANGED <<batch, cur>>)
           /\ UNCHANGED msg
  <2>1. ScanTypeOK' /\ HeldInv'
    BY <1>1, <1>3 DEF Ack, Done
  <2>2. RowsInv' /\ SettledIsRecorded'
    BY <1>1, <1>3 DEF Ack, Done
  <2>3. DeliveriesInv'
    BY <1>1, <1>3 DEF Ack, Done
  <2> QED
    BY <2>1, <2>2, <2>3 DEF ScanInv
<1> QED
  BY <1>2, <1>3 DEF Ack

LEMMA NakKeeps ==
  ASSUME ScanInv, Nak
  PROVE  ScanInv'
<1>1. loopAt = "nak" /\ cur \in batch /\ cur \in Scans
  BY DEF Nak
<1>2. ScanTypeOK' /\ HeldInv'
  BY <1>1 DEF Nak, Done, Requeued
<1>3. RowsInv' /\ SettledIsRecorded'
  BY <1>1 DEF Nak, Done, Requeued
<1>4. DeliveriesInv'
  BY <1>1 DEF Nak, Done, Requeued
<1> QED
  BY <1>2, <1>3, <1>4 DEF ScanInv

(* A batch is lost, with the process or with its connection.               *)
LEMMA BatchLost ==
  ASSUME ScanInv, LosesBatch, loopAt' \in {"down", "dead"}, UNCHANGED <<task, queue, rows>>
  PROVE  ScanInv'
<1>1. ScanTypeOK' /\ HeldInv'
  BY DEF LosesBatch
<1>2. RowsInv' /\ SettledIsRecorded'
  BY DEF LosesBatch
<1>3. DeliveriesInv'
  BY DEF LosesBatch
<1> QED
  BY <1>1, <1>2, <1>3 DEF ScanInv

LEMMA RestartKeeps ==
  ASSUME ScanInv, Restart
  PROVE  ScanInv'
  BY DEF Restart

(* The inductive invariant of the pipeline.                                *)
THEOREM ScanInvariance == ScanSpec => []ScanInv
<1>1. ASSUME ScanInv, ScanNext
      PROVE  ScanInv'
  <2>1. CASE \E s \in Scans : OpenCard(s) \/ PublishScan(s) \/ AckWaitExpires(s) \/ HandleScan(s)
    BY <1>1, <2>1, OpenCardKeeps, PublishScanKeeps, AckWaitExpiresKeeps, HandleScanKeeps
  <2>2. CASE Fetch \/ Ack \/ Nak
    BY <1>1, <2>2, FetchKeeps, AckKeeps, NakKeeps
  <2>3. CASE Crash \/ ConnectionCloses
    BY <1>1, <2>3, BatchLost DEF Crash, ConnectionCloses
  <2>4. CASE Restart
    BY <1>1, <2>4, RestartKeeps
  <2> QED
    BY <1>1, <2>1, <2>2, <2>3, <2>4 DEF ScanNext
<1>2. ASSUME ScanInv, UNCHANGED scanVars
      PROVE  ScanInv'
  BY <1>2 DEF scanVars
<1> QED
  BY ScanInitially, <1>1, <1>2, PTL DEF ScanSpec


(* The variables keep their types.                                         *)
THEOREM TypeCorrect == ScanSpec => []ScanTypeOK
  BY ScanInvariance, PTL

(* A message is settled only when its scan is in the table.                *)
THEOREM SettledScansAreRecorded == ScanSpec => []SettledIsRecorded
  BY ScanInvariance, PTL

(* Every row of a scan beyond the first has a fault to explain it.         *)
THEOREM DuplicatesAreExplained == ScanSpec => []DuplicatesExplained
<1>1. ScanInv => DuplicatesExplained
  BY DEF DuplicatesExplained
<1> QED
  BY <1>1, ScanInvariance, PTL

(* A published scan is lost only by as many failures as it had deliveries. *)
THEOREM LossesAreFailures == ScanSpec => []LostOnlyAfterFailures
<1>1. ScanInv => LostOnlyAfterFailures
  BY DEF LostOnlyAfterFailures
<1> QED
  BY <1>1, ScanInvariance, PTL

(* Analytics counts each published scan once, up to the faults there were. *)
THEOREM CountsAreExplained == ScanSpec => []CountsExplained
<1>1. ScanInv => CountsExplained
  BY DEF CountsExplained, DuplicatesExplained, LostOnlyAfterFailures
<1> QED
  BY <1>1, ScanInvariance, PTL

-----------------------------------------------------------------------------
(* The refinement of the ledger.                                           *)

LEMMA LedgerInit == ScanInit => Ledger!Init
  BY DEF ScanInit, Ledger!Init, Fate

(* A step that adds no row and at most gives scans up is the ledger's      *)
(* Abandon, perhaps of no scan at all.                                     *)
LEMMA GivesUp ==
  ASSUME UNCHANGED rows,
         \A s \in Scans : \/ Fate(s)' = Fate(s)
                          \/ Fate(s) = "accepted" /\ Fate(s)' = "abandoned"
  PROVE  Ledger!Next
<1> DEFINE S == {s \in Scans : Fate(s)' # Fate(s)}
<1>1. Ledger!Abandon(S)
  BY DEF Ledger!Abandon
<1>2. S \in SUBSET Scans
  OBVIOUS
<1> QED
  BY <1>1, <1>2 DEF Ledger!Next

(* A step that gives one scan a new fate and leaves the others theirs.     *)
LEMMA OneFate ==
  ASSUME NEW s \in Scans, NEW f, Fate(s)' = f,
         \A t \in Scans \ {s} : Fate(t)' = Fate(t)
  PROVE  [t \in Scans |-> Fate(t)]' = [[t \in Scans |-> Fate(t)] EXCEPT ![s] = f]
  OBVIOUS

LEMMA PublishRefines ==
  ASSUME ScanInv, NEW s \in Scans, PublishScan(s)
  PROVE  Ledger!Next
<1>1. CASE UNCHANGED msg
  <2>1. \A t \in Scans : Fate(t)' = Fate(t)
    BY <1>1 DEF PublishScan, Fate
  <2> QED
    BY <2>1, GivesUp DEF PublishScan
<1>2. CASE msg' = [msg EXCEPT ![s] = "queued"]
  <2>1. Fate(s) = "unseen" /\ Fate(s)' = "accepted"
    BY <1>2 DEF PublishScan, Fate
  <2>2. \A t \in Scans \ {s} : Fate(t)' = Fate(t)
    BY <1>2 DEF PublishScan, Fate
  <2>3. Ledger!Accept(s)
    BY <2>1, <2>2, OneFate DEF PublishScan, Ledger!Accept
  <2> QED
    BY <2>3 DEF Ledger!Next
<1> QED
  BY <1>1, <1>2 DEF PublishScan

LEMMA HandleRefines ==
  ASSUME ScanInv, NEW s \in Scans, HandleScan(s)
  PROVE  Ledger!Next
<1>1. PICK o \in Outcomes : rows' = [rows EXCEPT ![s] = @ + o.n]
  BY DEF HandleScan
<1>2. o.n \in {0, 1, 2}
  BY DEF Outcomes, Outcome
<1>3. \A t \in Scans : Fate(t)' = Fate(t)
  BY DEF HandleScan, Fate
<1>4. CASE o.n = 0
  BY <1>1, <1>3, <1>4, GivesUp
<1>5. CASE o.n \in {1, 2}
  <2>1. Fate(s) = "accepted"
    BY DEF HandleScan, Fate
  <2>2. Ledger!Record(s)
    <3>1. \E n \in {1, 2} : rows' = [rows EXCEPT ![s] = @ + n]
      BY <1>1, <1>5
    <3>2. UNCHANGED [t \in Scans |-> Fate(t)]
      BY <1>3
    <3> QED
      BY <2>1, <3>1, <3>2 DEF Ledger!Record
  <2> QED
    BY <2>2 DEF Ledger!Next
<1> QED
  BY <1>2, <1>4, <1>5

LEMMA AckRefines ==
  ASSUME ScanInv, Ack
  PROVE  Ledger!Next
<1>1. PICK s \in Scans : s = cur
  BY DEF Ack
<1>2. loopAt = "ack" /\ s \in batch /\ rows[s] > 0
  BY <1>1 DEF Ack
<1>3. Fate(s) = "accepted"
  BY <1>2 DEF Fate
<1>4. CASE msg' = [msg EXCEPT ![cur] = "settled"] /\ Done
  <2>1. Fate(s)' = "settled"
    BY <1>1, <1>2, <1>4 DEF Fate, Ack, Done
  <2>2. \A t \in Scans \ {s} : Fate(t)' = Fate(t)
    BY <1>1, <1>2, <1>4 DEF Fate, Ack, Done
  <2>3. Ledger!Settle(s)
    BY <1>2, <1>3, <2>1, <2>2, OneFate DEF Ack, Ledger!Settle
  <2> QED
    BY <2>3 DEF Ledger!Next
<1>5. CASE UNCHANGED msg
  <2>1. \A t \in Scans : \/ Fate(t)' = Fate(t)
                         \/ Fate(t) = "accepted" /\ Fate(t)' = "abandoned"
    BY <1>1, <1>2, <1>5 DEF Fate, Ack, Done
  <2> QED
    BY <2>1, GivesUp DEF Ack
<1> QED
  BY <1>4, <1>5 DEF Ack

LEMMA NakRefines ==
  ASSUME ScanInv, Nak
  PROVE  Ledger!Next
<1>1. loopAt = "nak" /\ cur \in batch /\ cur \in Scans
  BY DEF Nak
<1>2. \A t \in Scans : \/ Fate(t)' = Fate(t)
                       \/ Fate(t) = "accepted" /\ Fate(t)' = "abandoned"
  BY <1>1 DEF Fate, Nak, Done, Requeued
<1> QED
  BY <1>2, GivesUp DEF Nak

LEMMA ExpiryRefines ==
  ASSUME ScanInv, NEW s \in Scans, AckWaitExpires(s)
  PROVE  Ledger!Next
<1>1. \A t \in Scans : \/ Fate(t)' = Fate(t)
                       \/ Fate(t) = "accepted" /\ Fate(t)' = "abandoned"
  BY DEF Fate, AckWaitExpires, Requeued
<1> QED
  BY <1>1, GivesUp DEF AckWaitExpires

LEMMA BatchLostRefines ==
  ASSUME ScanInv, LosesBatch, UNCHANGED <<task, queue, rows>>
  PROVE  Ledger!Next
<1>1. \A t \in Scans : \/ Fate(t)' = Fate(t)
                       \/ Fate(t) = "accepted" /\ Fate(t)' = "abandoned"
  BY DEF Fate, LosesBatch
<1> QED
  BY <1>1, GivesUp

(* Taking up messages and starting again change no fate.                   *)
LEMMA QuietRefines ==
  ASSUME ScanInv, Fetch \/ Restart \/ \E s \in Scans : OpenCard(s)
  PROVE  Ledger!Next
<1>1. CASE Fetch
  <2>1. \A t \in Scans : Fate(t)' = Fate(t)
    BY <1>1 DEF Fate, Fetch
  <2> QED
    BY <1>1, <2>1, GivesUp DEF Fetch
<1>2. CASE Restart \/ \E s \in Scans : OpenCard(s)
  <2>1. \A t \in Scans : Fate(t)' = Fate(t)
    BY <1>2 DEF Fate, Restart, OpenCard
  <2> QED
    BY <1>2, <2>1, GivesUp DEF Restart, OpenCard
<1> QED
  BY <1>1, <1>2

(* The pipeline implements the ledger: at least once, never silently.      *)
THEOREM Refinement == ScanSpec => ImplementsLedger
<1>1. ASSUME ScanInv, ScanNext
      PROVE  Ledger!Next
  <2>1. CASE \E s \in Scans : PublishScan(s) \/ AckWaitExpires(s) \/ HandleScan(s)
    BY <1>1, <2>1, PublishRefines, ExpiryRefines, HandleRefines
  <2>2. CASE Ack \/ Nak
    BY <1>1, <2>2, AckRefines, NakRefines
  <2>3. CASE Crash \/ ConnectionCloses
    BY <1>1, <2>3, BatchLostRefines DEF Crash, ConnectionCloses
  <2>4. CASE Fetch \/ Restart \/ \E s \in Scans : OpenCard(s)
    BY <1>1, <2>4, QuietRefines
  <2> QED
    BY <1>1, <2>1, <2>2, <2>3, <2>4 DEF ScanNext
<1>2. ASSUME UNCHANGED scanVars
      PROVE  UNCHANGED Ledger!ledger
  BY <1>2 DEF scanVars, Ledger!ledger, Fate
<1>3. ScanInv /\ [ScanNext]_scanVars => [Ledger!Next]_(Ledger!ledger)
  BY <1>1, <1>2
<1> QED
  BY LedgerInit, <1>3, ScanInvariance, PTL DEF ScanSpec, ImplementsLedger, Ledger!Spec
===============================================================================
