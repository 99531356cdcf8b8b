----------------------------- MODULE RateLimiter -----------------------------
(***************************************************************************)
(* The in-memory sliding-window limiter of an API process: one deque of    *)
(* acceptance times for each (scope, identifier), emptied from the left by *)
(* every check and by the hourly eviction. The lock is never held across   *)
(* an await, so that each method is one step.                              *)
(***************************************************************************)
EXTENDS Integers, Sequences

CONSTANTS
  Keys,     \* the (scope, identifier) pairs of one limiter
  Limit,    \* requests allowed in a window, for each key
  Window,   \* window_seconds of each key: 60, and 3600 for feedback
  MaxAge,   \* max_age_seconds of the eviction (3600)
  MaxLag,   \* bound of the model: time between the two clock reads of check
  MaxTime   \* bound of the model: when the clock stops

ASSUME LimiterAssumption ==
  /\ Limit \in [Keys -> Nat \ {0}]
  /\ MaxAge \in Nat /\ MaxLag \in Nat /\ MaxTime \in Nat
  /\ Window \in [Keys -> 0..MaxAge]

VARIABLES
  now,       \* time.monotonic()
  accepted,  \* history: the times at which each key was let through
  head       \* the deque of a key is accepted[k] from index head[k] on

vars == <<now, accepted, head>>

TypeOK ==
  /\ now \in Nat
  /\ accepted \in [Keys -> Seq(Nat)]
  /\ head \in [Keys -> Nat \ {0}]

Init ==
  /\ now = 0
  /\ accepted = [k \in Keys |-> <<>>]
  /\ head = [k \in Keys |-> 1]

-----------------------------------------------------------------------------
(* The popleft loop: the first times are dropped while they are older than *)
(* the cutoff; an exhausted deque and an absent key are the same.          *)
PopsTo(k, cutoff, f) ==
  /\ f \in head[k]..(Len(accepted[k]) + 1)
  /\ \A i \in head[k]..(f - 1) : accepted[k][i] < cutoff
  /\ f <= Len(accepted[k]) => accepted[k][f] >= cutoff

(* What is left in the deque from index f on.                              *)
Held(k, f) == Len(accepted[k]) - f + 1

(* A slip: `>' for `>='.                                                   *)
IsFullLate(k, f) == Held(k, f) > Limit[k]

(* A slip: the limit counts what was ever let through.                     *)
IsFullForEver(k, f) == Len(accepted[k]) >= Limit[k]

IsFull(k, f) == Held(k, f) >= Limit[k]

(* check: the cutoff is read from the clock before the lock is taken, the  *)
(* time that is appended after it.                                         *)
Check(k) ==
  \E f \in 1..(Len(accepted[k]) + 1), lag \in 0..MaxLag :
    /\ PopsTo(k, now - Window[k], f)
    /\ now + lag <= MaxTime
    /\ now' = now + lag
    /\ head' = [head EXCEPT ![k] = f]
    /\ accepted' = [accepted EXCEPT ![k] =
                      IF IsFull(k, f) THEN @ ELSE Append(@, now + lag)]

Expired == now - MaxAge

(* cleanup_expired, over all keys under one lock.                          *)
CleanupExpired ==
  /\ \E f \in [Keys -> UNION {1..(Len(accepted[k]) + 1) : k \in Keys}] :
       /\ \A k \in Keys : PopsTo(k, Expired, f[k])
       /\ head' = f
  /\ UNCHANGED <<now, accepted>>

Tick ==
  /\ now < MaxTime
  /\ now' = now + 1
  /\ UNCHANGED <<accepted, head>>

Next ==
  \/ \E k \in Keys : Check(k)
  \/ CleanupExpired
  \/ Tick

Spec == Init /\ [][Next]_vars

-----------------------------------------------------------------------------
(* No interval of Window[k] seconds, wherever it starts and whatever the   *)
(* eviction does meanwhile, contains more than Limit[k] accepted requests: *)
(* each comes more than Window[k] after the one Limit[k] before it.        *)
Spaced(k) ==
  \A i \in 1..Len(accepted[k]) :
    i + Limit[k] <= Len(accepted[k]) =>
      accepted[k][i + Limit[k]] - accepted[k][i] > Window[k]

WindowBound == \A k \in Keys : Spaced(k)

(* A request is refused only if Limit requests were accepted within the    *)
(* last Window seconds: waiting out the window always helps, and no        *)
(* eviction or earlier refusal counts against a client.                    *)
Refusal(k) == Check(k) /\ accepted'[k] = accepted[k]

RefusalJustified ==
  [][\A k \in Keys : Refusal(k) =>
       /\ Len(accepted[k]) >= Limit[k]
       /\ accepted[k][Len(accepted[k]) - Limit[k] + 1] >= now - Window[k]]_vars

(* The inductive invariant: times are in order, what has been dropped is   *)
(* out of every window still to come, and a deque holds Limit times.       *)
DequeInv(k) ==
  /\ head[k] <= Len(accepted[k]) + 1
  /\ Held(k, head[k]) <= Limit[k]
  /\ \A i \in 1..Len(accepted[k]) : accepted[k][i] <= now
  /\ \A i, j \in 1..Len(accepted[k]) : i <= j => accepted[k][i] <= accepted[k][j]
  /\ \A i \in 1..(head[k] - 1) : accepted[k][i] < now - Window[k]

IInv ==
  /\ TypeOK
  /\ WindowBound
  /\ \A k \in Keys : DequeInv(k)

=============================================================================
