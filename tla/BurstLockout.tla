----------------------------- MODULE BurstLockout -----------------------------
(***************************************************************************)
(* NotFoundBurstLockout as the public card pages use it. A request asks    *)
(* is_blocked, then awaits the look-up of the card, and only then records  *)
(* its 404 or, having shown a card, resets the address: requests of one    *)
(* address that overlap do so in any order. The lock is never held across  *)
(* an await, so that each method is one step.                              *)
(***************************************************************************)
EXTENDS Integers, Sequences

CONSTANTS
  Ips,        \* client addresses
  Slots,      \* requests in flight at a time
  Threshold,  \* threshold (50)
  BurstWindow,     \* window_seconds (300)
  Block,      \* block_seconds (1800)
  MaxMisses,  \* bound of the model: counted 404s of an address
  BurstEnd     \* bound of the model: when the clock stops

ASSUME LockoutAssumption ==
  /\ Threshold \in Nat \ {0}
  /\ BurstWindow \in Nat /\ Block \in Nat
  /\ MaxMisses \in Nat /\ BurstEnd \in Nat

VARIABLES
  clock,     \* time.monotonic()
  misses,  \* history: the times of the 404s counted for each address
  oldest,    \* _hits of an address is misses[i] from index head[i] on
  until,   \* _blocked_until, 0 where there is no entry
  pc, ip,  \* the requests in flight
  spent,   \* history: misses forgiven by a reset or answered by a block
  early    \* history: requests that were in flight when a block began

burstVars == <<clock, misses, oldest, until, pc, ip, spent, early>>

BurstTypeOK ==
  /\ clock \in Nat
  /\ misses \in [Ips -> Seq(Nat)]
  /\ oldest \in [Ips -> Nat \ {0}]
  /\ until \in [Ips -> Nat]
  /\ pc \in [Slots -> {"idle", "looking"}]
  /\ ip \in [Slots -> Ips]
  /\ spent \in [Ips -> Nat]
  /\ early \subseteq Slots

BurstInit ==
  /\ clock = 0
  /\ misses = [i \in Ips |-> <<>>]
  /\ oldest = [i \in Ips |-> 1]
  /\ until = [i \in Ips |-> 0]
  /\ pc = [s \in Slots |-> "idle"]
  /\ ip \in [Slots -> Ips]
  /\ spent = [i \in Ips |-> 0]
  /\ early = {}

-----------------------------------------------------------------------------
InFlight(i) == {s \in Slots : pc[s] = "looking" /\ ip[s] = i}

(* is_blocked: the entry of a block that is over is deleted.               *)
Admits(i) == clock >= until[i]

Enter(s, i) ==
  /\ pc[s] = "idle"
  /\ Admits(i)
  /\ until' = [until EXCEPT ![i] = 0]
  /\ pc' = [pc EXCEPT ![s] = "looking"]
  /\ ip' = [ip EXCEPT ![s] = i]
  /\ early' = early \ {s}
  /\ UNCHANGED <<clock, misses, oldest, spent>>

(* is_blocked lets the request pass and the rate limiter refuses it.       *)
EnterLimited(i) ==
  /\ Admits(i)
  /\ until' = [until EXCEPT ![i] = 0]
  /\ UNCHANGED <<clock, misses, oldest, pc, ip, spent, early>>

Leave(s) == pc' = [pc EXCEPT ![s] = "idle"]

-----------------------------------------------------------------------------
(* record_404                                                              *)

(* The popleft loop, up to index f.                                        *)
MissesPopTo(i, f) ==
  /\ f \in oldest[i]..(Len(misses[i]) + 1)
  /\ \A j \in oldest[i]..(f - 1) : misses[i][j] < clock - BurstWindow
  /\ f <= Len(misses[i]) => misses[i][f] >= clock - BurstWindow

(* A slip: `>' for `>=', the new hit left out.                             *)
IsBurstLate(i, f) == Len(misses[i]) - f + 1 >= Threshold

(* The hits from f on and the new one reach the threshold.                 *)
IsBurst(i, f) == Len(misses[i]) - f + 2 >= Threshold

(* A 404 of an address that another request got blocked: the block starts  *)
(* anew.                                                                   *)
MissBlocked(s) ==
  LET i == ip[s]
  IN /\ pc[s] = "looking"
     /\ until[i] > clock
     /\ until' = [until EXCEPT ![i] = IF @ > clock + Block THEN @ ELSE clock + Block]
     /\ Leave(s)
     /\ UNCHANGED <<clock, misses, oldest, ip, spent, early>>

(* Any other 404 is counted, and a burst turned into a block.              *)
Miss(s) ==
  LET i == ip[s]
      n == Len(misses[i]) + 1
  IN /\ pc[s] = "looking"
     /\ until[i] <= clock
     /\ n <= MaxMisses
     /\ misses' = [misses EXCEPT ![i] = Append(@, clock)]
     /\ \E f \in 1..n :
          /\ MissesPopTo(i, f)
          /\ IF IsBurst(i, f)
               THEN /\ until' = [until EXCEPT ![i] = clock + Block]
                    /\ oldest' = [oldest EXCEPT ![i] = n + 1]
                    /\ spent' = [spent EXCEPT ![i] = n]
                    /\ early' = early \cup InFlight(i)
               ELSE /\ oldest' = [oldest EXCEPT ![i] = f]
                    /\ UNCHANGED <<until, spent, early>>
     /\ Leave(s)
     /\ UNCHANGED <<clock, ip>>

-----------------------------------------------------------------------------
(* A slip: reset lifts the block and keeps the hits.                       *)
ResetHeadKept(i) == oldest[i]

ResetHead(i) == Len(misses[i]) + 1

(* reset, for a page that shows an active card.                            *)
Show(s) ==
  LET i == ip[s]
  IN /\ pc[s] = "looking"
     /\ oldest' = [oldest EXCEPT ![i] = ResetHead(i)]
     /\ until' = [until EXCEPT ![i] = 0]
     /\ spent' = [spent EXCEPT ![i] = Len(misses[i])]
     /\ Leave(s)
     /\ UNCHANGED <<clock, misses, ip, early>>

(* An inactive card, an og image, or an error of the look-up.              *)
Answer(s) ==
  /\ pc[s] = "looking"
  /\ Leave(s)
  /\ UNCHANGED <<clock, misses, oldest, until, ip, spent, early>>

BurstTick ==
  /\ clock < BurstEnd
  /\ clock' = clock + 1
  /\ UNCHANGED <<misses, oldest, until, pc, ip, spent, early>>

BurstNext ==
  \/ \E s \in Slots :
       \/ \E i \in Ips : Enter(s, i)
       \/ MissBlocked(s) \/ Miss(s) \/ Show(s) \/ Answer(s)
  \/ \E i \in Ips : EnterLimited(i)
  \/ BurstTick

BurstSpec == BurstInit /\ [][BurstNext]_burstVars

-----------------------------------------------------------------------------
(* No burst goes unanswered: Threshold 404s within Window seconds, none of *)
(* them forgiven by a card that was shown or answered by a block already,  *)
(* have blocked the address, whatever the order of overlapping requests.   *)
BurstsAnswered ==
  \A i \in Ips : \A j \in (spent[i] + 1)..(Len(misses[i]) - Threshold + 1) :
    misses[i][j + Threshold - 1] - misses[i][j] > BurstWindow

(* A block begins only with Threshold 404s of the address within the last  *)
(* Window seconds, all of them after its last card and its last block: a   *)
(* visitor who finds cards is not blocked for old misses.                  *)
Begins(i) == until[i] <= clock /\ until'[i] > clock'

BlockJustified ==
  [][\A i \in Ips : Begins(i) =>
       LET first == Len(misses'[i]) - Threshold + 1
       IN first > spent[i] /\ misses'[i][first] >= clock - BurstWindow]_burstVars

(* A running block is prolonged or lifted only by a request that had been  *)
(* admitted before the block began: nobody comes in during a block.        *)
Moves(i) == until[i] > clock /\ until'[i] # until[i]

BlockHolds ==
  [][\A i \in Ips : Moves(i) =>
       \E s \in InFlight(i) : s \in early /\ pc'[s] = "idle"]_burstVars

(* No address is blocked for what has been forgiven, and no request that   *)
(* comes in during a block moves its end.                                  *)
BlocksAreFair == BlockJustified /\ BlockHolds

(* The inductive invariant: a deque holds fewer than Threshold times, what *)
(* has been dropped is forgiven, answered or out of the window, a block    *)
(* ends within Block seconds, and who is in flight during it came early.   *)
HitsInv(i) ==
  /\ spent[i] < oldest[i]
  /\ oldest[i] <= Len(misses[i]) + 1
  /\ Len(misses[i]) - oldest[i] + 1 < Threshold
  /\ \A j \in 1..Len(misses[i]) : misses[i][j] <= clock
  /\ \A j, k \in 1..Len(misses[i]) : j <= k => misses[i][j] <= misses[i][k]
  /\ \A j \in (spent[i] + 1)..(oldest[i] - 1) : misses[i][j] < clock - BurstWindow

BlockInv(i) ==
  /\ until[i] <= clock + Block
  /\ until[i] > clock => InFlight(i) \subseteq early

BurstInv ==
  /\ BurstTypeOK
  /\ BurstsAnswered
  /\ \A i \in Ips : HitsInv(i)
  /\ \A i \in Ips : BlockInv(i)

=============================================================================
