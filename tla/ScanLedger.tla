----------------------------- MODULE ScanLedger -----------------------------
(***************************************************************************)
(* What counting scans promises, whatever carries it out: a scan that was  *)
(* accepted is settled once it has been recorded at least once, or is      *)
(* given up without ever having been recorded as settled; after that it is *)
(* not recorded again. At-least-once, and never silently.                  *)
(***************************************************************************)
EXTENDS Naturals

CONSTANT Scans

VARIABLES
  fate,      \* of each scan: "unseen", "accepted", "settled" or "abandoned"
  recorded   \* how many rows count it

ledger == <<fate, recorded>>

Init ==
  /\ fate = [s \in Scans |-> "unseen"]
  /\ recorded = [s \in Scans |-> 0]

Accept(s) ==
  /\ fate[s] = "unseen"
  /\ fate' = [fate EXCEPT ![s] = "accepted"]
  /\ UNCHANGED recorded

(* One execution of the INSERT, or two when its first answer was lost.     *)
Record(s) ==
  /\ fate[s] = "accepted"
  /\ \E n \in {1, 2} : recorded' = [recorded EXCEPT ![s] = @ + n]
  /\ UNCHANGED fate

Settle(s) ==
  /\ fate[s] = "accepted"
  /\ recorded[s] > 0
  /\ fate' = [fate EXCEPT ![s] = "settled"]
  /\ UNCHANGED recorded

(* Several scans may be given up at once: a worker dies with a batch.      *)
Abandon(S) ==
  /\ \A s \in S : fate[s] = "accepted"
  /\ fate' = [s \in Scans |-> IF s \in S THEN "abandoned" ELSE fate[s]]
  /\ UNCHANGED recorded

Next ==
  \/ \E s \in Scans : Accept(s) \/ Record(s) \/ Settle(s)
  \/ \E S \in SUBSET Scans : Abandon(S)

Spec == Init /\ [][Next]_ledger

=============================================================================
