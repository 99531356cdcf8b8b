---------------------------- MODULE MCPublicPages ----------------------------
(***************************************************************************)
(* What a request for a public page meets: a limiter shared by two scopes, *)
(* as public_scan_limiter is (`scan' has a window shorter than max_age,    *)
(* `feedback' one of exactly max_age), the lockout of two addresses, and   *)
(* the queue that carries the page views to the database. The three share  *)
(* nothing but the clock, so that a behaviour exercises one of them while  *)
(* the others rest.                                                        *)
(***************************************************************************)
EXTENDS RateLimiter, BurstLockout, MCScanPipeline

CONSTANTS scan, feedback

ScopeKeys == {scan, feedback}
ScopeLimit == [k \in ScopeKeys |-> IF k = scan THEN 2 ELSE 1]
ScopeWindow == [k \in ScopeKeys |-> IF k = scan THEN 2 ELSE MaxAge]

Symmetry == Permutations(Slots) \cup Permutations(Ips) \cup Interchangeable

\* Addresses are given to the requests at first, which the others need once.
OneAddress == \A r, q \in Slots : ip[r] = ip[q]

LimiterSteps == BurstInit /\ OneAddress /\ ScanInit /\ Next /\ UNCHANGED <<burstVars, scanVars>>
LockoutSteps == Init /\ ScanInit /\ BurstNext /\ UNCHANGED <<vars, scanVars>>
ScanSteps    == Init /\ BurstInit /\ OneAddress /\ ScanNext /\ UNCHANGED <<vars, burstVars>>

PublicInit == Init /\ BurstInit /\ ScanInit
PublicNext == LimiterSteps \/ LockoutSteps \/ ScanSteps
PublicSpec == PublicInit /\ [][PublicNext]_<<vars, burstVars, scanVars>>

=============================================================================
