----------------------------- MODULE MCSessions -----------------------------
(***************************************************************************)
(* The sessions of one account: the tokens of the sessions that are open,  *)
(* and the logins that open them with what they rest on. The two share no  *)
(* column: a behaviour exercises one of them while the other rests.        *)
(***************************************************************************)
EXTENDS RefreshTokens, SecondFactor, TLC

Symmetry == Permutations(Slots)

\* A second enrolment or activation happens where nobody logs in.
SettingUp ==
  /\ clock = 1 /\ challenges = <<>> /\ acct.fails = 0
  /\ \A s \in Logins : attempt[s].kind \notin {"password", "totp", "recovery"}

TokenSteps  == FactorInit /\ enrolments = 0 /\ Next /\ UNCHANGED factorVars
\* A second challenge is issued where no attempt fails.
NoneFails ==
  acct.fails = 0 /\ \A s \in Logins : attempt[s].at # "fail"

FactorSteps ==
  /\ Init /\ FactorNext /\ UNCHANGED vars
  /\ (enrolments' < 2 /\ activations' < 2) \/ SettingUp'
  /\ Len(challenges') < 2 \/ NoneFails'

SessionsInit == Init /\ FactorInit
SessionsNext == TokenSteps \/ FactorSteps
SessionsSpec == SessionsInit /\ [][SessionsNext]_<<vars, factorVars>>

=============================================================================
