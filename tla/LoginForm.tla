------------------------------ MODULE LoginForm ------------------------------
(***************************************************************************)
(* The login page: credentials, then a code or a recovery code when the    *)
(* server asks for a second step. One flag keeps two requests apart; the   *)
(* steps can be left while one is under way, and so can the page, whose    *)
(* handlers then go on without it.                                         *)
(***************************************************************************)
EXTENDS FiniteSets, Integers

CONSTANTS
  Persons,     \* the accounts one may log in with
  SecondStep,  \* those with a second step
  NoPerson,
  MaxAttempts  \* bound of the model: requests under way

ASSUME LoginAssumption ==
  /\ SecondStep \subseteq Persons /\ NoPerson \notin Persons /\ MaxAttempts \in Nat

(* What a request carries of the render that sent it: the account of its   *)
(* credentials or challenge, and the box "remember me". A request of a     *)
(* page that was left meanwhile is `orphan'.                               *)
Attempts == [step : {"credentials", "totp", "recovery"}, person : Persons,
             keep : BOOLEAN, orphan : BOOLEAN]

VARIABLES
  loginAt,    \* "login", "forgot" (another page) or "admin" (signed in)
  loginStep,  \* step
  challengeOf,   \* challengeToken, named by its account
  isLoading, remember,
  attempts,   \* requests under way
  keptIn,     \* useSessionStorage of the store is off
  person,     \* whom the tokens of the store are of
  askedFor,   \* history: whose credentials were sent last
  orphaned    \* history: the page was left while a request was under way

loginVars == <<loginAt, loginStep, challengeOf, isLoading, remember, attempts, keptIn, person,
               askedFor, orphaned>>

LoginTypeOK ==
  /\ loginAt \in {"login", "forgot", "admin"}
  /\ loginStep \in {"credentials", "totp", "recovery"}
  /\ {challengeOf, person, askedFor} \subseteq Persons \cup {NoPerson}
  /\ {isLoading, remember, keptIn, orphaned} \subseteq BOOLEAN
  /\ attempts \subseteq Attempts

(* What the next mount of the page starts with.                            *)
Mounted ==
  loginStep' = "credentials" /\ challengeOf' = NoPerson /\ isLoading' = FALSE /\ remember' = TRUE

LoginInit ==
  /\ loginAt = "login" /\ loginStep = "credentials" /\ challengeOf = NoPerson
  /\ isLoading = FALSE /\ remember = TRUE
  /\ attempts = {} /\ keptIn \in BOOLEAN /\ person = NoPerson
  /\ askedFor = NoPerson /\ orphaned = FALSE

(* A slip: the button stays while a request is under way.                  *)
SubmitsAlways == loginAt = "login"

MaySubmitLogin == loginAt = "login" /\ ~isLoading

KeptUntilAnswer == keptIn

Sending(p) ==
  /\ MaySubmitLogin /\ Cardinality(attempts) < MaxAttempts
  /\ isLoading' = TRUE /\ keptIn' = KeptUntilAnswer
  /\ attempts' = attempts \cup
       {[step |-> loginStep, person |-> p, keep |-> remember, orphan |-> FALSE]}

CredentialsSent ==
  /\ loginStep = "credentials"
  /\ \E p \in Persons : Sending(p) /\ askedFor' = p
  /\ UNCHANGED <<loginAt, loginStep, challengeOf, remember, person, orphaned>>

(* A code, or a recovery code.                                             *)
CodeSent ==
  /\ loginStep # "credentials" /\ Sending(challengeOf)
  /\ UNCHANGED <<loginAt, loginStep, challengeOf, remember, person, askedFor, orphaned>>

RememberToggled ==
  /\ loginAt = "login" /\ loginStep = "credentials" /\ remember' = ~remember
  /\ UNCHANGED <<loginAt, loginStep, challengeOf, isLoading, attempts, keptIn, person, askedFor,
                 orphaned>>

(* The buttons between the steps do not wait for a request under way.      *)
StepChanged ==
  /\ loginAt = "login"
  /\ \/ loginStep = "totp" /\ loginStep' \in {"credentials", "recovery"}
     \/ loginStep = "recovery" /\ loginStep' = "totp"
  /\ UNCHANGED <<loginAt, challengeOf, isLoading, remember, attempts, keptIn, person, askedFor,
                 orphaned>>

Finally(q) ==
  /\ q \in attempts /\ attempts' = attempts \ {q}
  /\ isLoading' = IF q.orphan THEN isLoading ELSE FALSE

(* Wrong credentials, a wrong code, an expired challenge, no connection.   *)
Refused(q) ==
  /\ Finally(q)
  /\ UNCHANGED <<loginAt, loginStep, challengeOf, remember, keptIn, person, askedFor, orphaned>>

ChallengeReceived(q) ==
  /\ q.step = "credentials" /\ q.person \in SecondStep
  /\ Finally(q)
  /\ IF q.orphan THEN UNCHANGED <<loginStep, challengeOf>>
     ELSE loginStep' = "totp" /\ challengeOf' = q.person
  /\ UNCHANGED <<loginAt, remember, keptIn, person, askedFor, orphaned>>

Orphans(qs) == {[q EXCEPT !.orphan = TRUE] : q \in qs}

(* applyTokens, of a page that is gone as well.                            *)
TokensReceived(q) ==
  /\ q.step = "credentials" => q.person \notin SecondStep
  /\ q \in attempts /\ attempts' = Orphans(attempts \ {q})
  /\ keptIn' = q.keep /\ person' = q.person /\ loginAt' = "admin"
  /\ Mounted /\ UNCHANGED <<askedFor, orphaned>>

(* The link to the recovery of the password or the browser's way back, and *)
(* the return.                                                             *)
PageLeft ==
  /\ loginAt = "login" /\ loginAt' = "forgot"
  /\ attempts' = Orphans(attempts)
  /\ orphaned' = (orphaned \/ attempts # {})
  /\ Mounted /\ UNCHANGED <<keptIn, person, askedFor>>

PageReopened ==
  /\ loginAt = "forgot" /\ loginAt' = "login"
  /\ UNCHANGED <<loginStep, challengeOf, isLoading, remember, attempts, keptIn, person, askedFor,
                 orphaned>>

LoginNext ==
  \/ CredentialsSent \/ CodeSent \/ RememberToggled \/ StepChanged \/ PageLeft \/ PageReopened
  \/ \E q \in attempts : Refused(q) \/ ChallengeReceived(q) \/ TokensReceived(q)

LoginSpec == LoginInit /\ [][LoginNext]_loginVars

-----------------------------------------------------------------------------
(* One is signed in as whom one asked for last, and the code one is asked  *)
(* for belongs to that login: answers of earlier attempts do not come in   *)
(* between, unless the page was left while one of them was under way.      *)
SignedInAsAsked ==
  ~orphaned =>
    /\ person \in {NoPerson, askedFor}
    /\ loginStep # "credentials" => challengeOf = askedFor

(* An attempt that fails does not change where the session is kept: the    *)
(* choice is applied together with the tokens, and is that of the attempt  *)
(* that got them.                                                          *)
FailureKeepsStorage ==
  keptIn' # keptIn =>
    \E q \in attempts : q \notin attempts' /\ person' = q.person /\ keptIn' = q.keep
                        /\ loginAt' = "admin"

=============================================================================
