---------------------------- MODULE SecondFactor ----------------------------
(***************************************************************************)
(* The second step of a login and what it rests on, for one account:       *)
(* passwords, codes of an authenticator and recovery codes, the lock after *)
(* failed attempts, the activation of the second factor and its removal,   *)
(* and the page that sets it up. Every repository call of auth_service is  *)
(* a step; up to Cardinality(Logins) requests are under way at a time.     *)
(*                                                                         *)
(* A secret is the number of its enrolment and a code of the authenticator *)
(* the pair of a secret and a step of thirty seconds. What the requests'   *)
(* limiter refuses ends them, as a failure of the database does (GivenUp). *)
(***************************************************************************)
EXTENDS Integers, FiniteSets, Sequences

CONSTANTS
  Logins,         \* requests under way at a time
  MaxFails,       \* max_attempts of increment_failed_login
  LockSteps,      \* lockout_minutes, in whole steps of the clock after the present one
  Life,           \* five minutes of a challenge, likewise
  CodeCount,      \* recovery codes of an activation
  MaxClock, MaxChallenges, MaxEnrolments, MaxActivations   \* bounds of the model

ASSUME FactorAssumption ==
  /\ IsFiniteSet(Logins)
  /\ MaxFails \in Nat \ {0, 1}
  /\ {CodeCount, MaxClock, MaxEnrolments, MaxActivations} \subseteq Nat \ {0}
  /\ {LockSteps, Life, MaxChallenges} \subseteq Nat

VARIABLES
  clock,        \* current_totp_step
  acct,         \* the row of users
  challenges,   \* the rows of login_challenges, in the order of their creation
  attempt,      \* the requests under way
  enrolments, activations,   \* secrets and sets of recovery codes made so far
  setup,        \* the state of the setup page
  used, twice,  \* history: what has opened a session, what has opened two
  rewound,      \* history: secrets of which a step was accepted that the row forgot
  mixed         \* history: the factor was changed by others since the page enrolled

factorVars == <<clock, acct, challenges, attempt, enrolments, activations, setup, used, twice,
                rewound, mixed>>
counters   == <<clock, enrolments, activations>>
sessions   == <<used, twice>>
pageVars   == <<setup, mixed>>

CodesOf(g) == IF g = 0 THEN {} ELSE {<<"code", g, n>> : n \in 1..CodeCount}

(* What each kind of request uses of the user it has read; recovery_codes  *)
(* is NULL unless the factor is enabled.                                   *)
NoSnapshot == [secret |-> 0, enabled |-> FALSE, codes |-> {}, last |-> 0]
Snapshot(kind) ==
  CASE kind = "totp" -> [NoSnapshot EXCEPT !.secret = acct.secret, !.last = acct.last]
    [] kind = "recovery" -> [NoSnapshot EXCEPT !.enabled = acct.enabled, !.codes = acct.codes]
    [] OTHER -> [NoSnapshot EXCEPT !.enabled = acct.enabled]

Idle == [at |-> "idle", kind |-> "none", user |-> NoSnapshot, challenge |-> 0, match |-> <<>>,
         page |-> FALSE]

(* The account has its first secret and codes, or none yet.                *)
FactorInit ==
  /\ clock = 1
  /\ challenges = <<>>
  /\ attempt = [s \in Logins |-> Idle]
  /\ enrolments \in {0, 1} /\ activations = enrolments
  /\ acct = [secret |-> enrolments, enabled |-> enrolments = 1, codes |-> CodesOf(activations),
             last |-> enrolments, fails |-> 0, until |-> 0]
  /\ setup = [step |-> "start", secret |-> 0, shown |-> 0, busy |-> FALSE]
  /\ used = {} /\ twice = {} /\ rewound = {} /\ mixed = FALSE

-----------------------------------------------------------------------------
(* The course of a request                                                 *)

At(s, call) == attempt[s].at = call
Starts(s, a) == At(s, "idle") /\ attempt' = [attempt EXCEPT ![s] = a]
Continues(s, call) == attempt' = [attempt EXCEPT ![s].at = call]
Decided(s, call) == attempt' = [attempt EXCEPT ![s].at = call, ![s].user = NoSnapshot]
Ends(s) == attempt' = [attempt EXCEPT ![s] = Idle]
Matches(s, code, call) ==
  attempt' = [attempt EXCEPT ![s].at = call, ![s].match = code, ![s].user = NoSnapshot]

(* The page learns of the end of its own request, unless it was left.      *)
PageHears(s, answer) ==
  setup' = IF attempt[s].page THEN [answer EXCEPT !.busy = FALSE] ELSE setup

(* An exception, a refusal of the limiter, or an answer that never comes.  *)
GivenUp(s) ==
  /\ ~At(s, "idle")
  /\ Ends(s) /\ PageHears(s, setup)
  /\ UNCHANGED <<counters, acct, challenges, sessions, rewound, mixed>>

ClockTicks ==
  /\ clock < MaxClock /\ clock' = clock + 1
  /\ UNCHANGED <<acct, challenges, attempt, enrolments, activations, sessions, pageVars, rewound>>

-----------------------------------------------------------------------------
(* Login                                                                   *)

PasswordLogin(s) ==
  /\ Starts(s, [Idle EXCEPT !.at = "lock", !.kind = "password", !.user = Snapshot("password")])
  /\ UNCHANGED <<counters, acct, challenges, sessions, pageVars, rewound>>

Open(c) == ~challenges[c].consumed /\ challenges[c].until >= clock

(* The challenge is looked up, then the user.                              *)
SecondStep(s) ==
  /\ \E c \in 1..Len(challenges), k \in {"totp", "recovery"} :
       Open(c) /\ Starts(s, [Idle EXCEPT !.at = "user", !.kind = k, !.challenge = c])
  /\ UNCHANGED <<counters, acct, challenges, sessions, pageVars, rewound>>

UserRead(s) ==
  /\ At(s, "user")
  /\ IF attempt[s].kind = "totp" /\ acct.secret = 0 THEN Ends(s)
     ELSE attempt' = [attempt EXCEPT ![s].at = "lock", ![s].user = Snapshot(attempt[s].kind)]
  /\ UNCHANGED <<counters, acct, challenges, sessions, pageVars, rewound>>

(* `until' is the last step of a lock; the instant at which it equals now()*)
(* and is neither locked nor over is left out.                             *)
IsLocked == acct.until # 0 /\ acct.until >= clock

(* is_locked, and the password of a first step.                            *)
LockChecked(s) ==
  LET a == attempt[s] IN
  /\ At(s, "lock")
  /\ IF IsLocked THEN Ends(s)
     ELSE CASE a.kind = "totp" -> Continues(s, "judge")
            [] a.kind = "recovery" -> IF a.user.enabled THEN Continues(s, "judge") ELSE Ends(s)
            [] OTHER -> \/ Decided(s, "fail")
                        \/ Decided(s, IF a.user.enabled THEN "challenge" ELSE "reset")
  /\ UNCHANGED <<counters, acct, challenges, sessions, pageVars, rewound>>

ChallengeIssued(s) ==
  /\ At(s, "challenge") /\ Len(challenges) < MaxChallenges
  /\ challenges' = Append(challenges, [consumed |-> FALSE, until |-> clock + Life])
  /\ Ends(s)
  /\ UNCHANGED <<counters, acct, sessions, pageVars, rewound>>

(* The steps verify_totp_step compares a code with.                        *)
Window == {t \in clock - 1 .. clock + 1 : t > 0}

(* A slip: the step is written without a look at the row.                  *)
AdvancesAlways(t) == TRUE

(* advance_totp_step finds the row; a NULL is 0.                           *)
Advances(t) == acct.last < t

(* A wrong code, or one whose step the snapshot rules out, is a failure; so*)
(* is a code that another request has used meanwhile.                      *)
CodeJudged(s) ==
  LET a == attempt[s] IN
  /\ At(s, "judge") /\ a.kind = "totp"
  /\ \/ Decided(s, "fail") /\ UNCHANGED acct
     \/ \E t \in Window :
          /\ t > a.user.last
          /\ IF Advances(t)
               THEN /\ acct' = [acct EXCEPT !.last = t]
                    /\ Matches(s, <<"totp", a.user.secret, t>>, "look")
               ELSE Decided(s, "fail") /\ UNCHANGED acct
  /\ UNCHANGED <<counters, challenges, sessions, pageVars, rewound>>

(* consume_recovery_code removes the code of the snapshot if it is still   *)
(* there; if not, nothing is counted.                                      *)
RecoveryJudged(s) ==
  LET a == attempt[s] IN
  /\ At(s, "judge") /\ a.kind = "recovery"
  /\ \/ Decided(s, "fail") /\ UNCHANGED acct
     \/ \E c \in a.user.codes :
          IF c \in acct.codes
            THEN /\ acct' = [acct EXCEPT !.codes = @ \ {c}]
                 /\ Matches(s, c, "look")
            ELSE Ends(s) /\ UNCHANGED acct
  /\ UNCHANGED <<counters, challenges, sessions, pageVars, rewound>>

(* A slip: a lock that is over does not start the count anew.              *)
CountsOn == acct.fails + 1

LockIsOver == acct.until # 0 /\ acct.until < clock

Counted == IF LockIsOver THEN 1 ELSE acct.fails + 1

LockedUntil ==
  IF LockIsOver THEN 0
    ELSE IF acct.fails + 1 >= MaxFails THEN clock + LockSteps ELSE acct.until

FailureCounted(s) ==
  /\ At(s, "fail")
  /\ acct' = [acct EXCEPT !.fails = Counted, !.until = LockedUntil]
  /\ Ends(s)
  /\ UNCHANGED <<counters, challenges, sessions, pageVars, rewound>>

(* consume reads the challenge and updates it in two transactions. A login *)
(* by recovery code goes on whatever it answers.                           *)
ChallengeRead(s) ==
  /\ At(s, "look")
  /\ IF Open(attempt[s].challenge) THEN Continues(s, "mark")
     ELSE IF attempt[s].kind = "recovery" THEN Continues(s, "reset") ELSE Ends(s)
  /\ UNCHANGED <<counters, acct, challenges, sessions, pageVars, rewound>>

ChallengeConsumed(s) ==
  LET c == attempt[s].challenge IN
  /\ At(s, "mark")
  /\ challenges' = [challenges EXCEPT ![c].consumed = TRUE]
  /\ IF ~challenges[c].consumed \/ attempt[s].kind = "recovery" THEN Continues(s, "reset")
     ELSE Ends(s)
  /\ UNCHANGED <<counters, acct, sessions, pageVars, rewound>>

FailuresReset(s) ==
  /\ At(s, "reset")
  /\ acct' = [acct EXCEPT !.fails = 0, !.until = 0]
  /\ Continues(s, "issue")
  /\ UNCHANGED <<counters, challenges, sessions, pageVars, rewound>>

(* What the session that is opened uses up: the code, and the challenge if *)
(* it was answered by the authenticator.                                   *)
Credentials(a) ==
  (IF a.match = <<>> THEN {} ELSE {a.match})
    \cup (IF a.kind = "totp" THEN {<<"challenge", a.challenge>>} ELSE {})

SessionOpened(s) ==
  LET mine == Credentials(attempt[s]) IN
  /\ At(s, "issue")
  /\ used' = used \cup mine
  /\ twice' = twice \cup (mine \cap used)
  /\ Ends(s)
  /\ UNCHANGED <<counters, acct, challenges, pageVars, rewound>>

-----------------------------------------------------------------------------
(* The factor and the page that sets it up                                 *)

(* A slip: a click counts while a request is under way.                    *)
ReadyAlways == TRUE

Ready == ~setup.busy

(* The codes of the authenticator that have been accepted, of which a step *)
(* after the one that the row is to have may be accepted again. A request  *)
(* that has read the user brings the code of a secret that is replaced.    *)
Accepted == {c \in used \cup {attempt[s].match : s \in Logins} : c # <<>> /\ c[1] = "totp"}
Forgets(last) == rewound' = rewound \cup {c[2] : c \in {d \in Accepted : d[3] > last}}

(* Whoever writes the four columns makes them forget the last step.        *)
Rewrites(secret, enabled, codes) ==
  /\ acct' = [acct EXCEPT !.secret = secret, !.enabled = enabled, !.codes = codes, !.last = 0]
  /\ Forgets(0)

(* totp_enroll reads the user; a factor that is enabled is a conflict.     *)
EnrollClicked(s) ==
  /\ setup.step = "start" /\ Ready /\ ~acct.enabled
  /\ Starts(s, [Idle EXCEPT !.at = "enroll", !.kind = "enroll", !.page = TRUE])
  /\ setup' = [setup EXCEPT !.busy = TRUE]
  /\ UNCHANGED <<counters, acct, challenges, sessions, rewound, mixed>>

SecretStored(s) ==
  /\ At(s, "enroll") /\ enrolments < MaxEnrolments
  /\ enrolments' = enrolments + 1
  /\ Rewrites(enrolments + 1, FALSE, {})
  /\ mixed' = ~attempt[s].page
  /\ Ends(s)
  /\ \/ PageHears(s, setup)
     \/ PageHears(s, [setup EXCEPT !.step = "scan", !.secret = enrolments + 1])
  /\ UNCHANGED <<clock, activations, challenges, sessions>>

(* totp_verify compares the code, which is one of the secret on the page,  *)
(* with the secret of the row; any other is refused and changes nothing.   *)
VerifyClicked(s) ==
  /\ setup.step = "scan" /\ Ready
  /\ acct.secret = setup.secret /\ ~acct.enabled
  /\ \E t \in Window :
       Starts(s, [Idle EXCEPT !.at = "enable", !.kind = "verify", !.page = TRUE,
                              !.user = [NoSnapshot EXCEPT !.secret = acct.secret, !.last = t]])
  /\ setup' = [setup EXCEPT !.busy = TRUE]
  /\ UNCHANGED <<counters, acct, challenges, sessions, rewound, mixed>>

FactorEnabled(s) ==
  LET a == attempt[s] IN
  /\ At(s, "enable") /\ activations < MaxActivations
  /\ activations' = activations + 1
  /\ Rewrites(a.user.secret, TRUE, CodesOf(activations + 1))
  /\ attempt' = [attempt EXCEPT ![s].at = "step", ![s].challenge = activations + 1]
  /\ mixed' = (mixed \/ ~a.page)
  /\ UNCHANGED <<clock, enrolments, challenges, sessions, setup>>

(* set_last_totp_step writes unconditionally; the answer has the codes.    *)
StepStored(s) ==
  LET a == attempt[s] IN
  /\ At(s, "step")
  /\ acct' = [acct EXCEPT !.last = a.user.last]
  /\ Forgets(a.user.last)
  /\ Ends(s)
  /\ \/ PageHears(s, setup)
     \/ PageHears(s, [setup EXCEPT !.step = "done", !.shown = a.challenge])
  /\ UNCHANGED <<counters, challenges, sessions, mixed>>

(* totp_disable wants the password and a code, whose step it does not      *)
(* store; reset_2fa of a super admin wants nothing.                        *)
DisableAsked(s) ==
  /\ acct.enabled /\ \E t \in Window : t > acct.last
  /\ Starts(s, [Idle EXCEPT !.at = "clear", !.kind = "clear"])
  /\ UNCHANGED <<counters, acct, challenges, sessions, pageVars, rewound>>

AdminResets(s) ==
  /\ Starts(s, [Idle EXCEPT !.at = "clear", !.kind = "clear"])
  /\ UNCHANGED <<counters, acct, challenges, sessions, pageVars, rewound>>

FactorCleared(s) ==
  /\ At(s, "clear")
  /\ Rewrites(0, FALSE, {})
  /\ mixed' = TRUE
  /\ Ends(s)
  /\ UNCHANGED <<counters, challenges, sessions, setup>>

(* The page is left and opened again, or its request runs into an error    *)
(* that the server does not notice: the answer finds nobody.               *)
Orphaned == [s \in Logins |-> [attempt[s] EXCEPT !.page = FALSE]]

SetupLeft ==
  /\ setup' = [step |-> "start", secret |-> 0, shown |-> 0, busy |-> FALSE]
  /\ attempt' = Orphaned
  /\ UNCHANGED <<counters, acct, challenges, sessions, rewound, mixed>>

SetupErrs ==
  /\ setup.busy /\ setup' = [setup EXCEPT !.busy = FALSE]
  /\ attempt' = Orphaned
  /\ UNCHANGED <<counters, acct, challenges, sessions, rewound, mixed>>

FactorNext ==
  \/ ClockTicks \/ SetupLeft \/ SetupErrs
  \/ \E s \in Logins :
       \/ PasswordLogin(s) \/ SecondStep(s) \/ UserRead(s) \/ LockChecked(s)
       \/ ChallengeIssued(s) \/ CodeJudged(s) \/ RecoveryJudged(s) \/ FailureCounted(s)
       \/ ChallengeRead(s) \/ ChallengeConsumed(s) \/ FailuresReset(s) \/ SessionOpened(s)
       \/ EnrollClicked(s) \/ SecretStored(s) \/ VerifyClicked(s) \/ FactorEnabled(s)
       \/ StepStored(s) \/ DisableAsked(s) \/ AdminResets(s) \/ FactorCleared(s)
       \/ GivenUp(s)

FactorSpec == FactorInit /\ [][FactorNext]_factorVars

-----------------------------------------------------------------------------
(* Properties                                                              *)

FactorTypeOK ==
  /\ clock \in 1..MaxClock
  /\ acct.secret \in 0..enrolments /\ acct.enabled \in BOOLEAN
  /\ acct.codes \subseteq UNION {CodesOf(g) : g \in 0..activations}
  /\ acct.last \in 0..MaxClock + 1
  /\ acct.fails \in Nat /\ acct.until \in 0..MaxClock + LockSteps
  /\ \A s \in Logins : attempt[s].at = "idle" <=> attempt[s] = Idle
  /\ rewound \subseteq 0..enrolments /\ twice \subseteq used

(* A code of the authenticator, a recovery code and a challenge answered   *)
(* by the authenticator each open one session, however many requests bring *)
(* them at a time. The exception are secrets of which a code was accepted  *)
(* whose step an enrolment, an activation or a removal made the row forget:*)
(* they write last_totp_step without looking.                              *)
OneSessionEach ==
  \A c \in twice : c[1] = "totp" /\ c[2] \in rewound

(* The lock holds the guesses down: MaxFails failures lock the account,    *)
(* only requests that were past is_locked by then add to them, and when the*)
(* lock is over the count begins anew.                                     *)
GuessesBounded ==
  /\ acct.fails <= MaxFails - 1 + Cardinality(Logins)
  /\ acct.fails >= MaxFails <=> acct.until # 0

(* The page that says "done" shows the recovery codes of the account, and  *)
(* the secret it gave to scan is the account's, unless requests the page   *)
(* knows nothing of have changed the factor since it enrolled.             *)
ShownCodesWork ==
  setup.step = "done" /\ ~mixed =>
    /\ acct.enabled /\ acct.secret = setup.secret
    /\ acct.codes \subseteq CodesOf(setup.shown)

=============================================================================
