----------------------------- MODULE FactorProofs -----------------------------
(***************************************************************************)
(* Proofs about the second step of a login.                                *)
(***************************************************************************)
EXTENDS SecondFactor, FiniteSetTheorems, SequenceTheorems, TLAPS

TotpCodes     == {"totp"} \X Nat \X Nat
RecoveryCodes == {"code"} \X Nat \X Nat
Snapshots ==
  [secret : Nat, enabled : BOOLEAN, codes : SUBSET RecoveryCodes, last : Nat]
Calls ==
  {"idle", "user", "lock", "judge", "fail", "challenge", "look", "mark", "reset", "issue",
   "enroll", "enable", "step", "clear"}
Kinds == {"none", "password", "totp", "recovery", "enroll", "verify", "clear"}
Attempts ==
  [at : Calls, kind : Kinds, user : Snapshots, challenge : Nat,
   match : {<<>>} \cup TotpCodes \cup RecoveryCodes, page : BOOLEAN]
Accounts ==
  [secret : Nat, enabled : BOOLEAN, codes : SUBSET RecoveryCodes, last : Nat, fails : Nat,
   until : Nat]
ChallengeRows == [consumed : BOOLEAN, until : Nat]
Setups == [step : {"start", "scan", "done"}, secret : Nat, shown : Nat, busy : BOOLEAN]

(* What a request has looked up by each of its calls.                      *)
Informed ==
  \A s \in Logins :
    /\ attempt[s].at = "idle" => attempt[s] = Idle
    /\ attempt[s].at \in {"user", "judge", "look", "mark"} =>
         attempt[s].kind \in {"totp", "recovery"}
    /\ attempt[s].at \in {"enable", "step"} => attempt[s].kind = "verify"
    /\ attempt[s].kind \in {"totp", "recovery"} => attempt[s].challenge \in DOMAIN challenges

FactorTypes ==
  /\ clock \in Nat \ {0} /\ enrolments \in Nat /\ activations \in Nat
  /\ acct \in Accounts /\ setup \in Setups
  /\ challenges \in Seq(ChallengeRows)
  /\ attempt \in [Logins -> Attempts]
  /\ Informed

(* What a step leaves alone: the other requests, what a request is about,  *)
(* and the columns of the row.                                             *)
Moves(s) ==
  /\ attempt' \in [Logins -> Attempts]
  /\ \A q \in Logins \ {s} : attempt'[q] = attempt[q]
Keeps(s) ==
  /\ attempt'[s].kind = attempt[s].kind /\ attempt'[s].page = attempt[s].page
  /\ attempt'[s].challenge = attempt[s].challenge
KeepsMatch(s) == Keeps(s) /\ attempt'[s].match = attempt[s].match
FactorKept == /\ acct'.secret = acct.secret /\ acct'.enabled = acct.enabled
              /\ acct'.codes = acct.codes
LockKept   == acct'.fails = acct.fails /\ acct'.until = acct.until
Written(secret, enabled, codes, last) ==
  /\ acct'.secret = secret /\ acct'.enabled = enabled /\ acct'.codes = codes /\ acct'.last = last

USE FactorAssumption DEF factorVars, counters, sessions, pageVars

LEMMA Constants == /\ NoSnapshot \in Snapshots /\ Idle \in Attempts
                   /\ \A g \in Nat : CodesOf(g) \subseteq RecoveryCodes
  BY DEF NoSnapshot, Snapshots, Idle, Attempts, Calls, Kinds, CodesOf, RecoveryCodes

LEMMA IdleFields == /\ Idle.at = "idle" /\ Idle.kind = "none" /\ Idle.match = <<>>
                    /\ Idle.page = FALSE
  BY DEF Idle

LEMMA TypesInitially == FactorInit => FactorTypes
  BY Constants DEF FactorInit, FactorTypes, Informed, Idle, Accounts, Setups

LEMMA SnapshotsTyped == FactorTypes => \A k \in Kinds : Snapshot(k) \in Snapshots
  BY Constants DEF FactorTypes, Accounts, Snapshot, NoSnapshot, Snapshots

LEMMA StartsMoves ==
  ASSUME FactorTypes, NEW s \in Logins, NEW a \in Attempts, Starts(s, a)
  PROVE  Moves(s) /\ attempt'[s] = a /\ attempt[s] = Idle
  BY DEF FactorTypes, Informed, Starts, At, Moves

LEMMA ContinuesMoves ==
  ASSUME FactorTypes, NEW s \in Logins, NEW call \in Calls, Continues(s, call)
  PROVE  Moves(s) /\ attempt'[s].at = call /\ KeepsMatch(s) /\ attempt'[s].user = attempt[s].user
  BY DEF FactorTypes, Continues, Attempts, Moves, KeepsMatch, Keeps

LEMMA DecidedMoves ==
  ASSUME FactorTypes, NEW s \in Logins, NEW call \in Calls, Decided(s, call)
  PROVE  Moves(s) /\ attempt'[s].at = call /\ KeepsMatch(s)
  BY Constants DEF FactorTypes, Decided, Attempts, Moves, KeepsMatch, Keeps

LEMMA MatchesMoves ==
  ASSUME FactorTypes, NEW s \in Logins, NEW call \in Calls,
         NEW c \in TotpCodes \cup RecoveryCodes, Matches(s, c, call)
  PROVE  Moves(s) /\ attempt'[s].at = call /\ Keeps(s) /\ attempt'[s].match = c
  BY Constants DEF FactorTypes, Matches, Attempts, Moves, Keeps

LEMMA EndsMoves ==
  ASSUME FactorTypes, NEW s \in Logins, Ends(s)
  PROVE  Moves(s) /\ attempt'[s] = Idle
  BY Constants DEF FactorTypes, Ends, Moves

LEMMA MovesPasswordLogin ==
  ASSUME FactorTypes, NEW s \in Logins, PasswordLogin(s)
  PROVE  /\ Moves(s) /\ attempt[s] = Idle
         /\ attempt'[s].at = "lock" /\ attempt'[s].kind = "password"
         /\ attempt'[s].match = <<>> /\ attempt'[s].page = FALSE
         /\ UNCHANGED <<clock, enrolments, activations, acct, challenges, used, twice,
                        setup, mixed,
                         rewound>>
  <1> DEFINE a == [Idle EXCEPT !.at = "lock", !.kind = "password", !.user = Snapshot("password")]
  <1>1. /\ a \in Attempts /\ a.at = "lock" /\ a.kind = "password" /\ a.match = <<>>
        /\ a.page = FALSE
    BY SnapshotsTyped DEF Idle, Attempts, Calls, Kinds
  <1>2. Starts(s, a)  BY DEF PasswordLogin
  <1> HIDE DEF a
  <1>. QED  BY <1>1, <1>2, StartsMoves DEF PasswordLogin


LEMMA MovesSecondStep ==
  ASSUME FactorTypes, NEW s \in Logins, SecondStep(s)
  PROVE  /\ Moves(s) /\ attempt[s] = Idle
         /\ attempt'[s].at = "user" /\ attempt'[s].kind \in {"totp", "recovery"}
         /\ attempt'[s].challenge \in DOMAIN challenges
         /\ attempt'[s].match = <<>> /\ attempt'[s].page = FALSE
         /\ UNCHANGED <<clock, enrolments, activations, acct, challenges, used, twice,
                        setup, mixed,
                         rewound>>
  <1>1. PICK c \in 1..Len(challenges), k \in {"totp", "recovery"} :
          Starts(s, [Idle EXCEPT !.at = "user", !.kind = k, !.challenge = c])
    BY DEF SecondStep
  <1> DEFINE a == [Idle EXCEPT !.at = "user", !.kind = k, !.challenge = c]
  <1>3. c \in Nat /\ c \in DOMAIN challenges
    <2>1. Len(challenges) \in Nat /\ DOMAIN challenges = 1..Len(challenges)
      BY DEF FactorTypes
    <2>. QED  BY <2>1
  <1>2. /\ a \in Attempts /\ a.at = "user" /\ a.kind = k /\ a.challenge = c
        /\ a.match = <<>> /\ a.page = FALSE
    BY <1>3, Constants DEF Idle, Attempts, Calls, Kinds
  <1> HIDE DEF a
  <1>. QED  BY <1>1, <1>2, <1>3, StartsMoves DEF SecondStep, a


LEMMA MovesUserRead ==
  ASSUME FactorTypes, NEW s \in Logins, UserRead(s)
  PROVE  /\ Moves(s) /\ attempt[s].at = "user"
         /\ \/ attempt'[s] = Idle
            \/ attempt'[s].at = "lock" /\ KeepsMatch(s)
         /\ UNCHANGED <<clock, enrolments, activations, acct, challenges, used, twice,
                        setup, mixed,
                         rewound>>
  <1>1. CASE Ends(s)  BY <1>1, EndsMoves DEF UserRead, At
  <1>2. CASE attempt' = [attempt EXCEPT ![s].at = "lock", ![s].user = Snapshot(attempt[s].kind)]
    <2>1. Snapshot(attempt[s].kind) \in Snapshots
      BY SnapshotsTyped DEF FactorTypes, Attempts
    <2>. QED  BY <1>2, <2>1 DEF UserRead, At, FactorTypes, Moves, KeepsMatch, Keeps, Attempts, Calls
  <1>. QED  BY <1>1, <1>2 DEF UserRead


LEMMA MovesLockChecked ==
  ASSUME FactorTypes, NEW s \in Logins, LockChecked(s)
  PROVE  /\ Moves(s) /\ attempt[s].at = "lock"
         /\ \/ attempt'[s] = Idle
            \/ /\ ~IsLocked /\ KeepsMatch(s)
               /\ attempt'[s].at \in {"judge", "fail", "challenge", "reset"}
               /\ attempt'[s].at = "judge" <=> attempt[s].kind \in {"totp", "recovery"}
         /\ UNCHANGED <<clock, enrolments, activations, acct, challenges, used, twice,
                        setup, mixed,
                         rewound>>
  <1>1. attempt[s].at = "lock" /\ UNCHANGED <<clock, enrolments, activations, acct,
                                              challenges, used, twice, setup, mixed,
                                   rewound>>
    BY DEF LockChecked, At
  <1>2. \/ Ends(s)
        \/ ~IsLocked /\ attempt[s].kind \in {"totp", "recovery"} /\ Continues(s, "judge")
        \/ /\ ~IsLocked /\ attempt[s].kind \notin {"totp", "recovery"}
           /\ Decided(s, "fail") \/ Decided(s, "challenge") \/ Decided(s, "reset")
    BY DEF LockChecked
  <1>. QED  BY <1>1, <1>2, EndsMoves, ContinuesMoves, DecidedMoves DEF Calls


LEMMA MovesChallengeIssued ==
  ASSUME FactorTypes, NEW s \in Logins, ChallengeIssued(s)
  PROVE  /\ Moves(s) /\ attempt[s].at = "challenge" /\ attempt'[s] = Idle
         /\ challenges' = Append(challenges, [consumed |-> FALSE, until |-> clock + Life])
         /\ UNCHANGED <<clock, enrolments, activations, acct, used, twice, setup, mixed,
                        rewound>>
  BY EndsMoves DEF ChallengeIssued, At


LEMMA MovesCodeJudged ==
  ASSUME FactorTypes, NEW s \in Logins, CodeJudged(s)
  PROVE  /\ Moves(s) /\ Keeps(s) /\ attempt[s].at = "judge" /\ attempt[s].kind = "totp"
         /\ \/ attempt'[s].at = "fail" /\ KeepsMatch(s) /\ UNCHANGED acct
            \/ \E t \in Nat :
                 /\ acct.last < t /\ FactorKept /\ LockKept /\ acct'.last = t
                 /\ acct' \in Accounts
                 /\ attempt'[s].at = "look"
                 /\ attempt'[s].match = <<"totp", attempt[s].user.secret, t>>
         /\ UNCHANGED <<clock, enrolments, activations, challenges, used, twice, setup,
                        mixed, rewound>>
  <1> DEFINE code(t) == <<"totp", attempt[s].user.secret, t>>
  <1>1. /\ attempt[s].at = "judge" /\ attempt[s].kind = "totp" /\ attempt[s].user.secret \in Nat
        /\ UNCHANGED <<clock, enrolments, activations, challenges, used, twice, setup,
                       mixed, rewound>>
    BY DEF CodeJudged, At, FactorTypes, Attempts, Snapshots
  <1>2. CASE Decided(s, "fail") /\ UNCHANGED acct
    BY <1>1, <1>2, DecidedMoves DEF Calls, KeepsMatch
  <1>3. ASSUME NEW t \in Window, Advances(t), acct' = [acct EXCEPT !.last = t],
               Matches(s, code(t), "look")
        PROVE  /\ Moves(s) /\ Keeps(s)
               /\ t \in Nat /\ acct.last < t /\ FactorKept /\ LockKept /\ acct'.last = t
               /\ acct' \in Accounts
               /\ attempt'[s].at = "look" /\ attempt'[s].match = code(t)
    <2>1. t \in Nat /\ acct.last < t  BY <1>3 DEF Window, FactorTypes, Advances
    <2>2. FactorKept /\ LockKept /\ acct'.last = t /\ acct' \in Accounts
      BY <1>3, <2>1 DEF FactorTypes, Accounts, FactorKept, LockKept
    <2>3. code(t) \in TotpCodes  BY <1>1, <2>1 DEF TotpCodes
    <2> HIDE DEF code
    <2>. QED  BY <1>3, <2>1, <2>2, <2>3, MatchesMoves DEF Calls
  <1>4. \/ Decided(s, "fail") /\ UNCHANGED acct
        \/ \E t \in Window : /\ Advances(t) /\ acct' = [acct EXCEPT !.last = t]
                             /\ Matches(s, code(t), "look")
    BY DEF CodeJudged
  <1>. QED  BY <1>1, <1>2, <1>3, <1>4


LEMMA MovesRecoveryJudged ==
  ASSUME FactorTypes, NEW s \in Logins, RecoveryJudged(s)
  PROVE  /\ Moves(s) /\ attempt[s].at = "judge" /\ attempt[s].kind = "recovery"
         /\ \/ attempt'[s].at = "fail" /\ KeepsMatch(s) /\ UNCHANGED acct
            \/ attempt'[s] = Idle /\ UNCHANGED acct
            \/ \E c \in acct.codes :
                 /\ LockKept /\ acct' \in Accounts
                 /\ Written(acct.secret, acct.enabled, acct.codes \ {c}, acct.last)
                 /\ attempt'[s].at = "look" /\ Keeps(s) /\ attempt'[s].match = c
         /\ UNCHANGED <<clock, enrolments, activations, challenges, used, twice, setup,
                        mixed, rewound>>
  <1>1. /\ attempt[s].at = "judge" /\ attempt[s].kind = "recovery"
        /\ UNCHANGED <<clock, enrolments, activations, challenges, used, twice, setup,
                       mixed, rewound>>
    BY DEF RecoveryJudged, At
  <1>2. CASE Decided(s, "fail") /\ UNCHANGED acct
    BY <1>1, <1>2, DecidedMoves DEF Calls
  <1>3. CASE Ends(s) /\ UNCHANGED acct  BY <1>1, <1>3, EndsMoves
  <1>4. ASSUME NEW c \in acct.codes, acct' = [acct EXCEPT !.codes = @ \ {c}], Matches(s, c, "look")
        PROVE  /\ Moves(s) /\ Keeps(s) /\ LockKept /\ acct' \in Accounts
               /\ Written(acct.secret, acct.enabled, acct.codes \ {c}, acct.last)
               /\ attempt'[s].at = "look" /\ attempt'[s].match = c
    <2>1. c \in RecoveryCodes  BY DEF FactorTypes, Accounts
    <2>2. /\ LockKept /\ acct' \in Accounts
          /\ Written(acct.secret, acct.enabled, acct.codes \ {c}, acct.last)
      BY <1>4 DEF FactorTypes, Accounts, LockKept, Written
    <2>. QED  BY <1>4, <2>1, <2>2, MatchesMoves DEF Calls
  <1>5. \/ Decided(s, "fail") /\ UNCHANGED acct
        \/ Ends(s) /\ UNCHANGED acct
        \/ \E c \in acct.codes : acct' = [acct EXCEPT !.codes = @ \ {c}] /\ Matches(s, c, "look")
    BY DEF RecoveryJudged
  <1>. QED  BY <1>1, <1>2, <1>3, <1>4, <1>5


LEMMA MovesFailureCounted ==
  ASSUME FactorTypes, NEW s \in Logins, FailureCounted(s)
  PROVE  /\ Moves(s) /\ attempt[s].at = "fail" /\ attempt'[s] = Idle
         /\ FactorKept /\ acct'.last = acct.last /\ acct' \in Accounts
         /\ acct'.fails = Counted /\ acct'.until = LockedUntil
         /\ UNCHANGED <<clock, enrolments, activations, challenges, used, twice, setup,
                        mixed, rewound>>
  <1>1. acct' = [acct EXCEPT !.fails = Counted, !.until = LockedUntil]  BY DEF FailureCounted
  <1>2. Counted \in Nat /\ LockedUntil \in Nat
    BY DEF Counted, LockedUntil, FactorTypes, Accounts
  <1>3. /\ FactorKept /\ acct'.last = acct.last /\ acct' \in Accounts
        /\ acct'.fails = Counted /\ acct'.until = LockedUntil
    BY <1>1, <1>2 DEF FactorTypes, Accounts, FactorKept
  <1>. QED  BY <1>3, EndsMoves DEF FailureCounted, At


LEMMA MovesChallengeRead ==
  ASSUME FactorTypes, NEW s \in Logins, ChallengeRead(s)
  PROVE  /\ Moves(s) /\ attempt[s].at = "look"
         /\ \/ attempt'[s] = Idle
            \/ attempt'[s].at = "mark" /\ KeepsMatch(s)
            \/ attempt[s].kind = "recovery" /\ attempt'[s].at = "reset" /\ KeepsMatch(s)
         /\ UNCHANGED <<clock, enrolments, activations, acct, challenges, used, twice,
                        setup, mixed,
                         rewound>>
  BY EndsMoves, ContinuesMoves DEF ChallengeRead, At, Calls


LEMMA MovesChallengeConsumed ==
  ASSUME FactorTypes, NEW s \in Logins, ChallengeConsumed(s)
  PROVE  /\ Moves(s) /\ attempt[s].at = "mark"
         /\ challenges' = [challenges EXCEPT ![attempt[s].challenge].consumed = TRUE]
         /\ \/ attempt'[s] = Idle
            \/ /\ attempt'[s].at = "reset" /\ KeepsMatch(s)
               /\ attempt[s].kind = "recovery" \/ ~challenges[attempt[s].challenge].consumed
         /\ UNCHANGED <<clock, enrolments, activations, acct, used, twice, setup, mixed,
                        rewound>>
  BY EndsMoves, ContinuesMoves DEF ChallengeConsumed, At, Calls


LEMMA MovesFailuresReset ==
  ASSUME FactorTypes, NEW s \in Logins, FailuresReset(s)
  PROVE  /\ Moves(s) /\ attempt[s].at = "reset" /\ attempt'[s].at = "issue" /\ KeepsMatch(s)
         /\ FactorKept /\ acct'.last = acct.last /\ acct' \in Accounts
         /\ acct'.fails = 0 /\ acct'.until = 0
         /\ UNCHANGED <<clock, enrolments, activations, challenges, used, twice, setup,
                        mixed, rewound>>
  <1>1. acct' = [acct EXCEPT !.fails = 0, !.until = 0]  BY DEF FailuresReset
  <1>2. /\ FactorKept /\ acct'.last = acct.last /\ acct' \in Accounts
        /\ acct'.fails = 0 /\ acct'.until = 0
    BY <1>1 DEF FactorTypes, Accounts, FactorKept
  <1>. QED  BY <1>2, ContinuesMoves DEF FailuresReset, At, Calls


LEMMA MovesSessionOpened ==
  ASSUME FactorTypes, NEW s \in Logins, SessionOpened(s)
  PROVE  /\ Moves(s) /\ attempt[s].at = "issue" /\ attempt'[s] = Idle
         /\ used' = used \cup Credentials(attempt[s])
         /\ twice' = twice \cup (Credentials(attempt[s]) \cap used)
         /\ UNCHANGED <<clock, enrolments, activations, acct, challenges, setup, mixed,
                        rewound>>
  BY EndsMoves DEF SessionOpened, At


LEMMA MovesEnrollClicked ==
  ASSUME FactorTypes, NEW s \in Logins, EnrollClicked(s)
  PROVE  /\ Moves(s) /\ attempt[s] = Idle
         /\ setup.step = "start" /\ ~setup.busy
         /\ attempt'[s].at = "enroll" /\ attempt'[s].kind = "enroll"
         /\ attempt'[s].match = <<>> /\ attempt'[s].page = TRUE
         /\ setup' = [setup EXCEPT !.busy = TRUE]
         /\ UNCHANGED <<clock, enrolments, activations, acct, challenges, used, twice,
                        mixed, rewound>>
  <1> DEFINE a == [Idle EXCEPT !.at = "enroll", !.kind = "enroll", !.page = TRUE]
  <1>1. /\ a \in Attempts /\ a.at = "enroll" /\ a.kind = "enroll" /\ a.match = <<>>
        /\ a.page = TRUE
    BY Constants DEF Idle, Attempts, Calls, Kinds
  <1>2. Starts(s, a)  BY DEF EnrollClicked
  <1> HIDE DEF a
  <1>. QED  BY <1>1, <1>2, StartsMoves DEF EnrollClicked, Ready


LEMMA MovesSecretStored ==
  ASSUME FactorTypes, NEW s \in Logins, SecretStored(s)
  PROVE  /\ Moves(s) /\ attempt[s].at = "enroll" /\ attempt'[s] = Idle
         /\ enrolments' = enrolments + 1 /\ acct' \in Accounts
         /\ Written(enrolments + 1, FALSE, {}, 0) /\ LockKept /\ Forgets(0)
         /\ mixed' = ~attempt[s].page
         /\ \/ PageHears(s, setup)
            \/ PageHears(s, [setup EXCEPT !.step = "scan", !.secret = enrolments + 1])
         /\ UNCHANGED <<clock, activations, challenges, used, twice>>
  <1>1. Rewrites(enrolments + 1, FALSE, {}) /\ enrolments \in Nat
    BY DEF SecretStored, FactorTypes
  <1>2. /\ acct' \in Accounts /\ Written(enrolments + 1, FALSE, {}, 0) /\ LockKept /\ Forgets(0)
    <2>1. acct' = [acct EXCEPT !.secret = enrolments + 1, !.enabled = FALSE, !.codes = {},
                               !.last = 0]
      BY <1>1 DEF Rewrites
    <2>2. acct \in Accounts /\ enrolments + 1 \in Nat  BY <1>1 DEF FactorTypes
    <2>3. acct' \in Accounts  BY <2>1, <2>2 DEF Accounts
    <2>4. Written(enrolments + 1, FALSE, {}, 0) /\ LockKept
      BY <2>1, <2>2 DEF Accounts, Written, LockKept
    <2>. QED  BY <1>1, <2>3, <2>4 DEF Rewrites
  <1>. QED  BY <1>2, EndsMoves DEF SecretStored, At


LEMMA MovesVerifyClicked ==
  ASSUME FactorTypes, NEW s \in Logins, VerifyClicked(s)
  PROVE  /\ Moves(s) /\ attempt[s] = Idle
         /\ setup.step = "scan" /\ ~setup.busy /\ acct.secret = setup.secret
         /\ attempt'[s].at = "enable" /\ attempt'[s].kind = "verify"
         /\ attempt'[s].match = <<>> /\ attempt'[s].page = TRUE
         /\ attempt'[s].user.secret = acct.secret
         /\ setup' = [setup EXCEPT !.busy = TRUE]
         /\ UNCHANGED <<clock, enrolments, activations, acct, challenges, used, twice,
                        mixed, rewound>>
  <1>1. PICK t \in Window :
          Starts(s, [Idle EXCEPT !.at = "enable", !.kind = "verify", !.page = TRUE,
                                 !.user = [NoSnapshot EXCEPT !.secret = acct.secret, !.last = t]])
    BY DEF VerifyClicked
  <1> DEFINE u == [NoSnapshot EXCEPT !.secret = acct.secret, !.last = t]
             a == [Idle EXCEPT !.at = "enable", !.kind = "verify", !.page = TRUE, !.user = u]
  <1>2. u \in Snapshots /\ u.secret = acct.secret
    <2>1. t \in Nat  BY DEF Window, FactorTypes
    <2>. QED  BY <2>1 DEF NoSnapshot, Snapshots, FactorTypes, Accounts
  <1>3. Starts(s, a)  BY <1>1
  <1> HIDE DEF u
  <1>4. /\ a \in Attempts /\ a.at = "enable" /\ a.kind = "verify" /\ a.match = <<>>
        /\ a.page = TRUE /\ a.user = u
    BY <1>2 DEF Idle, Attempts, Calls, Kinds
  <1> HIDE DEF a
  <1>. QED  BY <1>2, <1>3, <1>4, StartsMoves DEF VerifyClicked, Ready


LEMMA MovesFactorEnabled ==
  ASSUME FactorTypes, NEW s \in Logins, FactorEnabled(s)
  PROVE  /\ Moves(s) /\ attempt[s].at = "enable"
         /\ attempt'[s].at = "step" /\ attempt'[s].challenge = activations + 1
         /\ attempt'[s].kind = attempt[s].kind /\ attempt'[s].page = attempt[s].page
         /\ attempt'[s].match = attempt[s].match /\ attempt'[s].user = attempt[s].user
         /\ activations' = activations + 1 /\ acct' \in Accounts
         /\ Written(attempt[s].user.secret, TRUE, CodesOf(activations + 1), 0) /\ LockKept
         /\ Forgets(0) /\ mixed' = (mixed \/ ~attempt[s].page)
         /\ UNCHANGED <<clock, enrolments, challenges, used, twice, setup>>
  <1>1. /\ Rewrites(attempt[s].user.secret, TRUE, CodesOf(activations + 1))
        /\ activations \in Nat /\ attempt[s].user.secret \in Nat
    BY DEF FactorEnabled, FactorTypes, Attempts, Snapshots
  <1>2. CodesOf(activations + 1) \subseteq RecoveryCodes  BY <1>1, Constants
  <1>3. /\ acct' \in Accounts /\ LockKept /\ Forgets(0)
        /\ Written(attempt[s].user.secret, TRUE, CodesOf(activations + 1), 0)
    BY <1>1, <1>2 DEF Rewrites, Accounts, Written, LockKept, FactorTypes
  <1>4. attempt' = [attempt EXCEPT ![s].at = "step", ![s].challenge = activations + 1]
    BY DEF FactorEnabled
  <1>5. /\ Moves(s) /\ attempt'[s].at = "step" /\ attempt'[s].challenge = activations + 1
        /\ attempt'[s].kind = attempt[s].kind /\ attempt'[s].page = attempt[s].page
        /\ attempt'[s].match = attempt[s].match /\ attempt'[s].user = attempt[s].user
    <2>1. attempt[s] \in Attempts /\ activations + 1 \in Nat  BY <1>1 DEF FactorTypes
    <2>2. attempt'[s] = [attempt[s] EXCEPT !.at = "step", !.challenge = activations + 1]
      BY <1>4 DEF FactorTypes
    <2>3. attempt'[s] \in Attempts  BY <2>1, <2>2 DEF Attempts, Calls
    <2>4. Moves(s)  BY <1>4, <2>3 DEF FactorTypes, Moves
    <2>. QED  BY <2>1, <2>2, <2>4 DEF Attempts
  <1>. QED  BY <1>3, <1>5 DEF FactorEnabled, At


LEMMA MovesStepStored ==
  ASSUME FactorTypes, NEW s \in Logins, StepStored(s)
  PROVE  /\ Moves(s) /\ attempt[s].at = "step" /\ attempt'[s] = Idle
         /\ acct' \in Accounts /\ FactorKept /\ LockKept
         /\ acct'.last = attempt[s].user.last /\ Forgets(attempt[s].user.last)
         /\ \/ PageHears(s, setup)
            \/ PageHears(s, [setup EXCEPT !.step = "done", !.shown = attempt[s].challenge])
         /\ UNCHANGED <<clock, enrolments, activations, challenges, used, twice, mixed>>
  <1>1. /\ acct' = [acct EXCEPT !.last = attempt[s].user.last]
        /\ attempt[s].user.last \in Nat
    BY DEF StepStored, FactorTypes, Attempts, Snapshots
  <1>2. acct' \in Accounts /\ FactorKept /\ LockKept /\ acct'.last = attempt[s].user.last
    BY <1>1 DEF FactorTypes, Accounts, FactorKept, LockKept
  <1>. QED  BY <1>2, EndsMoves DEF StepStored, At


LEMMA MovesDisableAsked ==
  ASSUME FactorTypes, NEW s \in Logins, DisableAsked(s)
  PROVE  /\ Moves(s) /\ attempt[s] = Idle
         /\ attempt'[s].at = "clear" /\ attempt'[s].kind = "clear"
         /\ attempt'[s].match = <<>> /\ attempt'[s].page = FALSE
         /\ UNCHANGED <<clock, enrolments, activations, acct, challenges, used, twice,
                        setup, mixed,
                         rewound>>
  <1> DEFINE a == [Idle EXCEPT !.at = "clear", !.kind = "clear"]
  <1>1. /\ a \in Attempts /\ a.at = "clear" /\ a.kind = "clear" /\ a.match = <<>>
        /\ a.page = FALSE
    BY Constants DEF Idle, Attempts, Calls, Kinds
  <1>2. Starts(s, a)  BY DEF DisableAsked
  <1> HIDE DEF a
  <1>. QED  BY <1>1, <1>2, StartsMoves DEF DisableAsked


LEMMA MovesAdminResets ==
  ASSUME FactorTypes, NEW s \in Logins, AdminResets(s)
  PROVE  /\ Moves(s) /\ attempt[s] = Idle
         /\ attempt'[s].at = "clear" /\ attempt'[s].kind = "clear"
         /\ attempt'[s].match = <<>> /\ attempt'[s].page = FALSE
         /\ UNCHANGED <<clock, enrolments, activations, acct, challenges, used, twice,
                        setup, mixed,
                         rewound>>
  <1> DEFINE a == [Idle EXCEPT !.at = "clear", !.kind = "clear"]
  <1>1. /\ a \in Attempts /\ a.at = "clear" /\ a.kind = "clear" /\ a.match = <<>>
        /\ a.page = FALSE
    BY Constants DEF Idle, Attempts, Calls, Kinds
  <1>2. Starts(s, a)  BY DEF AdminResets
  <1> HIDE DEF a
  <1>. QED  BY <1>1, <1>2, StartsMoves DEF AdminResets


LEMMA MovesFactorCleared ==
  ASSUME FactorTypes, NEW s \in Logins, FactorCleared(s)
  PROVE  /\ Moves(s) /\ attempt[s].at = "clear" /\ attempt'[s] = Idle
         /\ acct' \in Accounts /\ Written(0, FALSE, {}, 0) /\ LockKept /\ Forgets(0)
         /\ mixed' = TRUE
         /\ UNCHANGED <<clock, enrolments, activations, challenges, used, twice, setup>>
  <1>1. /\ acct' \in Accounts /\ Written(0, FALSE, {}, 0) /\ LockKept /\ Forgets(0)
    BY DEF FactorCleared, Rewrites, Accounts, Written, LockKept, FactorTypes
  <1>. QED  BY <1>1, EndsMoves DEF FactorCleared, At


LEMMA MovesGivenUp ==
  ASSUME FactorTypes, NEW s \in Logins, GivenUp(s)
  PROVE  /\ Moves(s) /\ attempt'[s] = Idle /\ PageHears(s, setup)
         /\ UNCHANGED <<clock, enrolments, activations, acct, challenges, used, twice,
                        mixed, rewound>>
  BY EndsMoves DEF GivenUp


LEMMA MovesOrphans ==
  ASSUME FactorTypes, attempt' = Orphaned
  PROVE  /\ attempt' \in [Logins -> Attempts]
         /\ \A s \in Logins : /\ attempt'[s].at = attempt[s].at /\ attempt'[s].kind = attempt[s].kind
                              /\ attempt'[s].user = attempt[s].user
                              /\ attempt'[s].challenge = attempt[s].challenge
                              /\ attempt'[s].match = attempt[s].match
                              /\ attempt'[s].page = FALSE
                              /\ attempt[s] = Idle => attempt'[s] = Idle
  <1> SUFFICES ASSUME NEW s \in Logins
               PROVE  /\ attempt'[s] \in Attempts
                      /\ attempt'[s].at = attempt[s].at /\ attempt'[s].kind = attempt[s].kind
                      /\ attempt'[s].user = attempt[s].user
                      /\ attempt'[s].challenge = attempt[s].challenge
                      /\ attempt'[s].match = attempt[s].match
                      /\ attempt'[s].page = FALSE
                      /\ attempt[s] = Idle => attempt'[s] = Idle
    BY DEF Orphaned
  <1>1. attempt[s] \in Attempts /\ attempt'[s] = [attempt[s] EXCEPT !.page = FALSE]
    BY DEF FactorTypes, Orphaned
  <1>2. [Idle EXCEPT !.page = FALSE] = Idle  BY Constants, IdleFields DEF Attempts
  <1>. QED  BY <1>1, <1>2 DEF Attempts

LEMMA HeardTyped ==
  ASSUME FactorTypes, NEW s \in Logins, NEW answer \in Setups, PageHears(s, answer)
  PROVE  setup' \in Setups
  BY DEF PageHears, Setups, FactorTypes

(* The types, and what the requests have looked up.                        *)
LEMMA TypesKept == FactorTypes /\ [FactorNext]_factorVars => FactorTypes'
PROOF
  <1> SUFFICES ASSUME FactorTypes, [FactorNext]_factorVars  PROVE FactorTypes'
    OBVIOUS
  <1> USE IdleFields
  <1>1. ASSUME NEW s \in Logins, PasswordLogin(s)  PROVE FactorTypes'
    BY <1>1, MovesPasswordLogin DEF FactorTypes, Informed, Moves, Keeps, KeepsMatch
  <1>2. ASSUME NEW s \in Logins, SecondStep(s)  PROVE FactorTypes'
    BY <1>2, MovesSecondStep DEF FactorTypes, Informed, Moves, Keeps, KeepsMatch
  <1>3. ASSUME NEW s \in Logins, UserRead(s)  PROVE FactorTypes'
    BY <1>3, MovesUserRead DEF FactorTypes, Informed, Moves, Keeps, KeepsMatch
  <1>4. ASSUME NEW s \in Logins, LockChecked(s)  PROVE FactorTypes'
    BY <1>4, MovesLockChecked DEF FactorTypes, Informed, Moves, Keeps, KeepsMatch
  <1>5. ASSUME NEW s \in Logins, ChallengeIssued(s)  PROVE FactorTypes'
    <2> DEFINE row == [consumed |-> FALSE, until |-> clock + Life]
    <2>1. row \in ChallengeRows
      BY DEF ChallengeRows, FactorTypes
    <2>0. challenges \in Seq(ChallengeRows)  BY DEF FactorTypes
    <2>c. challenges' = Append(challenges, row)  BY <1>5, MovesChallengeIssued
    <2> HIDE DEF row
    <2>2. /\ challenges' \in Seq(ChallengeRows)
          /\ Len(challenges') = Len(challenges) + 1
      BY <2>0, <2>1, <2>c, AppendProperties
    <2>3. DOMAIN challenges \subseteq DOMAIN challenges'
      <3>1. /\ Len(challenges) \in Nat /\ DOMAIN challenges = 1..Len(challenges)
            /\ DOMAIN challenges' = 1..Len(challenges')
        BY <2>0, <2>2
      <3>. QED  BY <2>2, <3>1
    <2>4. /\ Moves(s) /\ attempt'[s] = Idle
          /\ UNCHANGED <<clock, enrolments, activations, acct, setup>>
      BY <1>5, MovesChallengeIssued
    <2>. QED  BY <2>2, <2>3, <2>4 DEF FactorTypes, Informed, Moves
  <1>6. ASSUME NEW s \in Logins, CodeJudged(s)  PROVE FactorTypes'
    BY <1>6, MovesCodeJudged DEF FactorTypes, Informed, Moves, Keeps, KeepsMatch
  <1>7. ASSUME NEW s \in Logins, RecoveryJudged(s)  PROVE FactorTypes'
    BY <1>7, MovesRecoveryJudged DEF FactorTypes, Informed, Moves, Keeps, KeepsMatch
  <1>8. ASSUME NEW s \in Logins, FailureCounted(s)  PROVE FactorTypes'
    BY <1>8, MovesFailureCounted DEF FactorTypes, Informed, Moves, Keeps, KeepsMatch
  <1>9. ASSUME NEW s \in Logins, ChallengeRead(s)  PROVE FactorTypes'
    BY <1>9, MovesChallengeRead DEF FactorTypes, Informed, Moves, Keeps, KeepsMatch
  <1>10. ASSUME NEW s \in Logins, ChallengeConsumed(s)  PROVE FactorTypes'
    <2> DEFINE c == attempt[s].challenge
               row == [challenges[c] EXCEPT !.consumed = TRUE]
    <2>0. challenges \in Seq(ChallengeRows)  BY DEF FactorTypes
    <2>1. c \in 1..Len(challenges)
      <3>1. attempt[s].at = "mark"  BY <1>10, MovesChallengeConsumed
      <3>. QED  BY <2>0, <3>1 DEF FactorTypes, Informed
    <2>2. row \in ChallengeRows
      <3>1. challenges[c] \in ChallengeRows  BY <2>0, <2>1
      <3>. QED  BY <3>1 DEF ChallengeRows
    <2>3. challenges' = [challenges EXCEPT ![c] = row]  BY <1>10, MovesChallengeConsumed
    <2> HIDE DEF row, c
    <2>4. challenges' \in Seq(ChallengeRows) /\ DOMAIN challenges' = DOMAIN challenges
      BY <2>0, <2>1, <2>2, <2>3, ExceptSeq
    <2>5. /\ Moves(s) /\ attempt[s].at = "mark"
          /\ attempt'[s] = Idle \/ (attempt'[s].at = "reset" /\ KeepsMatch(s))
          /\ UNCHANGED <<clock, enrolments, activations, acct, setup>>
      BY <1>10, MovesChallengeConsumed
    <2>. QED  BY <2>4, <2>5 DEF FactorTypes, Informed, Moves, Keeps, KeepsMatch
  <1>11. ASSUME NEW s \in Logins, FailuresReset(s)  PROVE FactorTypes'
    BY <1>11, MovesFailuresReset DEF FactorTypes, Informed, Moves, Keeps, KeepsMatch
  <1>12. ASSUME NEW s \in Logins, SessionOpened(s)  PROVE FactorTypes'
    BY <1>12, MovesSessionOpened DEF FactorTypes, Informed, Moves, Keeps, KeepsMatch
  <1>13. ASSUME NEW s \in Logins, EnrollClicked(s)  PROVE FactorTypes'
    BY <1>13, MovesEnrollClicked DEF FactorTypes, Informed, Moves, Keeps, KeepsMatch, Setups
  <1>14. ASSUME NEW s \in Logins, SecretStored(s)  PROVE FactorTypes'
    <2>0. /\ enrolments \in Nat /\ enrolments + 1 \in Nat /\ setup \in Setups
          /\ attempt[s].challenge \in Nat
      BY DEF FactorTypes, Attempts
    <2>1. [setup EXCEPT !.step = "scan", !.secret = enrolments + 1] \in Setups
      BY <2>0 DEF Setups
    <2>2. setup' \in Setups
      BY <1>14, <2>0, <2>1, HeardTyped, MovesSecretStored
    <2>3. /\ Moves(s) /\ attempt'[s] = Idle /\ acct' \in Accounts /\ enrolments' \in Nat
          /\ UNCHANGED <<clock, activations, challenges>>
      BY <1>14, <2>0, MovesSecretStored
    <2>. QED  BY <2>2, <2>3 DEF FactorTypes, Informed, Moves
  <1>15. ASSUME NEW s \in Logins, VerifyClicked(s)  PROVE FactorTypes'
    BY <1>15, MovesVerifyClicked DEF FactorTypes, Informed, Moves, Keeps, KeepsMatch, Setups
  <1>16. ASSUME NEW s \in Logins, FactorEnabled(s)  PROVE FactorTypes'
    <2>0. activations + 1 \in Nat  BY DEF FactorTypes
    <2>1. /\ Moves(s) /\ attempt[s].at = "enable" /\ attempt'[s].at = "step"
          /\ attempt'[s].kind = attempt[s].kind /\ acct' \in Accounts /\ activations' \in Nat
          /\ UNCHANGED <<clock, enrolments, challenges, setup>>
      BY <1>16, <2>0, MovesFactorEnabled
    <2>. QED  BY <2>1 DEF FactorTypes, Informed, Moves
  <1>17. ASSUME NEW s \in Logins, StepStored(s)  PROVE FactorTypes'
    <2>0. /\ enrolments \in Nat /\ enrolments + 1 \in Nat /\ setup \in Setups
          /\ attempt[s].challenge \in Nat
      BY DEF FactorTypes, Attempts
    <2>1. [setup EXCEPT !.step = "done", !.shown = attempt[s].challenge] \in Setups
      BY <2>0 DEF Setups
    <2>2. setup' \in Setups
      BY <1>17, <2>0, <2>1, HeardTyped, MovesStepStored
    <2>3. /\ Moves(s) /\ attempt'[s] = Idle /\ acct' \in Accounts /\ enrolments' \in Nat
          /\ UNCHANGED <<clock, enrolments, activations, challenges>>
      BY <1>17, <2>0, MovesStepStored
    <2>. QED  BY <2>2, <2>3 DEF FactorTypes, Informed, Moves
  <1>18. ASSUME NEW s \in Logins, DisableAsked(s)  PROVE FactorTypes'
    BY <1>18, MovesDisableAsked DEF FactorTypes, Informed, Moves, Keeps, KeepsMatch
  <1>19. ASSUME NEW s \in Logins, AdminResets(s)  PROVE FactorTypes'
    BY <1>19, MovesAdminResets DEF FactorTypes, Informed, Moves, Keeps, KeepsMatch
  <1>20. ASSUME NEW s \in Logins, FactorCleared(s)  PROVE FactorTypes'
    BY <1>20, MovesFactorCleared DEF FactorTypes, Informed, Moves, Keeps, KeepsMatch
  <1>21. ASSUME NEW s \in Logins, GivenUp(s)  PROVE FactorTypes'
    <2>0. setup \in Setups  BY DEF FactorTypes
    <2>1. setup' \in Setups  BY <1>21, <2>0, HeardTyped, MovesGivenUp
    <2>. QED  BY <1>21, <2>1, MovesGivenUp DEF FactorTypes, Informed, Moves
  <1>22. ASSUME ClockTicks  PROVE FactorTypes'
    BY <1>22 DEF ClockTicks, FactorTypes, Informed
  <1>23. ASSUME SetupLeft  PROVE FactorTypes'
    <2>1. setup' \in Setups  BY <1>23 DEF SetupLeft, FactorTypes, Setups
    <2>2. UNCHANGED <<clock, enrolments, activations, acct, challenges>> /\ attempt' = Orphaned
      BY <1>23 DEF SetupLeft
    <2>3. /\ attempt' \in [Logins -> Attempts]
          /\ \A s \in Logins :
               /\ attempt'[s].at = attempt[s].at /\ attempt'[s].kind = attempt[s].kind
               /\ attempt'[s].challenge = attempt[s].challenge
               /\ attempt[s] = Idle => attempt'[s] = Idle
      BY <2>2, MovesOrphans
    <2>4. Informed'  BY <2>2, <2>3 DEF FactorTypes, Informed
    <2>. QED  BY <2>1, <2>2, <2>3, <2>4 DEF FactorTypes
  <1>24. ASSUME SetupErrs  PROVE FactorTypes'
    <2>1. setup' \in Setups  BY <1>24 DEF SetupErrs, FactorTypes, Setups
    <2>2. UNCHANGED <<clock, enrolments, activations, acct, challenges>> /\ attempt' = Orphaned
      BY <1>24 DEF SetupErrs
    <2>3. /\ attempt' \in [Logins -> Attempts]
          /\ \A s \in Logins :
               /\ attempt'[s].at = attempt[s].at /\ attempt'[s].kind = attempt[s].kind
               /\ attempt'[s].challenge = attempt[s].challenge
               /\ attempt[s] = Idle => attempt'[s] = Idle
      BY <2>2, MovesOrphans
    <2>4. Informed'  BY <2>2, <2>3 DEF FactorTypes, Informed
    <2>. QED  BY <2>1, <2>2, <2>3, <2>4 DEF FactorTypes
  <1>25. CASE UNCHANGED factorVars  BY <1>25 DEF FactorTypes, Informed
  <1>. QED
    BY <1>1, <1>2, <1>3, <1>4, <1>5, <1>6, <1>7, <1>8, <1>9, <1>10, <1>11, <1>12, <1>13, <1>14,
       <1>15, <1>16, <1>17, <1>18, <1>19, <1>20, <1>21, <1>22, <1>23, <1>24, <1>25
       DEF FactorNext

(* ------------------------------------------------------------------------ *)
(* The lock after failed attempts                                           *)

(* Requests that found the account unlocked and may count a failure yet.   *)
Guessing == {s \in Logins : attempt[s].at \in {"judge", "fail"}}

(* While the account is locked, the failures that are counted and those    *)
(* that may follow do not grow.                                            *)
LockHolds ==
  /\ GuessesBounded
  /\ IsLocked => acct.fails + Cardinality(Guessing) <= MaxFails - 1 + Cardinality(Logins)

LEMMA GuessingFinite ==
  /\ IsFiniteSet(Guessing) /\ Cardinality(Guessing) \in Nat /\ Cardinality(Logins) \in Nat
  /\ Cardinality(Guessing) <= Cardinality(Logins)
  BY FS_Subset, FS_CardinalityType DEF Guessing

(* Only the request that moves can join those that guess.                  *)
LEMMA GuessersAre ==
  ASSUME NEW s \in Logins, Moves(s),
         attempt'[s].at \notin {"judge", "fail"} \/ attempt[s].at \in {"judge", "fail"}
  PROVE  Guessing' \subseteq Guessing
  BY DEF Moves, Guessing

(* A step that counts nothing and lets nobody past the lock.               *)
LEMMA FewerGuess ==
  ASSUME FactorTypes, LockHolds, LockKept, clock' \in {clock, clock + 1},
         IsLocked => Guessing' \subseteq Guessing
  PROVE  LockHolds'
PROOF
  <1>1. IsLocked' => IsLocked  BY DEF IsLocked, LockKept, FactorTypes, Accounts
  <1>2. GuessesBounded'  BY DEF LockHolds, GuessesBounded, LockKept
  <1>3. ASSUME IsLocked'
        PROVE  acct'.fails + Cardinality(Guessing') <= MaxFails - 1 + Cardinality(Logins)
    <2>1. Guessing' \subseteq Guessing  BY <1>1, <1>3
    <2>2. /\ IsFiniteSet(Guessing') /\ Cardinality(Guessing') \in Nat
          /\ Cardinality(Guessing') <= Cardinality(Guessing)
      BY <2>1, GuessingFinite, FS_Subset, FS_CardinalityType
    <2>3. acct'.fails = acct.fails /\ acct.fails \in Nat
      BY DEF LockKept, FactorTypes, Accounts
    <2>. QED  BY <1>1, <1>3, <2>2, <2>3, GuessingFinite DEF LockHolds
  <1>. QED  BY <1>2, <1>3 DEF LockHolds

LEMMA LockInitially == FactorInit => LockHolds
PROOF
  <1> SUFFICES ASSUME FactorInit  PROVE LockHolds
    OBVIOUS
  <1>1. acct.fails = 0 /\ acct.until = 0  BY DEF FactorInit
  <1>. QED  BY <1>1, GuessingFinite DEF LockHolds, GuessesBounded, IsLocked

LEMMA LockKeptAlways == FactorTypes /\ LockHolds /\ [FactorNext]_factorVars => LockHolds'
PROOF
  <1> SUFFICES ASSUME FactorTypes, LockHolds, [FactorNext]_factorVars  PROVE LockHolds'
    OBVIOUS
  <1>1. ASSUME NEW s \in Logins, PasswordLogin(s)  PROVE LockHolds'
    <2>1. LockKept /\ clock' = clock /\ Guessing' \subseteq Guessing
      BY <1>1, MovesPasswordLogin, IdleFields, GuessersAre DEF LockKept
    <2>. QED  BY <2>1, FewerGuess
  <1>2. ASSUME NEW s \in Logins, SecondStep(s)  PROVE LockHolds'
    <2>1. LockKept /\ clock' = clock /\ Guessing' \subseteq Guessing
      BY <1>2, MovesSecondStep, IdleFields, GuessersAre DEF LockKept
    <2>. QED  BY <2>1, FewerGuess
  <1>3. ASSUME NEW s \in Logins, UserRead(s)  PROVE LockHolds'
    <2>1. LockKept /\ clock' = clock /\ Guessing' \subseteq Guessing
      BY <1>3, MovesUserRead, IdleFields, GuessersAre DEF LockKept
    <2>. QED  BY <2>1, FewerGuess
  <1>4. ASSUME NEW s \in Logins, LockChecked(s)  PROVE LockHolds'
    <2>1. /\ LockKept /\ clock' = clock
          /\ IsLocked => Guessing' \subseteq Guessing
      BY <1>4, MovesLockChecked, IdleFields, GuessersAre DEF LockKept
    <2>. QED  BY <2>1, FewerGuess
  <1>5. ASSUME NEW s \in Logins, ChallengeIssued(s)  PROVE LockHolds'
    <2>1. LockKept /\ clock' = clock /\ Guessing' \subseteq Guessing
      BY <1>5, MovesChallengeIssued, IdleFields, GuessersAre DEF LockKept
    <2>. QED  BY <2>1, FewerGuess
  <1>6. ASSUME NEW s \in Logins, CodeJudged(s)  PROVE LockHolds'
    <2>1. LockKept /\ clock' = clock /\ Guessing' \subseteq Guessing
      BY <1>6, MovesCodeJudged, IdleFields, GuessersAre DEF LockKept
    <2>. QED  BY <2>1, FewerGuess
  <1>7. ASSUME NEW s \in Logins, RecoveryJudged(s)  PROVE LockHolds'
    <2>1. LockKept /\ clock' = clock /\ Guessing' \subseteq Guessing
      BY <1>7, MovesRecoveryJudged, IdleFields, GuessersAre DEF LockKept
    <2>. QED  BY <2>1, FewerGuess
  <1>8. ASSUME NEW s \in Logins, FailureCounted(s)  PROVE LockHolds'
    <2>1. /\ s \in Guessing /\ Guessing' = Guessing \ {s} /\ clock' = clock
          /\ acct'.fails = Counted /\ acct'.until = LockedUntil
      BY <1>8, MovesFailureCounted, IdleFields DEF Moves, Guessing
    <2>2. Cardinality(Guessing') = Cardinality(Guessing) - 1
      BY <2>1, GuessingFinite, FS_RemoveElement
    <2>3. Cardinality(Guessing) \in 1..Cardinality(Logins)
      BY <2>1, <2>2, GuessingFinite, FS_EmptySet
    <2>4. /\ acct.fails \in Nat /\ acct.until \in Nat /\ clock \in Nat \ {0}
          /\ acct.fails >= MaxFails <=> acct.until # 0
          /\ acct.fails <= MaxFails - 1 + Cardinality(Logins)
          /\ IsLocked => acct.fails + Cardinality(Guessing) <= MaxFails - 1 + Cardinality(Logins)
      BY DEF FactorTypes, Accounts, LockHolds, GuessesBounded
    <2> HIDE DEF Guessing
    <2>5. CASE LockIsOver
      <3>1. acct'.fails = 1 /\ acct'.until = 0  BY <2>1, <2>5 DEF Counted, LockedUntil
      <3>. QED  BY <2>3, <3>1, GuessingFinite DEF LockHolds, GuessesBounded, IsLocked
    <2>6. CASE ~LockIsOver
      <3>1. acct'.fails = acct.fails + 1  BY <2>1, <2>6 DEF Counted
      <3>2. CASE acct.fails + 1 >= MaxFails
        <4>1. acct'.until = clock + LockSteps /\ acct'.until # 0
          BY <2>1, <2>4, <2>6, <3>2 DEF LockedUntil
        <4>2. acct.fails + Cardinality(Guessing) <= MaxFails - 1 + Cardinality(Logins)
          BY <2>3, <2>4, <2>6, GuessingFinite DEF LockIsOver, IsLocked
        <4>3. acct'.fails + Cardinality(Guessing') <= MaxFails - 1 + Cardinality(Logins)
          BY <2>2, <2>3, <2>4, <3>1, <4>2, GuessingFinite
        <4>4. acct'.fails <= MaxFails - 1 + Cardinality(Logins)
          BY <2>3, <2>4, <3>1, <4>2, GuessingFinite
        <4>5. acct'.fails >= MaxFails /\ acct'.until # 0  BY <3>1, <3>2, <4>1
        <4>. QED  BY <4>3, <4>4, <4>5 DEF LockHolds, GuessesBounded
      <3>3. CASE acct.fails + 1 < MaxFails
        <4>1. acct'.until = 0  BY <2>1, <2>4, <2>6, <3>3 DEF LockedUntil
        <4>2. acct'.fails <= MaxFails - 1 + Cardinality(Logins) /\ ~(acct'.fails >= MaxFails)
          BY <2>3, <2>4, <3>1, <3>3, GuessingFinite
        <4>. QED  BY <4>1, <4>2 DEF LockHolds, GuessesBounded, IsLocked
      <3>. QED  BY <2>4, <3>2, <3>3
    <2>. QED  BY <2>5, <2>6
  <1>9. ASSUME NEW s \in Logins, ChallengeRead(s)  PROVE LockHolds'
    <2>1. LockKept /\ clock' = clock /\ Guessing' \subseteq Guessing
      BY <1>9, MovesChallengeRead, IdleFields, GuessersAre DEF LockKept
    <2>. QED  BY <2>1, FewerGuess
  <1>10. ASSUME NEW s \in Logins, ChallengeConsumed(s)  PROVE LockHolds'
    <2>1. LockKept /\ clock' = clock /\ Guessing' \subseteq Guessing
      BY <1>10, MovesChallengeConsumed, IdleFields, GuessersAre DEF LockKept
    <2>. QED  BY <2>1, FewerGuess
  <1>11. ASSUME NEW s \in Logins, FailuresReset(s)  PROVE LockHolds'
    <2>1. acct'.fails = 0 /\ acct'.until = 0  BY <1>11, MovesFailuresReset
    <2>. QED  BY <2>1, GuessingFinite DEF LockHolds, GuessesBounded, IsLocked
  <1>12. ASSUME NEW s \in Logins, SessionOpened(s)  PROVE LockHolds'
    <2>1. LockKept /\ clock' = clock /\ Guessing' \subseteq Guessing
      BY <1>12, MovesSessionOpened, IdleFields, GuessersAre DEF LockKept
    <2>. QED  BY <2>1, FewerGuess
  <1>13. ASSUME NEW s \in Logins, EnrollClicked(s)  PROVE LockHolds'
    <2>1. LockKept /\ clock' = clock /\ Guessing' \subseteq Guessing
      BY <1>13, MovesEnrollClicked, IdleFields, GuessersAre DEF LockKept
    <2>. QED  BY <2>1, FewerGuess
  <1>14. ASSUME NEW s \in Logins, SecretStored(s)  PROVE LockHolds'
    <2>1. LockKept /\ clock' = clock /\ Guessing' \subseteq Guessing
      BY <1>14, MovesSecretStored, IdleFields, GuessersAre DEF LockKept
    <2>. QED  BY <2>1, FewerGuess
  <1>15. ASSUME NEW s \in Logins, VerifyClicked(s)  PROVE LockHolds'
    <2>1. LockKept /\ clock' = clock /\ Guessing' \subseteq Guessing
      BY <1>15, MovesVerifyClicked, IdleFields, GuessersAre DEF LockKept
    <2>. QED  BY <2>1, FewerGuess
  <1>16. ASSUME NEW s \in Logins, FactorEnabled(s)  PROVE LockHolds'
    <2>1. LockKept /\ clock' = clock /\ Guessing' \subseteq Guessing
      BY <1>16, MovesFactorEnabled, IdleFields, GuessersAre DEF LockKept
    <2>. QED  BY <2>1, FewerGuess
  <1>17. ASSUME NEW s \in Logins, StepStored(s)  PROVE LockHolds'
    <2>1. LockKept /\ clock' = clock /\ Guessing' \subseteq Guessing
      BY <1>17, MovesStepStored, IdleFields, GuessersAre DEF LockKept
    <2>. QED  BY <2>1, FewerGuess
  <1>18. ASSUME NEW s \in Logins, DisableAsked(s)  PROVE LockHolds'
    <2>1. LockKept /\ clock' = clock /\ Guessing' \subseteq Guessing
      BY <1>18, MovesDisableAsked, IdleFields, GuessersAre DEF LockKept
    <2>. QED  BY <2>1, FewerGuess
  <1>19. ASSUME NEW s \in Logins, AdminResets(s)  PROVE LockHolds'
    <2>1. LockKept /\ clock' = clock /\ Guessing' \subseteq Guessing
      BY <1>19, MovesAdminResets, IdleFields, GuessersAre DEF LockKept
    <2>. QED  BY <2>1, FewerGuess
  <1>20. ASSUME NEW s \in Logins, FactorCleared(s)  PROVE LockHolds'
    <2>1. LockKept /\ clock' = clock /\ Guessing' \subseteq Guessing
      BY <1>20, MovesFactorCleared, IdleFields, GuessersAre DEF LockKept
    <2>. QED  BY <2>1, FewerGuess
  <1>21. ASSUME NEW s \in Logins, GivenUp(s)  PROVE LockHolds'
    <2>1. LockKept /\ clock' = clock /\ Guessing' \subseteq Guessing
      BY <1>21, MovesGivenUp, IdleFields, GuessersAre DEF LockKept
    <2>. QED  BY <2>1, FewerGuess
  <1>22. ASSUME ClockTicks  PROVE LockHolds'
    <2>1. LockKept /\ clock' = clock + 1 /\ Guessing' = Guessing
      BY <1>22 DEF ClockTicks, LockKept, Guessing
    <2>. QED  BY <2>1, FewerGuess
  <1>23. ASSUME SetupLeft  PROVE LockHolds'
    <2>1. LockKept /\ clock' = clock /\ attempt' = Orphaned  BY <1>23 DEF SetupLeft, LockKept
    <2>2. Guessing' = Guessing  BY <2>1, MovesOrphans DEF Guessing
    <2>. QED  BY <2>1, <2>2, FewerGuess
  <1>24. ASSUME SetupErrs  PROVE LockHolds'
    <2>1. LockKept /\ clock' = clock /\ attempt' = Orphaned  BY <1>24 DEF SetupErrs, LockKept
    <2>2. Guessing' = Guessing  BY <2>1, MovesOrphans DEF Guessing
    <2>. QED  BY <2>1, <2>2, FewerGuess
  <1>25. CASE UNCHANGED factorVars  BY <1>25 DEF LockHolds, GuessesBounded, IsLocked, Guessing
  <1>. QED
    BY <1>1, <1>2, <1>3, <1>4, <1>5, <1>6, <1>7, <1>8, <1>9, <1>10, <1>11, <1>12, <1>13, <1>14,
       <1>15, <1>16, <1>17, <1>18, <1>19, <1>20, <1>21, <1>22, <1>23, <1>24, <1>25
       DEF FactorNext


(* The failures that are counted stay bounded, whatever interleaves with   *)
(* the lock (increment_failed_login, is_locked).                           *)
THEOREM FailuresBounded == FactorSpec => []GuessesBounded
PROOF
  <1>1. LockHolds => GuessesBounded  BY DEF LockHolds
  <1>. QED  BY <1>1, TypesInitially, TypesKept, LockInitially, LockKeptAlways, PTL DEF FactorSpec

(* ------------------------------------------------------------------------ *)
(* What opens a session                                                     *)

UsedTyped == used \subseteq TotpCodes \cup RecoveryCodes \cup ({"challenge"} \X Nat)

(* A recovery code is on the row, on its way with one request, or used; the*)
(* codes of a new activation are none of these.                            *)
RecoveryOnce ==
  /\ \A c \in acct.codes : /\ c[2] <= activations /\ c \notin used
                           /\ \A s \in Logins : attempt[s].match # c
  /\ \A s \in Logins : attempt[s].match \in RecoveryCodes =>
       /\ attempt[s].match[2] <= activations /\ attempt[s].match \notin used
       /\ \A q \in Logins \ {s} : attempt[q].match # attempt[s].match
  /\ \A c \in used : c \in RecoveryCodes => c[2] <= activations

(* A code of the authenticator that was accepted is behind the step of the *)
(* row, or its secret is one whose steps the row forgot.                   *)
TotpOnce ==
  /\ \A c \in Accepted : c[3] <= acct.last \/ c[2] \in rewound
  /\ \A s \in Logins : attempt[s].match \in TotpCodes /\ attempt[s].match[2] \notin rewound =>
       /\ attempt[s].match \notin used
       /\ \A q \in Logins \ {s} : attempt[q].match # attempt[s].match

(* A request that got through with the challenge it answers by the         *)
(* authenticator is the only one, and the challenge is consumed.           *)
Winner(s) == attempt[s].kind = "totp" /\ attempt[s].at \in {"reset", "issue"}
Consumed(c) == c \in DOMAIN challenges /\ challenges[c].consumed
ChallengeOnce ==
  /\ \A n \in Nat : <<"challenge", n>> \in used => Consumed(n)
  /\ \A s \in Logins : Winner(s) =>
       /\ Consumed(attempt[s].challenge) /\ <<"challenge", attempt[s].challenge>> \notin used
       /\ \A q \in Logins \ {s} : Winner(q) => attempt[q].challenge # attempt[s].challenge

OnceInv == UsedTyped /\ RecoveryOnce /\ TotpOnce /\ ChallengeOnce /\ OneSessionEach

(* What most steps are: nobody gets hold of a code or of a challenge.      *)
SameMatches == \A q \in Logins : attempt'[q].match \in {<<>>, attempt[q].match}
SameWinners == \A q \in Logins : Winner(q)' =>
                 Winner(q) /\ attempt'[q].challenge = attempt[q].challenge
ConsumedStay == \A n \in Nat : Consumed(n) => Consumed(n)'
Quiet ==
  /\ SameMatches /\ SameWinners
  /\ acct'.codes = acct.codes /\ acct'.last = acct.last
  /\ UNCHANGED <<activations, challenges, used, twice, rewound>>

LEMMA RequestQuiet ==
  ASSUME FactorTypes, NEW s \in Logins, Moves(s),
         attempt'[s].match \in {<<>>, attempt[s].match},
         attempt'[s].kind = "totp" /\ attempt'[s].at \in {"reset", "issue"} =>
           Winner(s) /\ attempt'[s].challenge = attempt[s].challenge
  PROVE  SameMatches /\ SameWinners
  BY DEF Moves, SameMatches, SameWinners, Winner

LEMMA AcceptedTyped ==
  ASSUME FactorTypes, UsedTyped
  PROVE  Accepted \subseteq TotpCodes
  BY DEF FactorTypes, Attempts, UsedTyped, Accepted, TotpCodes, RecoveryCodes

(* Nothing is accepted that was not accepted before.                       *)
LEMMA NothingAccepted ==
  ASSUME SameMatches, used' = used
  PROVE  Accepted' \subseteq Accepted
  BY DEF SameMatches, Accepted

LEMMA UsedFrame ==
  ASSUME OnceInv, used' = used, twice' = twice, rewound \subseteq rewound'
  PROVE  UsedTyped' /\ OneSessionEach'
  BY DEF OnceInv, UsedTyped, OneSessionEach

LEMMA RecoveryFrame ==
  ASSUME FactorTypes, RecoveryOnce, SameMatches, used' = used, acct'.codes \subseteq acct.codes,
         activations' = activations
  PROVE  RecoveryOnce'
  <1>1. <<>> \notin RecoveryCodes  BY DEF RecoveryCodes
  <1>2. ASSUME NEW c \in acct'.codes
        PROVE  /\ c[2] <= activations' /\ c \notin used'
               /\ \A s \in Logins : attempt'[s].match # c
    <2>1. c \in acct.codes /\ c \in RecoveryCodes
      BY <1>2 DEF FactorTypes, Accounts
    <2>2. c # <<>>  BY <1>1, <2>1
    <2>. QED  BY <2>1, <2>2 DEF RecoveryOnce, SameMatches
  <1>3. ASSUME NEW s \in Logins, attempt'[s].match \in RecoveryCodes
        PROVE  /\ attempt'[s].match[2] <= activations' /\ attempt'[s].match \notin used'
               /\ \A q \in Logins \ {s} : attempt'[q].match # attempt'[s].match
    <2>1. attempt'[s].match = attempt[s].match /\ attempt'[s].match # <<>>
      BY <1>1, <1>3 DEF SameMatches
    <2>. QED  BY <1>3, <2>1 DEF RecoveryOnce, SameMatches
  <1>. QED  BY <1>2, <1>3 DEF RecoveryOnce

LEMMA TotpFrame ==
  ASSUME TotpOnce, SameMatches, used' = used, rewound \subseteq rewound',
         acct'.last = acct.last \/ Forgets(acct'.last), acct'.last \in Nat,
         FactorTypes, UsedTyped
  PROVE  TotpOnce'
  <1>1. Accepted' \subseteq Accepted /\ Accepted \subseteq TotpCodes
    BY NothingAccepted, AcceptedTyped
  <1>2. ASSUME NEW c \in Accepted'  PROVE c[3] <= acct'.last \/ c[2] \in rewound'
    <2>1. c \in Accepted /\ c[3] \in Nat  BY <1>1, <1>2 DEF TotpCodes
    <2>2. CASE Forgets(acct'.last)  BY <2>1, <2>2 DEF Forgets
    <2>3. CASE acct'.last = acct.last  BY <2>1, <2>3 DEF TotpOnce
    <2>. QED  BY <2>2, <2>3
  <1>3. <<>> \notin TotpCodes  BY DEF TotpCodes
  <1>. QED  BY <1>2, <1>3 DEF TotpOnce, SameMatches

LEMMA ChallengeFrame ==
  ASSUME ChallengeOnce, FactorTypes, SameWinners, used' = used, ConsumedStay
  PROVE  ChallengeOnce'
  <1>1. \A s \in Logins : attempt[s].challenge \in Nat  BY DEF FactorTypes, Attempts
  <1>. QED  BY <1>1 DEF ChallengeOnce, SameWinners, ConsumedStay

LEMMA QuietKeeps == FactorTypes /\ OnceInv /\ Quiet => OnceInv'
  <1> SUFFICES ASSUME FactorTypes, OnceInv, Quiet  PROVE OnceInv'
    OBVIOUS
  <1>1. /\ SameMatches /\ SameWinners /\ acct'.codes = acct.codes /\ acct'.last = acct.last
        /\ UNCHANGED <<activations, used, twice, rewound>> /\ ConsumedStay
    BY DEF Quiet, ConsumedStay, Consumed
  <1>2. acct'.last \in Nat  BY <1>1 DEF FactorTypes, Accounts
  <1>3. UsedTyped /\ RecoveryOnce /\ TotpOnce /\ ChallengeOnce  BY DEF OnceInv
  <1>4. UsedTyped' /\ OneSessionEach'  BY <1>1, UsedFrame
  <1>5. RecoveryOnce'  BY <1>1, <1>3, RecoveryFrame
  <1>6. TotpOnce'  BY <1>1, <1>2, <1>3, TotpFrame
  <1>7. ChallengeOnce'  BY <1>1, <1>3, ChallengeFrame
  <1>. QED  BY <1>4, <1>5, <1>6, <1>7 DEF OnceInv

LEMMA QuietSteps ==
  ASSUME FactorTypes, NEW s \in Logins,
         \/ PasswordLogin(s) \/ SecondStep(s) \/ UserRead(s) \/ LockChecked(s)
         \/ FailureCounted(s) \/ ChallengeRead(s) \/ FailuresReset(s) \/ EnrollClicked(s)
         \/ VerifyClicked(s) \/ DisableAsked(s) \/ AdminResets(s) \/ GivenUp(s)
  PROVE  Quiet
PROOF
  <1> USE IdleFields, RequestQuiet DEF Quiet, KeepsMatch, Keeps, Winner
  <1>0. attempt[s].at \in {"user", "judge", "look", "mark"} =>
          attempt[s].kind \in {"totp", "recovery"}
    BY DEF FactorTypes, Informed
  <1>1. CASE PasswordLogin(s)  BY <1>1, MovesPasswordLogin
  <1>2. CASE SecondStep(s)  BY <1>2, MovesSecondStep
  <1>3. CASE UserRead(s)  BY <1>3, MovesUserRead
  <1>4. CASE LockChecked(s)  BY <1>4, <1>0, MovesLockChecked
  <1>5. CASE FailureCounted(s)  BY <1>5, MovesFailureCounted DEF FactorKept
  <1>6. CASE ChallengeRead(s)  BY <1>6, <1>0, MovesChallengeRead
  <1>7. CASE FailuresReset(s)  BY <1>7, MovesFailuresReset DEF FactorKept
  <1>8. CASE EnrollClicked(s)  BY <1>8, MovesEnrollClicked
  <1>9. CASE VerifyClicked(s)  BY <1>9, MovesVerifyClicked
  <1>10. CASE DisableAsked(s)  BY <1>10, MovesDisableAsked
  <1>11. CASE AdminResets(s)  BY <1>11, MovesAdminResets
  <1>12. CASE GivenUp(s)  BY <1>12, MovesGivenUp
  <1>. QED  BY <1>1, <1>2, <1>3, <1>4, <1>5, <1>6, <1>7, <1>8, <1>9, <1>10, <1>11, <1>12

LEMMA OnceChallengeIssued ==
  ASSUME FactorTypes, OnceInv, NEW s \in Logins, ChallengeIssued(s)
  PROVE  OnceInv'
PROOF
  <1> DEFINE row == [consumed |-> FALSE, until |-> clock + Life]
  <1>1. /\ SameMatches /\ SameWinners /\ acct' = acct
        /\ UNCHANGED <<activations, used, twice,
                       rewound>> /\ challenges' = Append(challenges, row)
    BY MovesChallengeIssued, IdleFields, RequestQuiet
  <1>2. ConsumedStay
    <2>1. row \in ChallengeRows /\ challenges \in Seq(ChallengeRows)
      BY DEF FactorTypes, ChallengeRows
    <2> HIDE DEF row
    <2>. QED  BY <1>1, <2>1 DEF ConsumedStay, Consumed
  <1>3. UsedTyped /\ RecoveryOnce /\ TotpOnce /\ ChallengeOnce  BY DEF OnceInv
  <1>4. acct'.last \in Nat  BY <1>1 DEF FactorTypes, Accounts
  <1>. QED
    BY <1>1, <1>2, <1>3, <1>4, UsedFrame, RecoveryFrame, TotpFrame, ChallengeFrame DEF OnceInv

(* The update of consume: whoever finds the challenge unconsumed has it.   *)
LEMMA OnceChallengeConsumed ==
  ASSUME FactorTypes, OnceInv, NEW s \in Logins, ChallengeConsumed(s)
  PROVE  OnceInv'
PROOF
  <1>. PICK c \in DOMAIN challenges : c = attempt[s].challenge
    BY MovesChallengeConsumed DEF FactorTypes, Informed
  <1>0. /\ Moves(s) /\ (attempt'[s] = Idle \/ KeepsMatch(s))
        /\ attempt'[s].kind = "totp" /\ attempt'[s].at \in {"reset", "issue"} =>
             ~challenges[c].consumed /\ attempt'[s].challenge = c
        /\ acct' = acct /\ UNCHANGED <<activations, used, twice, rewound>>
        /\ challenges' = [challenges EXCEPT ![c].consumed = TRUE]
    BY MovesChallengeConsumed, IdleFields DEF KeepsMatch, Keeps
  <1>1. SameMatches  BY <1>0, IdleFields DEF Moves, SameMatches, KeepsMatch
  <1>2. c \in Nat
    BY DEF FactorTypes, Attempts
  <1>3. ConsumedStay /\ Consumed(c)'
    <2>1. challenges \in Seq(ChallengeRows)  BY DEF FactorTypes
    <2>2. challenges' = [challenges EXCEPT ![c] = [challenges[c] EXCEPT !.consumed = TRUE]]
      BY <1>0
    <2>3. \A n \in DOMAIN challenges : challenges[n] \in ChallengeRows
      BY <2>1
    <2>4. [challenges[c] EXCEPT !.consumed = TRUE].consumed = TRUE
      BY <2>3 DEF ChallengeRows
    <2>5. /\ DOMAIN challenges' = DOMAIN challenges /\ challenges'[c].consumed
          /\ \A n \in DOMAIN challenges : n # c => challenges'[n] = challenges[n]
      BY <2>2, <2>4
    <2>. QED  BY <1>2, <2>5 DEF ConsumedStay, Consumed
  <1>4. UsedTyped /\ RecoveryOnce /\ TotpOnce /\ ChallengeOnce  BY DEF OnceInv
  <1>5. acct'.last \in Nat  BY <1>0 DEF FactorTypes, Accounts
  <1>6. UsedTyped' /\ OneSessionEach' /\ RecoveryOnce' /\ TotpOnce'
    BY <1>0, <1>1, <1>4, <1>5, UsedFrame, RecoveryFrame, TotpFrame
  <1>7. ASSUME Winner(s)'  PROVE ChallengeOnce'
    <2>1. ~Consumed(c) /\ attempt'[s].challenge = c
      BY <1>0, <1>7 DEF Winner, Consumed
    <2>2. /\ <<"challenge", c>> \notin used
          /\ \A q \in Logins : Winner(q) => attempt[q].challenge # c
      BY <2>1, <1>4 DEF ChallengeOnce, FactorTypes, Attempts
    <2>3. /\ \A q \in Logins \ {s} : attempt'[q] = attempt[q]
          /\ \A q \in Logins : attempt[q].challenge \in Nat
      BY <1>0 DEF Moves, FactorTypes, Attempts
    <2>4. \A n \in Nat : <<"challenge", n>> \in used' => Consumed(n)'
      BY <1>0, <1>3, <1>4 DEF ChallengeOnce, ConsumedStay
    <2>5. ASSUME NEW q \in Logins, Winner(q)'
          PROVE  /\ Consumed(attempt[q].challenge)' /\ <<"challenge", attempt'[q].challenge>> \notin used'
                 /\ \A r \in Logins \ {q} : Winner(r)' => attempt'[r].challenge # attempt'[q].challenge
      <3>1. CASE q = s
        BY <3>1, <1>0, <1>3, <2>1, <2>2, <2>3 DEF Winner
      <3>2. CASE q # s
        BY <3>2, <1>0, <1>3, <1>4, <2>1, <2>2, <2>3, <2>5 DEF Winner, ChallengeOnce, ConsumedStay
      <3>. QED  BY <3>1, <3>2
    <2>. QED  BY <2>4, <2>5 DEF ChallengeOnce
  <1>8. ASSUME ~Winner(s)'  PROVE ChallengeOnce'
    <2>1. SameWinners  BY <1>0, <1>8 DEF SameWinners, Moves, Winner
    <2>. QED  BY <1>0, <1>3, <1>4, <2>1, ChallengeFrame
  <1>9. ChallengeOnce'  BY <1>7, <1>8
  <1>. QED  BY <1>6, <1>9 DEF OnceInv

(* consume_recovery_code: the code leaves the row with the one request     *)
(* that finds it there.                                                    *)
LEMMA OnceRecoveryJudged ==
  ASSUME FactorTypes, OnceInv, NEW s \in Logins, RecoveryJudged(s)
  PROVE  OnceInv'
PROOF
  <1>0. UsedTyped /\ RecoveryOnce /\ TotpOnce /\ ChallengeOnce /\ OneSessionEach  BY DEF OnceInv
  <1>1. CASE Quiet  BY <1>1, QuietKeeps
  <1>2. ASSUME NEW c \in acct.codes, Moves(s), Keeps(s), attempt[s].at = "judge",
               attempt'[s].at = "look", attempt'[s].match = c,
               acct'.codes = acct.codes \ {c}, acct'.last = acct.last,
               UNCHANGED <<activations, challenges, used, twice, rewound>>
        PROVE  OnceInv'
    <2>1. c \in RecoveryCodes /\ c \notin TotpCodes /\ c # <<>> /\ c[1] # "totp"
      BY DEF FactorTypes, Accounts, RecoveryCodes, TotpCodes
    <2>2. SameWinners /\ ConsumedStay
      BY <1>2 DEF Moves, SameWinners, Winner, ConsumedStay, Consumed
    <2>3. \A q \in Logins \ {s} : attempt'[q].match = attempt[q].match  BY <1>2 DEF Moves
    <2>4. RecoveryOnce'  BY <1>0, <1>2, <2>1, <2>3 DEF RecoveryOnce
    <2>5. Accepted' \subseteq Accepted  BY <1>2, <2>1, <2>3 DEF Accepted
    <2>6. TotpOnce'  BY <1>0, <1>2, <2>1, <2>3, <2>5 DEF TotpOnce
    <2>7. ChallengeOnce'  BY <1>0, <1>2, <2>2, ChallengeFrame
    <2>8. UsedTyped' /\ OneSessionEach'  BY <1>2, UsedFrame
    <2>. QED  BY <2>4, <2>6, <2>7, <2>8 DEF OnceInv
  <1>3. CASE UNCHANGED acct
    <2>1. /\ attempt'[s] = Idle \/ (attempt'[s].at = "fail" /\ KeepsMatch(s))
          /\ Moves(s) /\ UNCHANGED <<activations, challenges, used, twice, rewound>>
      BY <1>3, MovesRecoveryJudged DEF Written
    <2>2. Quiet
      BY <1>3, <2>1, IdleFields, RequestQuiet DEF Quiet, KeepsMatch, Keeps, Winner
    <2>. QED  BY <2>2, <1>1
  <1>. QED  BY <1>2, <1>3, MovesRecoveryJudged DEF Written

(* advance_totp_step: the step is written if it is after the row's.        *)
LEMMA OnceCodeJudged ==
  ASSUME FactorTypes, OnceInv, NEW s \in Logins, CodeJudged(s)
  PROVE  OnceInv'
PROOF
  <1>0. UsedTyped /\ RecoveryOnce /\ TotpOnce /\ ChallengeOnce /\ OneSessionEach  BY DEF OnceInv
  <1>1. CASE Quiet  BY <1>1, QuietKeeps
  <1> DEFINE code(t) == <<"totp", attempt[s].user.secret, t>>
  <1>2. ASSUME NEW t \in Nat, acct.last < t, Moves(s), Keeps(s), attempt[s].at = "judge",
               attempt'[s].at = "look", attempt'[s].match = code(t),
               acct'.codes = acct.codes, acct'.last = t,
               UNCHANGED <<activations, challenges, used, twice, rewound>>
        PROVE  OnceInv'
    <2>1. /\ code(t) \in TotpCodes /\ code(t) \notin RecoveryCodes
          /\ code(t)[1] = "totp" /\ code(t)[3] = t /\ acct.last \in Nat
      BY DEF FactorTypes, Accounts, Attempts, Snapshots, RecoveryCodes, TotpCodes
    <2> DEFINE c == code(t)
    <2>2. c \in TotpCodes /\ c \notin RecoveryCodes /\ c[3] = t /\ acct.codes \subseteq RecoveryCodes
      BY <2>1 DEF FactorTypes, Accounts
    <2>3. attempt'[s].match = c  BY <1>2
    <2> HIDE DEF c, code
    <2>4. SameWinners /\ ConsumedStay
      BY <1>2 DEF Moves, SameWinners, Winner, ConsumedStay, Consumed
    <2>5. \A q \in Logins \ {s} : attempt'[q].match = attempt[q].match  BY <1>2 DEF Moves
    <2>6. RecoveryOnce'  BY <1>0, <1>2, <2>2, <2>3, <2>5 DEF RecoveryOnce
    <2>7. Accepted \subseteq TotpCodes /\ Accepted' \subseteq Accepted \cup {c}
      BY <1>0, <1>2, <2>3, <2>5, AcceptedTyped DEF Accepted
    <2>8. \A d \in Accepted' : d[3] <= acct'.last \/ d[2] \in rewound'
      BY <1>0, <1>2, <2>1, <2>2, <2>7 DEF TotpOnce, TotpCodes
    <2>9. ASSUME c[2] \notin rewound
          PROVE  c \notin used /\ \A q \in Logins : attempt[q].match # c
      <3>1. c \notin Accepted  BY <1>0, <1>2, <2>1, <2>2, <2>9 DEF TotpOnce
      <3>2. c # <<>> /\ c[1] = "totp"  BY <2>1 DEF c, code
      <3>. QED  BY <3>1, <3>2 DEF Accepted
    <2>10. TotpOnce'  BY <1>0, <1>2, <2>2, <2>3, <2>5, <2>8, <2>9 DEF TotpOnce
    <2>11. ChallengeOnce'  BY <1>0, <1>2, <2>4, ChallengeFrame
    <2>12. UsedTyped' /\ OneSessionEach'  BY <1>2, UsedFrame
    <2>. QED  BY <2>6, <2>10, <2>11, <2>12 DEF OnceInv
  <1>3. CASE attempt'[s].at = "fail" /\ KeepsMatch(s) /\ UNCHANGED acct
    <2>1. Quiet  BY <1>3, MovesCodeJudged, RequestQuiet DEF Quiet, KeepsMatch, Keeps, Winner
    <2>. QED  BY <2>1, <1>1
  <1>. QED  BY <1>2, <1>3, MovesCodeJudged DEF FactorKept

(* What a request brings with it passes to the session.                    *)
LEMMA CredentialsAre ==
  ASSUME FactorTypes, NEW s \in Logins
  PROVE  /\ Credentials(attempt[s]) \subseteq TotpCodes \cup RecoveryCodes \cup ({"challenge"} \X Nat)
         /\ \A c \in Credentials(attempt[s]) :
              \/ c = attempt[s].match /\ c \in TotpCodes \cup RecoveryCodes
              \/ attempt[s].kind = "totp" /\ c = <<"challenge", attempt[s].challenge>>
         /\ attempt[s].kind # "totp" => \A n \in Nat : <<"challenge", n>> \notin Credentials(attempt[s])
  <1>1. /\ attempt[s].match \in {<<>>} \cup TotpCodes \cup RecoveryCodes
        /\ attempt[s].challenge \in Nat
    BY DEF FactorTypes, Attempts
  <1>2. \A n \in Nat : <<"challenge", n>> \notin TotpCodes \cup RecoveryCodes
    BY DEF TotpCodes, RecoveryCodes
  <1>. QED  BY <1>1, <1>2 DEF Credentials

LEMMA OnceSessionOpened ==
  ASSUME FactorTypes, OnceInv, NEW s \in Logins, SessionOpened(s)
  PROVE  OnceInv'
PROOF
  <1> DEFINE Typed == TotpCodes \cup RecoveryCodes \cup ({"challenge"} \X Nat)
  <1>0. UsedTyped /\ RecoveryOnce /\ TotpOnce /\ ChallengeOnce /\ OneSessionEach  BY DEF OnceInv
  <1>. PICK mine \in SUBSET Typed : mine = Credentials(attempt[s])
    BY CredentialsAre
  <1>1. /\ Moves(s) /\ attempt[s].at = "issue" /\ attempt'[s] = Idle
        /\ used' = used \cup mine /\ twice' = twice \cup (mine \cap used)
        /\ UNCHANGED <<acct, activations, challenges, rewound>>
    BY MovesSessionOpened
  <1>2. /\ \A c \in mine : \/ c = attempt[s].match /\ c \in TotpCodes \cup RecoveryCodes
                           \/ Winner(s) /\ c = <<"challenge", attempt[s].challenge>>
        /\ ~Winner(s) => \A n \in Nat : <<"challenge", n>> \notin mine
    BY <1>1, CredentialsAre DEF Winner
  <1>3. /\ \A q \in Logins \ {s} : attempt'[q] = attempt[q]
        /\ \A q \in Logins : attempt'[q].match = IF q = s THEN <<>> ELSE attempt[q].match
        /\ attempt'[s].at = "idle" /\ attempt'[s].kind = "none"
    BY <1>1, IdleFields DEF Moves
  <1>4. UsedTyped'  BY <1>0, <1>1 DEF UsedTyped
  <1>5. \A n \in Nat : <<"challenge", n>> \notin TotpCodes \cup RecoveryCodes
    BY DEF TotpCodes, RecoveryCodes
  <1>6. /\ <<>> \notin TotpCodes \cup RecoveryCodes /\ acct.codes \subseteq RecoveryCodes
        /\ \A q \in Logins : attempt[q].challenge \in Nat
        /\ \A c \in TotpCodes : c[1] = "totp" /\ c # <<>>
    BY DEF TotpCodes, RecoveryCodes, FactorTypes, Accounts, Attempts
  <1>7. RecoveryOnce'
    <2>1. \A c \in mine : c \in RecoveryCodes => c = attempt[s].match
      BY <1>2, <1>5, <1>6
    <2>. QED  BY <1>0, <1>1, <1>3, <1>6, <2>1 DEF RecoveryOnce
  <1>8. TotpOnce'
    <2>1. \A c \in mine : c \in TotpCodes => c = attempt[s].match
      BY <1>2, <1>5, <1>6
    <2>2. Accepted' \subseteq TotpCodes
      BY <1>4, <1>3, <1>6 DEF Accepted, UsedTyped, TotpCodes, RecoveryCodes, FactorTypes, Attempts
    <2>3. Accepted' \subseteq Accepted
      <3>. SUFFICES ASSUME NEW c \in Accepted'  PROVE c \in Accepted
        OBVIOUS
      <3>1. c \in TotpCodes /\ c # <<>> /\ c[1] = "totp"  BY <2>2, <1>6
      <3>2. c \in used \/ c \in mine \/ \E q \in Logins : c = attempt[q].match
        BY <3>1, <1>1, <1>3 DEF Accepted
      <3>. QED  BY <2>1, <3>1, <3>2 DEF Accepted
    <2>4. \A c \in Accepted' : c[3] <= acct'.last \/ c[2] \in rewound'
      BY <1>0, <1>1, <2>3 DEF TotpOnce
    <2>. QED  BY <1>0, <1>1, <1>3, <1>6, <2>1, <2>4 DEF TotpOnce
  <1>9. ChallengeOnce'
    <2>1. \A n \in Nat : <<"challenge", n>> \in mine => Winner(s) /\ n = attempt[s].challenge
      BY <1>2, <1>5, <1>6
    <2>2. \A n : Consumed(n)' <=> Consumed(n)  BY <1>1 DEF Consumed
    <2>3. \A q \in Logins : Winner(q)' => q # s /\ Winner(q) /\ attempt'[q] = attempt[q]
      BY <1>3 DEF Winner
    <2>. QED  BY <1>0, <1>1, <1>6, <2>1, <2>2, <2>3 DEF ChallengeOnce
  <1>10. OneSessionEach'
    <2>. SUFFICES ASSUME NEW c \in mine, c \in used  PROVE c[1] = "totp" /\ c[2] \in rewound
      BY <1>0, <1>1 DEF OneSessionEach
    <2>1. ~(Winner(s) /\ c = <<"challenge", attempt[s].challenge>>)
      BY <1>0 DEF ChallengeOnce
    <2>2. c = attempt[s].match /\ c \in TotpCodes \cup RecoveryCodes  BY <1>2, <2>1
    <2>3. c \notin RecoveryCodes  BY <1>0, <2>2 DEF RecoveryOnce
    <2>. QED  BY <1>0, <1>6, <2>2, <2>3 DEF TotpOnce
  <1>. QED  BY <1>4, <1>7, <1>8, <1>9, <1>10 DEF OnceInv

(* Whoever writes last_totp_step marks the secrets it forgets.             *)
LEMMA OnceStepWritten ==
  ASSUME FactorTypes, OnceInv, NEW s \in Logins, Moves(s), attempt'[s] = Idle,
         acct' \in Accounts, Forgets(acct'.last), acct'.codes \subseteq acct.codes,
         UNCHANGED <<activations, challenges, used, twice>>
  PROVE  OnceInv'
PROOF
  <1>0. UsedTyped /\ RecoveryOnce /\ TotpOnce /\ ChallengeOnce  BY DEF OnceInv
  <1>1. SameMatches /\ SameWinners  BY IdleFields, RequestQuiet
  <1>2. ConsumedStay  BY DEF ConsumedStay, Consumed
  <1>3. acct'.last \in Nat /\ rewound \subseteq rewound'  BY DEF Accounts, Forgets
  <1>. QED
    BY <1>0, <1>1, <1>2, <1>3, UsedFrame, RecoveryFrame, TotpFrame, ChallengeFrame DEF OnceInv

(* The codes of a new activation are new.                                  *)
LEMMA OnceFactorEnabled ==
  ASSUME FactorTypes, OnceInv, NEW s \in Logins, FactorEnabled(s)
  PROVE  OnceInv'
PROOF
  <1>0. UsedTyped /\ RecoveryOnce /\ TotpOnce /\ ChallengeOnce  BY DEF OnceInv
  <1>1. /\ Moves(s) /\ attempt'[s].at = "step" /\ attempt'[s].match = attempt[s].match
        /\ acct' \in Accounts /\ acct'.last = 0 /\ acct'.codes = CodesOf(activations + 1)
        /\ Forgets(0) /\ activations' = activations + 1 /\ activations \in Nat
        /\ UNCHANGED <<challenges, used, twice>>
    BY MovesFactorEnabled DEF Written, FactorTypes
  <1>2. SameMatches /\ SameWinners  BY <1>1, RequestQuiet
  <1>3. ConsumedStay  BY <1>1 DEF ConsumedStay, Consumed
  <1>4. acct'.last \in Nat /\ rewound \subseteq rewound' /\ Forgets(acct'.last)
    BY <1>1 DEF Forgets
  <1>5. UsedTyped' /\ OneSessionEach' /\ TotpOnce' /\ ChallengeOnce'
    BY <1>0, <1>1, <1>2, <1>3, <1>4, UsedFrame, TotpFrame, ChallengeFrame
  <1>6. RecoveryOnce'
    <2>1. \A c \in acct'.codes : c \in RecoveryCodes /\ c[2] = activations + 1
      BY <1>1 DEF CodesOf, RecoveryCodes
    <2>2. \A c \in RecoveryCodes : c[2] \in Nat  BY DEF RecoveryCodes
    <2>3. \A q \in Logins : attempt'[q].match = attempt[q].match  BY <1>1 DEF Moves
    <2>4. \A c \in acct'.codes : c \notin used /\ \A q \in Logins : attempt[q].match # c
      BY <1>0, <1>1, <2>1 DEF RecoveryOnce
    <2>. QED  BY <1>0, <1>1, <2>1, <2>2, <2>3, <2>4 DEF RecoveryOnce
  <1>. QED  BY <1>5, <1>6 DEF OnceInv

LEMMA OnceInitially == FactorInit => OnceInv
PROOF
  <1> SUFFICES ASSUME FactorInit  PROVE OnceInv
    OBVIOUS
  <1>1. /\ used = {} /\ twice = {} /\ acct.codes = CodesOf(activations) /\ activations \in Nat
        /\ \A s \in Logins : attempt[s].match = <<>> /\ ~Winner(s)
    BY IdleFields DEF FactorInit, Winner
  <1>2. \A c \in acct.codes : c # <<>> /\ c[2] <= activations  BY <1>1 DEF CodesOf
  <1>3. <<>> \notin TotpCodes /\ <<>> \notin RecoveryCodes  BY DEF TotpCodes, RecoveryCodes
  <1>. QED
    BY <1>1, <1>2, <1>3 DEF OnceInv, UsedTyped, RecoveryOnce, TotpOnce, ChallengeOnce,
       OneSessionEach, Accepted

LEMMA OnceKept == FactorTypes /\ OnceInv /\ [FactorNext]_factorVars => OnceInv'
PROOF
  <1> SUFFICES ASSUME FactorTypes, OnceInv, [FactorNext]_factorVars  PROVE OnceInv'
    OBVIOUS
  <1>1. ASSUME NEW s \in Logins,
               \/ PasswordLogin(s) \/ SecondStep(s) \/ UserRead(s) \/ LockChecked(s)
               \/ FailureCounted(s) \/ ChallengeRead(s) \/ FailuresReset(s) \/ EnrollClicked(s)
               \/ VerifyClicked(s) \/ DisableAsked(s) \/ AdminResets(s) \/ GivenUp(s)
        PROVE  OnceInv'
    BY <1>1, QuietSteps, QuietKeeps
  <1>2. ASSUME NEW s \in Logins, ChallengeIssued(s)  PROVE OnceInv'
    BY <1>2, OnceChallengeIssued
  <1>3. ASSUME NEW s \in Logins, CodeJudged(s)  PROVE OnceInv'  BY <1>3, OnceCodeJudged
  <1>4. ASSUME NEW s \in Logins, RecoveryJudged(s)  PROVE OnceInv'  BY <1>4, OnceRecoveryJudged
  <1>5. ASSUME NEW s \in Logins, ChallengeConsumed(s)  PROVE OnceInv'
    BY <1>5, OnceChallengeConsumed
  <1>6. ASSUME NEW s \in Logins, SessionOpened(s)  PROVE OnceInv'  BY <1>6, OnceSessionOpened
  <1>7. ASSUME NEW s \in Logins, SecretStored(s)  PROVE OnceInv'
    BY <1>7, MovesSecretStored, OnceStepWritten DEF Written
  <1>8. ASSUME NEW s \in Logins, FactorEnabled(s)  PROVE OnceInv'  BY <1>8, OnceFactorEnabled
  <1>9. ASSUME NEW s \in Logins, StepStored(s)  PROVE OnceInv'
    BY <1>9, MovesStepStored, OnceStepWritten DEF FactorKept
  <1>10. ASSUME NEW s \in Logins, FactorCleared(s)  PROVE OnceInv'
    BY <1>10, MovesFactorCleared, OnceStepWritten DEF Written
  <1>11. CASE ClockTicks \/ UNCHANGED factorVars
    BY <1>11, QuietKeeps DEF ClockTicks, Quiet, SameMatches, SameWinners, Winner
  <1>12. CASE SetupLeft \/ SetupErrs
    <2>1. Quiet
      BY <1>12, MovesOrphans DEF SetupLeft, SetupErrs, Quiet, SameMatches, SameWinners, Winner
    <2>. QED  BY <2>1, QuietKeeps
  <1>. QED
    BY <1>1, <1>2, <1>3, <1>4, <1>5, <1>6, <1>7, <1>8, <1>9, <1>10, <1>11, <1>12 DEF FactorNext

(* What opens a session opens one, however many requests bring it: a code  *)
(* of the authenticator (advance_totp_step), a recovery code               *)
(* (consume_recovery_code) and a challenge (consume), but for the codes of *)
(* secrets whose steps the row was made to forget.                         *)
THEOREM SessionsOpenOnce == FactorSpec => []OneSessionEach
PROOF
  <1>1. OnceInv => OneSessionEach  BY DEF OnceInv
  <1>. QED  BY <1>1, TypesInitially, TypesKept, OnceInitially, OnceKept, PTL DEF FactorSpec

(* ------------------------------------------------------------------------ *)
(* The page that sets the factor up                                         *)

(* The page waits for at most one request: for the secret, or for the      *)
(* activation of the secret it shows.                                      *)
PageWaits ==
  \A s \in Logins : attempt[s].page =>
    /\ setup.busy /\ \A q \in Logins \ {s} : ~attempt[q].page
    /\ \/ attempt[s].at = "enroll" /\ setup.step = "start"
       \/ /\ attempt[s].at \in {"enable", "step"} /\ setup.step = "scan"
          /\ attempt[s].user.secret = setup.secret

(* While nobody else has changed the factor, the row has the secret of the *)
(* page, and the codes that the answer will bring.                         *)
PageAgrees ==
  ~mixed =>
    /\ setup.step \in {"scan", "done"} => acct.secret = setup.secret
    /\ setup.step = "done" => acct.enabled /\ acct.codes \subseteq CodesOf(setup.shown)
    /\ \A s \in Logins : attempt[s].page /\ attempt[s].at = "step" =>
         acct.enabled /\ acct.codes \subseteq CodesOf(attempt[s].challenge)

PageInv == PageWaits /\ PageAgrees

LEMMA HeardFields ==
  ASSUME FactorTypes, NEW s \in Logins, NEW a \in Setups, PageHears(s, a)
  PROVE  /\ attempt[s].page => /\ setup'.busy = FALSE /\ setup'.step = a.step
                               /\ setup'.secret = a.secret /\ setup'.shown = a.shown
         /\ ~attempt[s].page => setup' = setup
  BY DEF PageHears, Setups

(* A step of a request that the page does not wait for and that leaves the *)
(* factor as it is.                                                        *)
LEMMA PageFrame ==
  ASSUME FactorTypes, PageInv, NEW s \in Logins, Moves(s), ~attempt'[s].page,
         setup' = setup, mixed' = mixed, acct'.secret = acct.secret,
         acct'.enabled = acct.enabled, acct'.codes \subseteq acct.codes
  PROVE  PageInv'
  <1>1. \A q \in Logins : attempt'[q].page => attempt'[q] = attempt[q]  BY DEF Moves
  <1>2. \A q \in Logins : attempt'[q].page => attempt[q].page  BY <1>1
  <1>3. PageWaits'
    <2>. SUFFICES ASSUME NEW q \in Logins, attempt'[q].page
                  PROVE  /\ setup'.busy /\ \A r \in Logins \ {q} : ~attempt'[r].page
                         /\ \/ attempt'[q].at = "enroll" /\ setup'.step = "start"
                            \/ /\ attempt'[q].at \in {"enable", "step"} /\ setup'.step = "scan"
                               /\ attempt'[q].user.secret = setup'.secret
      BY DEF PageWaits
    <2>. QED  BY <1>1, <1>2 DEF PageInv, PageWaits
  <1>4. PageAgrees'  BY <1>1, <1>2 DEF PageInv, PageAgrees
  <1>. QED  BY <1>3, <1>4 DEF PageInv

(* The end of a request, and what the page makes of it.                    *)
LEMMA PageEnds ==
  ASSUME FactorTypes, PageInv, NEW s \in Logins, Moves(s), attempt'[s] = Idle,
         NEW a \in Setups, PageHears(s, a),
         ~attempt[s].page => PageAgrees',
         attempt[s].page /\ ~mixed' /\ a.step \in {"scan", "done"} => acct'.secret = a.secret,
         attempt[s].page /\ ~mixed' /\ a.step = "done" =>
           acct'.enabled /\ acct'.codes \subseteq CodesOf(a.shown)
  PROVE  PageInv'
  <1>1. /\ \A q \in Logins : attempt'[q].page => q # s /\ attempt'[q] = attempt[q]
    BY IdleFields DEF Moves
  <1>2. CASE attempt[s].page
    <2>1. \A q \in Logins : ~attempt'[q].page  BY <1>1, <1>2 DEF PageInv, PageWaits
    <2>2. PageWaits'  BY <2>1 DEF PageWaits
    <2>3. PageAgrees'  BY <1>2, <2>1, HeardFields DEF PageAgrees
    <2>. QED  BY <2>2, <2>3 DEF PageInv
  <1>3. CASE ~attempt[s].page
    <2>1. setup' = setup  BY <1>3, HeardFields
    <2>2. PageWaits'
      <3>. SUFFICES ASSUME NEW q \in Logins, attempt'[q].page
                    PROVE  /\ setup'.busy /\ \A r \in Logins \ {q} : ~attempt'[r].page
                           /\ \/ attempt'[q].at = "enroll" /\ setup'.step = "start"
                              \/ /\ attempt'[q].at \in {"enable", "step"} /\ setup'.step = "scan"
                                 /\ attempt'[q].user.secret = setup'.secret
        BY DEF PageWaits
      <3>. QED  BY <1>1, <2>1 DEF PageInv, PageWaits
    <2>. QED  BY <1>3, <2>2 DEF PageInv
  <1>. QED  BY <1>2, <1>3

LEMMA PageElsewhere ==
  ASSUME FactorTypes, PageInv, NEW s \in Logins,
         \/ PasswordLogin(s) \/ SecondStep(s) \/ UserRead(s) \/ LockChecked(s)
         \/ ChallengeIssued(s) \/ CodeJudged(s) \/ RecoveryJudged(s) \/ FailureCounted(s)
         \/ ChallengeRead(s) \/ ChallengeConsumed(s) \/ FailuresReset(s) \/ SessionOpened(s)
         \/ DisableAsked(s) \/ AdminResets(s)
  PROVE  PageInv'
PROOF
  <1>0. attempt[s].at \notin {"enroll", "enable", "step"} => ~attempt[s].page
    BY DEF PageInv, PageWaits
  <1> USE PageFrame, IdleFields DEF KeepsMatch, Keeps, FactorKept, Written
  <1>1. CASE PasswordLogin(s)  BY <1>0, <1>1, MovesPasswordLogin
  <1>2. CASE SecondStep(s)  BY <1>0, <1>2, MovesSecondStep
  <1>3. CASE UserRead(s)  BY <1>0, <1>3, MovesUserRead
  <1>4. CASE LockChecked(s)  BY <1>0, <1>4, MovesLockChecked
  <1>5. CASE ChallengeIssued(s)  BY <1>0, <1>5, MovesChallengeIssued
  <1>6. CASE CodeJudged(s)  BY <1>0, <1>6, MovesCodeJudged
  <1>7. CASE RecoveryJudged(s)  BY <1>0, <1>7, MovesRecoveryJudged
  <1>8. CASE FailureCounted(s)  BY <1>0, <1>8, MovesFailureCounted
  <1>9. CASE ChallengeRead(s)  BY <1>0, <1>9, MovesChallengeRead
  <1>10. CASE ChallengeConsumed(s)  BY <1>0, <1>10, MovesChallengeConsumed
  <1>11. CASE FailuresReset(s)  BY <1>0, <1>11, MovesFailuresReset
  <1>12. CASE SessionOpened(s)  BY <1>0, <1>12, MovesSessionOpened
  <1>13. CASE DisableAsked(s)  BY <1>0, <1>13, MovesDisableAsked
  <1>14. CASE AdminResets(s)  BY <1>0, <1>14, MovesAdminResets
  <1>. QED
    BY <1>1, <1>2, <1>3, <1>4, <1>5, <1>6, <1>7, <1>8, <1>9, <1>10, <1>11, <1>12, <1>13, <1>14

LEMMA PageInitially == FactorInit => PageInv
  BY IdleFields DEF FactorInit, PageInv, PageWaits, PageAgrees

LEMMA PageKept == FactorTypes /\ PageInv /\ [FactorNext]_factorVars => PageInv'
PROOF
  <1> SUFFICES ASSUME FactorTypes, PageInv, [FactorNext]_factorVars  PROVE PageInv'
    OBVIOUS
  <1>0. PageWaits /\ PageAgrees /\ setup \in Setups /\ enrolments + 1 \in Nat
    BY DEF PageInv, FactorTypes
  <1>1. ASSUME NEW s \in Logins,
               \/ PasswordLogin(s) \/ SecondStep(s) \/ UserRead(s) \/ LockChecked(s)
               \/ ChallengeIssued(s) \/ CodeJudged(s) \/ RecoveryJudged(s) \/ FailureCounted(s)
               \/ ChallengeRead(s) \/ ChallengeConsumed(s) \/ FailuresReset(s) \/ SessionOpened(s)
               \/ DisableAsked(s) \/ AdminResets(s)
        PROVE  PageInv'
    BY <1>1, PageElsewhere
  <1>2. ASSUME NEW s \in Logins, EnrollClicked(s)  PROVE PageInv'
    <2>1. /\ Moves(s) /\ setup.step = "start" /\ ~setup.busy
          /\ attempt'[s].at = "enroll" /\ setup' = [setup EXCEPT !.busy = TRUE]
          /\ mixed' = mixed /\ acct' = acct
      BY <1>2, MovesEnrollClicked
    <2>2. setup'.step = "start" /\ setup'.busy  BY <1>0, <2>1 DEF Setups
    <2>3. \A q \in Logins \ {s} : ~attempt'[q].page  BY <1>0, <2>1 DEF PageWaits, Moves
    <2>4. PageWaits'  BY <2>1, <2>2, <2>3 DEF PageWaits
    <2>5. PageAgrees'  BY <2>1, <2>2, <2>3 DEF PageAgrees
    <2>. QED  BY <2>4, <2>5 DEF PageInv
  <1>3. ASSUME NEW s \in Logins, VerifyClicked(s)  PROVE PageInv'
    <2>1. /\ Moves(s) /\ setup.step = "scan" /\ ~setup.busy /\ acct.secret = setup.secret
          /\ attempt'[s].at = "enable" /\ attempt'[s].user.secret = acct.secret
          /\ setup' = [setup EXCEPT !.busy = TRUE] /\ mixed' = mixed /\ acct' = acct
      BY <1>3, MovesVerifyClicked
    <2>2. setup'.step = "scan" /\ setup'.busy /\ setup'.secret = setup.secret
      BY <1>0, <2>1 DEF Setups
    <2>3. \A q \in Logins \ {s} : ~attempt'[q].page  BY <1>0, <2>1 DEF PageWaits, Moves
    <2>4. PageWaits'  BY <2>1, <2>2, <2>3 DEF PageWaits
    <2>5. PageAgrees'  BY <2>1, <2>2, <2>3 DEF PageAgrees
    <2>. QED  BY <2>4, <2>5 DEF PageInv
  <1>4. ASSUME NEW s \in Logins, SecretStored(s)  PROVE PageInv'
    <2> DEFINE scan == [setup EXCEPT !.step = "scan", !.secret = enrolments + 1]
    <2>1. scan \in Setups /\ scan.step = "scan" /\ scan.secret = enrolments + 1
      BY <1>0 DEF Setups
    <2> HIDE DEF scan
    <2>2. /\ Moves(s) /\ attempt[s].at = "enroll" /\ attempt'[s] = Idle
          /\ acct'.secret = enrolments + 1 /\ mixed' = ~attempt[s].page
          /\ PageHears(s, setup) \/ PageHears(s, scan)
      BY <1>4, MovesSecretStored DEF Written, scan
    <2>3. ~attempt[s].page => PageAgrees'  BY <2>2 DEF PageAgrees
    <2>4. attempt[s].page => setup.step = "start"  BY <1>0, <2>2 DEF PageWaits
    <2>. QED  BY <1>0, <2>1, <2>2, <2>3, <2>4, PageEnds
  <1>5. ASSUME NEW s \in Logins, FactorEnabled(s)  PROVE PageInv'
    <2>1. /\ Moves(s) /\ attempt[s].at = "enable" /\ attempt'[s].at = "step"
          /\ attempt'[s].page = attempt[s].page /\ attempt'[s].user = attempt[s].user
          /\ attempt'[s].challenge = activations + 1
          /\ acct'.secret = attempt[s].user.secret /\ acct'.enabled
          /\ acct'.codes = CodesOf(activations + 1)
          /\ mixed' = (mixed \/ ~attempt[s].page) /\ setup' = setup
      BY <1>5, MovesFactorEnabled DEF Written
    <2>2. /\ \A q \in Logins \ {s} : attempt'[q] = attempt[q]
          /\ \A q \in Logins : attempt'[q].page = attempt[q].page
                               /\ attempt'[q].user = attempt[q].user
      BY <2>1 DEF Moves
    <2>3. PageWaits'  BY <1>0, <2>1, <2>2 DEF PageWaits
    <2>4. PageAgrees'
      <3>1. CASE ~attempt[s].page  BY <2>1, <3>1 DEF PageAgrees
      <3>2. CASE attempt[s].page
        <4>1. setup.step = "scan" /\ attempt[s].user.secret = setup.secret
          BY <1>0, <2>1, <3>2 DEF PageWaits
        <4>2. \A q \in Logins : attempt'[q].page => q = s  BY <1>0, <2>2, <3>2 DEF PageWaits
        <4>. QED  BY <2>1, <4>1, <4>2 DEF PageAgrees
      <3>. QED  BY <3>1, <3>2
    <2>. QED  BY <2>3, <2>4 DEF PageInv
  <1>6. ASSUME NEW s \in Logins, StepStored(s)  PROVE PageInv'
    <2> DEFINE done == [setup EXCEPT !.step = "done", !.shown = attempt[s].challenge]
    <2>1. /\ done \in Setups /\ done.step = "done" /\ done.secret = setup.secret
          /\ done.shown = attempt[s].challenge
      BY <1>0 DEF Setups, FactorTypes, Attempts
    <2> HIDE DEF done
    <2>2. /\ Moves(s) /\ attempt[s].at = "step" /\ attempt'[s] = Idle /\ mixed' = mixed
          /\ acct'.secret = acct.secret /\ acct'.enabled = acct.enabled /\ acct'.codes = acct.codes
          /\ PageHears(s, setup) \/ PageHears(s, done)
      BY <1>6, MovesStepStored DEF FactorKept, done
    <2>3. ~attempt[s].page => PageInv'
      <3>. SUFFICES ASSUME ~attempt[s].page  PROVE PageInv'
        OBVIOUS
      <3>1. setup' = setup /\ ~attempt'[s].page
        BY <1>0, <2>1, <2>2, HeardFields, IdleFields
      <3>. QED  BY <2>2, <3>1, PageFrame
    <2>4. attempt[s].page => /\ setup.step = "scan"
                             /\ ~mixed => /\ acct.secret = setup.secret /\ acct.enabled
                                          /\ acct.codes \subseteq CodesOf(attempt[s].challenge)
      BY <1>0, <2>2 DEF PageWaits, PageAgrees
    <2>5. CASE attempt[s].page  BY <1>0, <2>1, <2>2, <2>4, <2>5, PageEnds
    <2>. QED  BY <2>3, <2>5
  <1>7. ASSUME NEW s \in Logins, FactorCleared(s)  PROVE PageInv'
    <2>1. /\ Moves(s) /\ attempt'[s] = Idle /\ mixed' = TRUE /\ setup' = setup
      BY <1>7, MovesFactorCleared
    <2>2. \A q \in Logins : attempt'[q].page => attempt'[q] = attempt[q] /\ attempt[q].page
      BY <2>1, IdleFields DEF Moves
    <2>3. PageWaits'
      <3>. SUFFICES ASSUME NEW q \in Logins, attempt'[q].page
                    PROVE  /\ setup'.busy /\ \A r \in Logins \ {q} : ~attempt'[r].page
                           /\ \/ attempt'[q].at = "enroll" /\ setup'.step = "start"
                              \/ /\ attempt'[q].at \in {"enable", "step"} /\ setup'.step = "scan"
                                 /\ attempt'[q].user.secret = setup'.secret
        BY DEF PageWaits
      <3>. QED  BY <1>0, <2>1, <2>2 DEF PageWaits
    <2>. QED  BY <2>1, <2>3 DEF PageInv, PageAgrees
  <1>8. ASSUME NEW s \in Logins, GivenUp(s)  PROVE PageInv'
    <2>1. /\ Moves(s) /\ attempt'[s] = Idle /\ PageHears(s, setup) /\ mixed' = mixed
          /\ acct' = acct
      BY <1>8, MovesGivenUp
    <2>2. ~attempt[s].page => PageInv'
      <3>. SUFFICES ASSUME ~attempt[s].page  PROVE PageInv'
        OBVIOUS
      <3>1. setup' = setup /\ ~attempt'[s].page  BY <1>0, <2>1, HeardFields, IdleFields
      <3>. QED  BY <2>1, <3>1, PageFrame
    <2>3. CASE attempt[s].page
      <3>1. ~mixed /\ setup.step \in {"scan", "done"} => acct.secret = setup.secret
        BY <1>0 DEF PageAgrees
      <3>2. setup.step # "done"  BY <1>0, <2>3 DEF PageWaits
      <3>. QED  BY <1>0, <2>1, <2>3, <3>1, <3>2, PageEnds
    <2>. QED  BY <2>2, <2>3
  <1>9. CASE ClockTicks \/ UNCHANGED factorVars
    BY <1>0, <1>9 DEF ClockTicks, PageInv, PageWaits, PageAgrees
  <1>10. CASE SetupLeft \/ SetupErrs
    <2>1. \A q \in Logins : ~attempt'[q].page
      BY <1>10, MovesOrphans DEF SetupLeft, SetupErrs
    <2>2. mixed' = mixed /\ acct' = acct  BY <1>10 DEF SetupLeft, SetupErrs
    <2>3. CASE SetupLeft
      <3>1. setup'.step = "start"  BY <2>3 DEF SetupLeft
      <3>. QED  BY <2>1, <2>2, <3>1 DEF PageInv, PageWaits, PageAgrees
    <2>4. CASE SetupErrs
      <3>1. setup'.step = setup.step /\ setup'.secret = setup.secret /\ setup'.shown = setup.shown
        BY <1>0, <2>4 DEF SetupErrs, Setups
      <3>. QED  BY <1>0, <2>1, <2>2, <3>1 DEF PageInv, PageWaits, PageAgrees
    <2>. QED  BY <1>10, <2>3, <2>4
  <1>. QED
    BY <1>1, <1>2, <1>3, <1>4, <1>5, <1>6, <1>7, <1>8, <1>9, <1>10 DEF FactorNext

(* The page that says "done" shows the codes of the account (totp_enroll,  *)
(* totp_verify and the setup page), unless others changed the factor.      *)
THEOREM CodesOnThePageWork == FactorSpec => []ShownCodesWork
PROOF
  <1>1. PageInv => ShownCodesWork  BY DEF PageInv, PageAgrees, ShownCodesWork
  <1>. QED  BY <1>1, TypesInitially, TypesKept, PageInitially, PageKept, PTL DEF FactorSpec

=============================================================================
