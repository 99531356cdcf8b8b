\* Tokens: two requests at a time, one cut; families of up to three tokens.
\* Logins: two requests at a time, two challenges, locks that end.
CONSTANTS
  Slots = {s1, s2}
  MaxTokens = 3
  MaxVersion = 1
  Logins = {s1, s2}
  MaxFails = 2
  LockSteps = 0
  Life = 0
  CodeCount = 1
  MaxClock = 2
  MaxChallenges = 2
  MaxEnrolments = 2
  MaxActivations = 2
SYMMETRY Symmetry
SPECIFICATION SessionsSpec
INVARIANTS
  EndedStaysEnded
  CutEndsAccess
  SingleHolder
  OneSessionEach
  GuessesBounded
  ShownCodesWork
CHECK_DEADLOCK FALSE
