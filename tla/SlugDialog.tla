----------------------------- MODULE SlugDialog -----------------------------
(***************************************************************************)
(* The dialog that asks for the address of a new card. What is typed is    *)
(* checked by the server 350 ms after the last change; the button looks at *)
(* the last answer. A check that is superseded is not aborted, its answer  *)
(* is dropped.                                                             *)
(***************************************************************************)
CONSTANTS
  Slugs,     \* what can be typed or generated
  Free,      \* those the server answers to be available
  Malformed, \* those the form rejects
  Unsent,    \* of these, those that are not sent to the server either
  NoSlug     \* the empty text

ASSUME SlugAssumption ==
  /\ NoSlug \notin Slugs /\ Free \subseteq Slugs
  /\ Malformed \subseteq Slugs /\ Unsent \subseteq Malformed

VARIABLES
  slugOpen, value,  \* the dialog and its input
  debounced,   \* the input of 350 ms ago
  available,   \* "null", "true" or "false"
  checks,      \* checks under way: the slug, and whether it was superseded
  answered     \* history: the slug of the last answer that was taken

slugVars == <<slugOpen, value, debounced, available, checks, answered>>

SlugTypeOK ==
  /\ slugOpen \in BOOLEAN /\ {value, debounced, answered} \subseteq Slugs \cup {NoSlug}
  /\ available \in {"null", "true", "false"}
  /\ checks \subseteq [slug : Slugs, dropped : BOOLEAN]

SlugInit ==
  /\ slugOpen = FALSE /\ value = NoSlug /\ debounced = NoSlug /\ available = "null"
  /\ checks = {} /\ answered = NoSlug

(* The clean-up of the effect.                                             *)
Superseded == {[slug |-> c.slug, dropped |-> TRUE] : c \in checks}

(* The effect on the debounced slug and on the dialog's opening.           *)
Effect(open, v) ==
  /\ slugOpen' = open /\ debounced' = v
  /\ IF ~open \/ v = NoSlug
       THEN available' = "null" /\ checks' = Superseded
     ELSE IF v \in Unsent
       THEN available' = "false" /\ checks' = Superseded
     ELSE /\ checks' = Superseded \cup {[slug |-> v, dropped |-> FALSE]}
          /\ available' = IF slugOpen THEN available ELSE "null"

OpenSlugDialog ==
  /\ ~slugOpen
  /\ value' \in Slugs
  /\ Effect(TRUE, debounced)
  /\ UNCHANGED answered

CloseSlugDialog ==
  /\ slugOpen
  /\ value' = NoSlug
  /\ Effect(FALSE, debounced)
  /\ UNCHANGED answered

(* Typing, or the button that generates another slug.                      *)
Type ==
  /\ slugOpen
  /\ value' \in (Slugs \cup {NoSlug}) \ {value}
  /\ UNCHANGED <<slugOpen, debounced, available, checks, answered>>

DebounceEnds ==
  /\ debounced # value
  /\ Effect(slugOpen, value)
  /\ UNCHANGED <<value, answered>>

CheckAnswered(c) ==
  /\ c \in checks
  /\ checks' = checks \ {c}
  /\ \/ c.dropped /\ UNCHANGED <<available, answered>>
     \/ /\ ~c.dropped /\ answered' = c.slug
        /\ available' \in {IF c.slug \in Free THEN "true" ELSE "false", "null"}
  /\ UNCHANGED <<slugOpen, value, debounced>>

CanSubmit == slugOpen /\ value # NoSlug /\ value \notin Malformed /\ available = "true"

SlugNext ==
  \/ OpenSlugDialog \/ CloseSlugDialog \/ Type \/ DebounceEnds
  \/ \E c \in checks : CheckAnswered(c)

SlugSpec == SlugInit /\ [][SlugNext]_slugVars

-----------------------------------------------------------------------------
(* Once the input rests and its check is answered, the button is there     *)
(* only for a slug that was answered to be free: answers that arrive out   *)
(* of order, or after the dialog was closed and opened, change nothing.    *)
(* (Until then the button may still stand for the slug typed before.)      *)
ButtonMeansFree ==
  CanSubmit /\ debounced = value /\ (\A c \in checks : c.dropped) =>
    answered = value /\ value \in Free

=============================================================================
