------------------------------ MODULE CardEditor ------------------------------
(***************************************************************************)
(* The form that creates and edits a card. The screen is a form with local *)
(* state beside it; every refetch of the card overwrites it, and "dirty"   *)
(* is a flag that some inputs raise and others forget, that is deaf for a  *)
(* moment after each load, and that a save lowers when it is answered. A   *)
(* card is one value for each kind of input: 0 for a blank, others for     *)
(* texts.                                                                  *)
(***************************************************************************)
EXTENDS Integers, FiniteSets

CONSTANTS
  MaxEntries   \* bound of the model: what the admin enters and others change

ASSUME EditorAssumption == MaxEntries \in Nat

(* `critical' is a name or the issue date, which an approval shows; `form' *)
(* the rest of the form; `local' blocks, rows and labels beside it.        *)
Inputs == {"critical", "form", "local", "logo"}
Texts(f) == IF f = "critical" THEN 0..2 ELSE 0..1
Cards  == {c \in [Inputs -> 0..2] : \A f \in Inputs : c[f] \in Texts(f)}
Blank  == [f \in Inputs |-> 0]
NoCard == [f \in Inputs |-> -1]

VARIABLES
  mode,        \* "create", "edit", or "left" once the page is closed
  server,      \* the card as it is stored
  invalid,     \* a message makes the card invalid
  cache,       \* the query ["card", id]
  fetch, coming,  \* its refetch: "none", "sent" or "answered", with a card
  screen,      \* the form and the local state
  base,        \* history: what a load or a save last put on record
  interacted,  \* userInteracted
  quiet,       \* Date.now() < acceptInteractionsAfter
  pendingLogo, pendingPhoto,  \* files kept until the card exists
  bypass,      \* savingRef
  dialog,      \* "none", "approve", "slug" or "quit"
  success,     \* successOpen
  draft,       \* the payload that awaits a dialog or the server
  saving,      \* "no", "create", "photo", "logo" or "update"
  changes,     \* updates of the logo that are under way: [to, prev]
  edits, foreign,  \* counted against the bound
  excused,     \* history: inputs edited where the flag may stay down
  approved, seen,  \* history: the critical value approved, and cached, at a save
  uncertain    \* history: an answer was lost, or requests for the logo overlapped

loads      == <<cache, fetch, coming>>
flags      == <<interacted, quiet, pendingLogo, pendingPhoto, bypass>>
dialogs    == <<dialog, success, draft>>
record     == <<base, excused, approved, seen, uncertain>>
editorVars == <<mode, server, invalid, loads, screen, flags, dialogs, saving, changes,
                edits, foreign, record>>

EditorTypeOK ==
  /\ mode \in {"create", "edit", "left"} /\ invalid \in BOOLEAN
  /\ {server, cache, coming, draft} \subseteq Cards \cup {NoCard}
  /\ fetch \in {"none", "sent", "answered"}
  /\ {screen, base} \subseteq Cards
  /\ {interacted, quiet, pendingLogo, pendingPhoto, bypass, success} \subseteq BOOLEAN
  /\ dialog \in {"none", "approve", "slug", "quit"}
  /\ saving \in {"no", "create", "photo", "logo", "update"}
  /\ changes \subseteq [to : Texts("logo"), prev : Texts("logo")]
  /\ edits \in 0..MaxEntries /\ foreign \in 0..MaxEntries
  /\ excused \subseteq Inputs /\ uncertain \in BOOLEAN
  /\ {approved, seen} \subseteq -1..2
  /\ dialog \in {"approve", "slug"} \/ saving # "no" => draft # NoCard
  /\ mode = "create" /\ saving \notin {"photo", "logo"} => server = NoCard

(* A new form, or the page of a card with a message: one that loads, or is *)
(* held from before, and is fetched again if that was over a minute ago.   *)
EditorInit ==
  /\ \/ /\ mode = "create" /\ server = NoCard /\ fetch = "none" /\ invalid = FALSE
        /\ cache = NoCard /\ screen = Blank /\ quiet = TRUE
     \/ /\ mode = "edit" /\ server = [f \in Inputs |-> 1] /\ invalid = TRUE
        /\ \/ fetch = "sent" /\ cache = NoCard /\ screen = Blank /\ quiet = FALSE
           \/ fetch \in {"none", "sent"} /\ cache = server /\ screen = server /\ quiet = TRUE
  /\ coming = NoCard /\ base = screen
  /\ interacted = FALSE /\ bypass = FALSE
  /\ pendingLogo = FALSE /\ pendingPhoto = FALSE
  /\ dialog = "none" /\ success = FALSE /\ draft = NoCard
  /\ saving = "no" /\ changes = {} /\ edits = 0 /\ foreign = 0
  /\ excused = {} /\ approved = -1 /\ seen = -1 /\ uncertain = FALSE

-----------------------------------------------------------------------------
(* Inputs                                                                  *)

(* Form and buttons are there once the query has loaded, or failed, and no *)
(* dialog lies over them.                                                  *)
AtHand ==
  /\ mode = "create" \/ (mode = "edit" /\ (cache # NoCard \/ fetch = "none"))
  /\ dialog = "none" /\ ~success

Edit(f, marks, excuse) ==
  \E v \in Texts(f) \ {screen[f]} :
    /\ AtHand /\ edits + foreign < MaxEntries
    /\ screen' = [screen EXCEPT ![f] = v]
    /\ edits' = edits + 1
    /\ interacted' = (interacted \/ marks)
    /\ excused' = IF excuse THEN excused \cup {f} ELSE excused
    /\ UNCHANGED <<mode, server, invalid, loads, quiet, pendingLogo, pendingPhoto, bypass,
                   dialogs, saving, changes, foreign, base, approved, seen, uncertain>>

(* A slip: the subscription ends with the first load.                      *)
HeardNever == ~quiet /\ mode = "create"

(* form.watch() raises the flag, outside of the moment after a load.       *)
Heard == ~quiet

BasicsSection     == Edit("critical", Heard, quiet)
ContactsSection   == Edit("local", FALSE, TRUE)
ServiceSection    == Edit("form", Heard, quiet) \/ Edit("local", FALSE, TRUE)
AvatarColour      == Edit("form", TRUE, FALSE)
AppearanceSection == Edit("form", Heard, quiet)
RowsSection       == Edit("form", Heard, quiet) \/ Edit("critical", Heard, quiet)
CustomRows        == Edit("local", TRUE, FALSE)
LabelPicked       == Edit("local", TRUE, FALSE)
ChairmanSection   == Edit("form", Heard, quiet)
TemplateSection   == Edit("form", Heard, quiet)

(* Before the card exists key and shape only change the screen; the shape  *)
(* raises the flag.                                                        *)
LogoOfNewCard == mode = "create" /\ (Edit("logo", FALSE, TRUE) \/ Edit("logo", TRUE, FALSE))

(* Key or shape of an existing card's logo are stored at once; the shape   *)
(* raises the flag too.                                                    *)
LogoChange(shape) ==
  \E v \in Texts("logo") \ {screen["logo"]} :
    /\ mode = "edit" /\ AtHand /\ edits + foreign < MaxEntries
    /\ screen' = [screen EXCEPT !["logo"] = v]
    /\ changes' = changes \cup {[to |-> v, prev |-> screen["logo"]]}
    /\ interacted' = (interacted \/ shape)
    /\ edits' = edits + 1
    /\ uncertain' = (uncertain \/ changes # {} \/ fetch # "none" \/ saving # "no")
    /\ UNCHANGED <<mode, server, invalid, loads, quiet, pendingLogo, pendingPhoto, bypass,
                   dialogs, saving, foreign, base, excused, approved, seen>>

(* Stored, answered, and the card invalidated.                             *)
LogoStored(c) ==
  /\ c \in changes
  /\ server' = [server EXCEPT !["logo"] = c.to]
  /\ changes' = changes \ {c}
  /\ fetch' = "sent"
  /\ UNCHANGED <<mode, invalid, cache, coming, screen, flags, dialogs, saving, edits,
                 foreign, record>>

(* A slip: a failed update leaves the new logo on the screen.              *)
RolledBackNot(c) == screen["logo"]

RolledBack(c) == c.prev

(* Refused, or stored with an answer that is lost.                         *)
LogoFails(c) ==
  /\ c \in changes
  /\ \/ UNCHANGED <<server, uncertain>>
     \/ server' = [server EXCEPT !["logo"] = c.to] /\ uncertain' = TRUE
  /\ screen' = [screen EXCEPT !["logo"] = RolledBack(c)]
  /\ changes' = changes \ {c}
  /\ UNCHANGED <<mode, invalid, loads, flags, dialogs, saving, edits, foreign, base,
                 excused, approved, seen>>

(* The files of a card that does not exist are kept.                       *)
LogoFilePicked ==
  /\ mode = "create" /\ AtHand /\ ~pendingLogo /\ edits + foreign < MaxEntries
  /\ pendingLogo' = TRUE /\ interacted' = TRUE
  /\ edits' = edits + 1
  /\ UNCHANGED <<mode, server, invalid, loads, screen, quiet, pendingPhoto, bypass, dialogs,
                 saving, changes, foreign, record>>

LogoFileCleared ==
  /\ mode = "create" /\ AtHand /\ pendingLogo /\ edits + foreign < MaxEntries
  /\ pendingLogo' = FALSE /\ interacted' = TRUE
  /\ screen' = [screen EXCEPT !["logo"] = 0]
  /\ edits' = edits + 1
  /\ UNCHANGED <<mode, server, invalid, loads, quiet, pendingPhoto, bypass, dialogs, saving,
                 changes, foreign, record>>

PhotoCropped ==
  /\ mode = "create" /\ AtHand /\ ~pendingPhoto /\ edits + foreign < MaxEntries
  /\ pendingPhoto' = TRUE
  /\ edits' = edits + 1
  /\ UNCHANGED <<mode, server, invalid, loads, screen, interacted, quiet, pendingLogo, bypass,
                 dialogs, saving, changes, foreign, record>>

-----------------------------------------------------------------------------
(* The query of the card                                                   *)

FetchRead ==
  /\ mode = "edit" /\ fetch = "sent"
  /\ fetch' = "answered" /\ coming' = server
  /\ UNCHANGED <<mode, server, invalid, cache, screen, flags, dialogs, saving, changes,
                 edits, foreign, record>>

(* The effects of a new card: form.reset, the local state, the flag.       *)
FetchLands ==
  /\ fetch = "answered" /\ mode = "edit"
  /\ cache' = coming /\ screen' = coming /\ base' = coming
  /\ coming' = NoCard /\ fetch' = "none"
  /\ interacted' = FALSE /\ quiet' = TRUE /\ excused' = {}
  /\ uncertain' = (uncertain \/ changes # {})
  /\ UNCHANGED <<mode, server, invalid, pendingLogo, pendingPhoto, bypass, dialogs, saving,
                 changes, edits, foreign, approved, seen>>

(* An answer that equals what is held is no new card, and no effect runs.  *)
SameLands ==
  /\ fetch = "answered" /\ mode = "edit"
  /\ coming = cache /\ base = cache /\ screen["logo"] = coming["logo"]
  /\ coming' = NoCard /\ fetch' = "none"
  /\ uncertain' = (uncertain \/ changes # {})
  /\ UNCHANGED <<mode, server, invalid, cache, screen, flags, dialogs, saving, changes, edits,
                 foreign, base, excused, approved, seen>>

FetchFails ==
  /\ fetch # "none" /\ mode = "edit"
  /\ fetch' = "none" /\ coming' = NoCard /\ uncertain' = TRUE
  /\ UNCHANGED <<mode, server, invalid, cache, screen, flags, dialogs, saving, changes,
                 edits, foreign, base, excused, approved, seen>>

QuietEnds ==
  /\ quiet /\ quiet' = FALSE
  /\ UNCHANGED <<mode, server, invalid, loads, screen, interacted, pendingLogo, pendingPhoto,
                 bypass, dialogs, saving, changes, edits, foreign, record>>

(* The banner of an invalid card, with its message.                        *)
MessageShown == AtHand /\ mode = "edit" /\ cache # NoCard /\ invalid

(* The message that made the card invalid is deleted.                      *)
MessageDeleted ==
  /\ MessageShown
  /\ invalid' = FALSE /\ fetch' = "sent" /\ coming' = NoCard
  /\ UNCHANGED <<mode, server, cache, screen, flags, dialogs, saving, changes, edits,
                 foreign, record>>

-----------------------------------------------------------------------------
(* Saving                                                                  *)

(* computeCriticalDiffs is not empty.                                      *)
NeedsApproval ==
  mode = "edit" /\ cache # NoCard /\ screen["critical"] # cache["critical"]

MaySubmit == AtHand /\ saving = "no"

Submit ==
  /\ MaySubmit
  /\ draft' = screen
  /\ seen' = cache["critical"] /\ approved' = -1
  /\ \/ NeedsApproval /\ dialog' = "approve" /\ UNCHANGED saving
     \/ ~NeedsApproval /\ mode = "create" /\ dialog' = "slug" /\ UNCHANGED saving
     \/ ~NeedsApproval /\ mode = "edit" /\ saving' = "update" /\ UNCHANGED dialog
  /\ uncertain' = (uncertain \/ changes # {})
  /\ UNCHANGED <<mode, server, invalid, loads, screen, flags, success, changes, edits,
                 foreign, base, excused>>

(* The payload that was shown is sent, whatever the screen shows by now.   *)
Approve ==
  /\ dialog = "approve"
  /\ dialog' = "none" /\ saving' = "update"
  /\ approved' = draft["critical"]
  /\ UNCHANGED <<mode, server, invalid, loads, screen, flags, success, draft, changes, edits,
                 foreign, base, excused, seen, uncertain>>

CloseDialog ==
  /\ dialog \in {"approve", "slug", "quit"}
  /\ dialog' = "none"
  /\ IF dialog = "quit" THEN UNCHANGED <<draft, seen>> ELSE draft' = NoCard /\ seen' = -1
  /\ UNCHANGED <<mode, server, invalid, loads, screen, flags, success, saving, changes, edits,
                 foreign, base, excused, approved, uncertain>>

SlugConfirmed ==
  /\ dialog = "slug"
  /\ dialog' = "none" /\ saving' = "create"
  /\ UNCHANGED <<mode, server, invalid, loads, screen, flags, success, draft, changes, edits,
                 foreign, record>>

(* JSON drops what is undefined: an emptied optional field is not sent.    *)
Applied(payload) ==
  [f \in Inputs |-> IF payload[f] = 0 /\ f \in {"critical", "form"} THEN server[f]
                    ELSE payload[f]]

Saved == {f \in Inputs : screen[f] # draft[f]}

UpdateSucceeds ==
  /\ saving = "update" /\ saving' = "no"
  /\ server' = Applied(draft) /\ base' = draft /\ draft' = NoCard
  /\ fetch' = "sent" /\ coming' = NoCard
  /\ interacted' = FALSE /\ quiet' = TRUE /\ success' = TRUE
  /\ excused' = Saved /\ approved' = -1 /\ seen' = -1
  /\ UNCHANGED <<mode, invalid, cache, screen, pendingLogo, pendingPhoto, bypass, dialog,
                 changes, edits, foreign, uncertain>>

(* Refused, or stored with an answer that is lost.                         *)
UpdateFails ==
  /\ saving = "update" /\ saving' = "no" /\ draft' = NoCard
  /\ \/ UNCHANGED <<server, uncertain>>
     \/ server' = Applied(draft) /\ uncertain' = TRUE
  /\ approved' = -1 /\ seen' = -1
  /\ UNCHANGED <<mode, invalid, loads, screen, flags, dialog, success, changes, edits,
                 foreign, base, excused>>

CreateFails ==
  /\ saving = "create" /\ saving' = "no" /\ draft' = NoCard
  /\ UNCHANGED <<mode, server, invalid, loads, screen, flags, dialog, success, changes, edits,
                 foreign, record>>

AfterCreate == IF pendingPhoto THEN "photo" ELSE "logo"

Created ==
  /\ saving = "create" /\ saving' = AfterCreate
  /\ server' = draft
  /\ UNCHANGED <<mode, invalid, loads, screen, flags, dialogs, changes, edits, foreign, record>>

(* Failing or not, the photo is followed by the logo.                      *)
PhotoUploaded ==
  /\ saving = "photo" /\ saving' = "logo"
  /\ UNCHANGED <<mode, server, invalid, loads, screen, flags, dialogs, changes, edits,
                 foreign, record>>

(* The logo's upload and the end of the mutation's onSuccess: the page     *)
(* becomes the editor of the card, whose query starts.                     *)
CreateDone ==
  /\ saving = "logo" /\ saving' = "no"
  /\ \/ /\ pendingLogo /\ pendingLogo' = FALSE
        /\ server' = [server EXCEPT !["logo"] = 1]
        /\ screen' = [screen EXCEPT !["logo"] = 1]
     \/ UNCHANGED <<pendingLogo, server, screen>>
  /\ mode' = "edit" /\ fetch' = "sent" /\ success' = TRUE
  /\ bypass' = TRUE /\ quiet' = TRUE /\ interacted' = FALSE /\ pendingPhoto' = FALSE
  /\ base' = draft /\ excused' = Saved /\ draft' = NoCard
  /\ UNCHANGED <<invalid, cache, coming, dialog, changes, edits, foreign, approved, seen,
                 uncertain>>

-----------------------------------------------------------------------------
(* Leaving                                                                 *)

Closed ==
  /\ mode' = "left" /\ server' = NoCard /\ invalid' = FALSE
  /\ cache' = NoCard /\ fetch' = "none" /\ coming' = NoCard
  /\ screen' = Blank /\ base' = Blank /\ interacted' = FALSE /\ quiet' = FALSE
  /\ pendingLogo' = FALSE /\ pendingPhoto' = FALSE /\ bypass' = FALSE
  /\ dialog' = "none" /\ success' = FALSE /\ draft' = NoCard
  /\ saving' = "no" /\ changes' = {} /\ edits' = 0 /\ foreign' = 0
  /\ excused' = {} /\ approved' = -1 /\ seen' = -1 /\ uncertain' = FALSE

(* The blocker of the router; the success modal covers a dirty form.       *)
Blocks == ~bypass /\ ~success /\ (interacted \/ pendingLogo \/ pendingPhoto)

Leave ==
  /\ mode # "left" /\ dialog = "none" /\ ~success
  /\ \/ ~Blocks /\ Closed
     \/ /\ Blocks /\ dialog' = "quit"
        /\ UNCHANGED <<mode, server, invalid, loads, screen, flags, success, draft, saving,
                       changes, edits, foreign, record>>

QuitAnyway == dialog = "quit" /\ Closed

SuccessClosed ==
  /\ success /\ dialog = "none"
  /\ \/ Closed
     \/ /\ success' = FALSE
        /\ UNCHANGED <<mode, server, invalid, loads, screen, flags, dialog, draft, saving,
                       changes, edits, foreign, record>>

(* Another admin, or the same one in another tab.                          *)
ForeignChange ==
  /\ mode = "edit" /\ edits + foreign < MaxEntries
  /\ \E v \in Texts("critical") \ {server["critical"]} :
       server' = [server EXCEPT !["critical"] = v]
  /\ foreign' = foreign + 1
  /\ UNCHANGED <<mode, invalid, loads, screen, flags, dialogs, saving, changes, edits, record>>

Typing ==
  \/ BasicsSection \/ ContactsSection \/ ServiceSection \/ AvatarColour \/ AppearanceSection
  \/ RowsSection \/ CustomRows \/ LabelPicked \/ ChairmanSection \/ TemplateSection
  \/ LogoOfNewCard \/ LogoFilePicked \/ LogoFileCleared \/ PhotoCropped
  \/ \E shape \in BOOLEAN : LogoChange(shape)

EditorNext ==
  \/ Typing
  \/ \E c \in changes : LogoStored(c) \/ LogoFails(c)
  \/ FetchRead \/ FetchLands \/ SameLands \/ FetchFails \/ QuietEnds \/ MessageDeleted
  \/ Submit \/ Approve \/ CloseDialog \/ SlugConfirmed
  \/ UpdateSucceeds \/ UpdateFails \/ CreateFails \/ Created \/ PhotoUploaded \/ CreateDone
  \/ Leave \/ QuitAnyway \/ SuccessClosed \/ ForeignChange

EditorSpec == EditorInit /\ [][EditorNext]_editorVars

-----------------------------------------------------------------------------
(* Properties                                                              *)

(* What an existing card's logo shows has been sent already.               *)
Unsaved == {f \in Inputs : screen[f] # base[f]} \ (IF mode = "edit" THEN {"logo"} ELSE {})

(* Whoever leaves is asked about every edit that has raised the flag since *)
(* the last load or save. Not about the others: contact and service        *)
(* blocks, an existing card's logo, what was typed in the deaf moment, or  *)
(* while a save was under way, and anything once the page has created its  *)
(* card.                                                                   *)
FlaggedEditsAsk ==
  [][mode # "left" /\ mode' = "left" /\ dialog # "quit" =>
       bypass \/ Unsaved \subseteq excused]_editorVars

(* While the page is open, what stands in the form changes only by typing  *)
(* or by a load of the card, which takes over all of it, typed text as     *)
(* well, and puts it on record as loaded: no save, refused or answered,    *)
(* and no failure touches it.                                              *)
TypingStands ==
  [][\A f \in Inputs \ {"logo"} : screen'[f] # screen[f] /\ mode' # "left" =>
       edits' = edits + 1 \/ (fetch = "answered" /\ screen' = coming /\ base' = coming)
    ]_editorVars

(* A save changes a name or the issue date on the server only to the value *)
(* that the admin approved, or that the page had been shown by the server  *)
(* (which undoes another admin's change), or if the card never loaded.     *)
CriticalApproved ==
  saving = "update" /\ saving' = "no" /\ mode' = "edit"
  /\ server'["critical"] # server["critical"] =>
    server'["critical"] \in {approved, seen} \/ seen = -1

(* When nothing is under way, unsaved, lost or overlapped and nobody else  *)
(* has changed the card, the screen shows what is stored: also after a     *)
(* refused change of the logo and after a save that left out blanks.       *)
ScreenIsTrue ==
  /\ mode = "edit" /\ cache # NoCard /\ fetch = "none" /\ saving = "no" /\ changes = {}
  /\ Unsaved = {} /\ foreign = 0 /\ ~uncertain
  => screen = server

=============================================================================
