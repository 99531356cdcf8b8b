---------------------------- MODULE CardMessages ----------------------------
(***************************************************************************)
(* The message that stands in for a card: the dialog that publishes, edits *)
(* and deletes it, and the two handlers of the server, each several        *)
(* transactions long. One dialog serves every card of the list; "edit"     *)
(* inserts a newer message and leaves the older one in place. Dialogs of   *)
(* other admins and tabs, and the button of the card's page, send the same *)
(* requests at the same time. Nothing else writes is_active in the panel.  *)
(***************************************************************************)
EXTENDS Integers, FiniteSets

CONSTANTS
  Holders,    \* the cards
  Nobody,     \* no card
  MaxNotes,   \* bound of the model: messages published
  MaxOthers   \* bound of the model: requests of other pages under way

ASSUME MessagesAssumption ==
  Nobody \notin Holders /\ MaxNotes \in Nat \ {0} /\ MaxOthers \in Nat

Writers  == Holders \cup {Nobody}  \* in whose dialog a text or a file was put
(* A message: the dialogs it came from, and whether it was published with  *)
(* the box "make the card invalid" ticked.                                 *)
Notes    == [id : 1..MaxNotes, from : SUBSET Holders, stops : BOOLEAN]
NoNote   == [id |-> 0, from |-> {}, stops |-> FALSE]
(* What a request does next: the handlers' transactions in their order;    *)
(* "done": only the entry in the audit log and the answer are left.        *)
Steps    == {"first", "invalidate", "list", "look", "restore", "done", "failed"}

VARIABLES
  notes,      \* the active messages of each card
  valid,      \* is_active
  calls,      \* requests under way; `mine' are those of this dialog
  shown,      \* publishTarget: the card of the dialog
  picture,    \* file: in whose dialog it was chosen
  known,      \* the latest message of a card, as its query last answered
  outdated,   \* the cards whose query is stale
  loading,    \* the cards whose query is under way
  cut,        \* history: cards of which a request failed after its first transaction
              \* and before its last, and that were not restored since
  crossed     \* history: cards of which a publication stood between its two transactions
              \* when a removal stood between its first and its last

serverVars == <<notes, valid>>
cacheVars  == <<known, outdated, loading>>
pastVars   == <<cut, crossed>>
dialogVars == <<shown, picture>>
msgVars    == <<serverVars, calls, dialogVars, cacheVars, pastVars>>

Calls ==
  [kind : {"publish", "remove"}, of : Holders, note : Notes \cup {NoNote},
   mine : BOOLEAN, step : Steps]

LatestOf(s) == IF s = {} THEN NoNote ELSE CHOOSE n \in s : \A m \in s : m.id <= n.id

(* The variables take values the program can hold.                         *)
MessagesTypeOK ==
  /\ notes \in [Holders -> SUBSET Notes] /\ valid \in [Holders -> BOOLEAN]
  /\ calls \subseteq Calls /\ shown \in Writers
  /\ picture \in Writers
  /\ known \in [Holders -> Notes \cup {NoNote}]
  /\ outdated \subseteq Holders /\ loading \subseteq Holders
  /\ cut \subseteq Holders /\ crossed \subseteq Holders

MessagesInit ==
  /\ notes = [h \in Holders |-> {}] /\ valid = [h \in Holders |-> TRUE]
  /\ calls = {} /\ shown = Nobody
  /\ picture = Nobody
  /\ known = [h \in Holders |-> NoNote]
  /\ outdated = Holders /\ loading = {} /\ cut = {} /\ crossed = {}

-----------------------------------------------------------------------------
(* The form: the file, which only a reset or a click takes away, and the   *)
(* text, which an effect fills from the latest message whenever the dialog *)
(* opens or a query of it answers something new, and which is therefore    *)
(* always of the card that is shown. The picture of a message already      *)
(* published is shown and not sent again.                                  *)
(* A slip: the file of the closed dialog is kept.                          *)
ResetKeepsFile == UNCHANGED picture

ResetForm == picture' = Nobody

(* isPending of the dialog's own two requests disables its buttons.        *)
Busy == \E c \in calls : c.mine

DialogOpened(h) ==
  /\ shown = Nobody
  /\ shown' = h
  /\ loading' = loading \cup (outdated \cap {h})
  /\ UNCHANGED <<serverVars, calls, picture, known, outdated, pastVars>>

MessageDialogClosed ==
  /\ shown # Nobody
  /\ shown' = Nobody /\ ResetForm
  /\ UNCHANGED <<serverVars, calls, cacheVars, pastVars>>

PictureChosen ==
  /\ shown # Nobody
  /\ picture' = shown
  /\ UNCHANGED <<serverVars, calls, shown, cacheVars, pastVars>>

PictureCleared ==
  /\ shown # Nobody
  /\ picture' = Nobody
  /\ UNCHANGED <<serverVars, calls, shown, cacheVars, pastVars>>

Sent(kind, h, note, mine) ==
  calls' = calls \cup {[kind |-> kind, of |-> h, note |-> note, mine |-> mine, step |-> "first"]}

Draft(from, stops) == [id |-> 1, from |-> from, stops |-> stops]

PublishPressed(stops) ==
  /\ shown # Nobody /\ ~Busy
  /\ Sent("publish", shown, Draft({shown, picture} \cap Holders, stops), TRUE)
  /\ UNCHANGED <<serverVars, dialogVars, cacheVars, pastVars>>

RemovePressed ==
  /\ shown # Nobody /\ ~Busy
  /\ known[shown] # NoNote
  /\ Sent("remove", shown, known[shown], TRUE)
  /\ UNCHANGED <<serverVars, dialogVars, cacheVars, pastVars>>

(* Other pages: each keeps its own request apart in the same way, and has  *)
(* its own view of the card's latest message.                              *)
OtherSends(h) ==
  /\ Cardinality({c \in calls : ~c.mine}) < MaxOthers
  /\ \/ \E stops \in BOOLEAN : Sent("publish", h, Draft({h}, stops), FALSE)
     \/ \E n \in notes[h] : Sent("remove", h, n, FALSE)
  /\ UNCHANGED <<serverVars, dialogVars, cacheVars, pastVars>>

-----------------------------------------------------------------------------
(* The server: each step is a transaction of a handler.                    *)
Stored == UNION {notes[h] : h \in Holders}

Moves(c, step) == calls' = (calls \ {c}) \cup {[c EXCEPT !.step = step]}

(* The handler stands between its first transaction and its last.          *)
Halfway(c) == c.step \in {"invalidate", "list", "look", "restore"}

(* The card of c, when another kind of request stands half-way on it.      *)
MetBy(c) ==
  IF \E d \in calls : d.of = c.of /\ d.kind # c.kind /\ Halfway(d) THEN {c.of} ELSE {}

MessageCreated(c) ==
  /\ c.kind = "publish" /\ c.step = "first"
  /\ LET id == LatestOf(Stored).id + 1
     IN /\ id <= MaxNotes
        /\ notes' = [notes EXCEPT ![c.of] = @ \cup {[c.note EXCEPT !.id = id]}]
  /\ Moves(c, IF c.note.stops THEN "invalidate" ELSE "done")
  /\ crossed' = IF c.note.stops THEN crossed \cup MetBy(c) ELSE crossed
  /\ UNCHANGED <<valid, dialogVars, cacheVars, cut>>

CardInvalidated(c) ==
  /\ c.step = "invalidate"
  /\ valid' = [valid EXCEPT ![c.of] = FALSE]
  /\ Moves(c, "done")
  /\ UNCHANGED <<notes, dialogVars, cacheVars, pastVars>>

(* A message that is no longer there is answered with 404.                 *)
MessageRemoved(c) ==
  /\ c.kind = "remove" /\ c.step = "first"
  /\ IF c.note \in notes[c.of]
     THEN /\ notes' = [notes EXCEPT ![c.of] = @ \ {c.note}]
          /\ Moves(c, "list") /\ crossed' = crossed \cup MetBy(c)
     ELSE Moves(c, "failed") /\ UNCHANGED <<notes, crossed>>
  /\ UNCHANGED <<valid, dialogVars, cacheVars, cut>>

(* A slip: the card is restored whatever messages are left.                *)
AlwaysLast(h) == TRUE

NothingLeft(h) == notes[h] = {}

RestListed(c) ==
  /\ c.step = "list"
  /\ Moves(c, IF NothingLeft(c.of) THEN "look" ELSE "done")
  /\ UNCHANGED <<serverVars, dialogVars, cacheVars, pastVars>>

CardRead(c) ==
  /\ c.step = "look"
  /\ Moves(c, IF valid[c.of] THEN "done" ELSE "restore")
  /\ UNCHANGED <<serverVars, dialogVars, cacheVars, pastVars>>

CardRestored(c) ==
  /\ c.step = "restore"
  /\ valid' = [valid EXCEPT ![c.of] = TRUE] /\ cut' = cut \ {c.of}
  /\ Moves(c, "done")
  /\ UNCHANGED <<notes, dialogVars, cacheVars, crossed>>

(* A call of the handler raises, or the answer is lost: also the entry in  *)
(* the audit log, when all that the request does to the card is done.      *)
CallFailed(c) ==
  /\ c.step # "failed"
  /\ Moves(c, "failed")
  /\ cut' = IF Halfway(c) THEN cut \cup {c.of} ELSE cut
  /\ UNCHANGED <<serverVars, dialogVars, cacheVars, crossed>>

-----------------------------------------------------------------------------
(* The answers. onSuccess is that of the latest render: it invalidates the *)
(* queries of the card then shown, resets its form and closes the dialog.  *)
(* onError only says so. Other browsers have caches of their own.          *)
KeysOf(h) == {h} \cap Holders

CallAnswered(c) ==
  /\ c.step \in {"done", "failed"}
  /\ calls' = calls \ {c}
  /\ IF c.mine /\ c.step = "done"
     THEN /\ outdated' = outdated \cup KeysOf(shown)
          /\ loading' = loading \cup KeysOf(shown)
          /\ shown' = Nobody /\ ResetForm
     ELSE UNCHANGED <<outdated, loading, dialogVars>>
  /\ UNCHANGED <<serverVars, known, pastVars>>

MessagesAnswered(h) ==
  /\ h \in loading
  /\ known' = [known EXCEPT ![h] = LatestOf(notes[h])]
  /\ loading' = loading \ {h} /\ outdated' = outdated \ {h}
  /\ UNCHANGED <<serverVars, calls, dialogVars, pastVars>>

MessagesFailed(h) ==
  /\ h \in loading
  /\ loading' = loading \ {h}
  /\ UNCHANGED <<serverVars, calls, dialogVars, known, outdated, pastVars>>

(* A minute later everything held is stale.                                *)
KnownGrewOld ==
  /\ outdated # Holders /\ shown = Nobody
  /\ outdated' = Holders
  /\ UNCHANGED <<serverVars, calls, dialogVars, known, loading, pastVars>>

ServerStep(c) ==
  \/ MessageCreated(c) \/ CardInvalidated(c)
  \/ MessageRemoved(c) \/ RestListed(c) \/ CardRead(c) \/ CardRestored(c)
  \/ CallFailed(c)

MessagesNext ==
  \/ \E h \in Holders : DialogOpened(h) \/ OtherSends(h)
  \/ MessageDialogClosed \/ PictureChosen \/ PictureCleared
  \/ \E stops \in BOOLEAN : PublishPressed(stops)
  \/ RemovePressed
  \/ \E c \in calls : ServerStep(c) \/ CallAnswered(c)
  \/ \E h \in Holders : MessagesAnswered(h) \/ MessagesFailed(h)
  \/ KnownGrewOld

MessagesSpec == MessagesInit /\ [][MessagesNext]_msgVars

-----------------------------------------------------------------------------
(* The dialog is one for all cards, its file outlives the effect that      *)
(* fills it, and answers land late: still no card ever shows a picture     *)
(* that was put into the dialog of another card.                           *)
OwnWords ==
  \A h \in Holders : \A n \in notes[h] : n.from = {h}

(* Requests of several admins about one card, each of several transactions,*)
(* leave its validity and its messages in step once none is half-way: a    *)
(* card without a message is valid, one with a message that was to make it *)
(* invalid is not. The exceptions are a request that failed half-way, and  *)
(* a publication and a removal that overlapped there: the removal may take *)
(* the new message before the card is made invalid, or restore the card    *)
(* for which a message has been published since it found none.             *)
ValidityFollowsMessages ==
  \A h \in Holders \ (cut \cup crossed) :
    (\A c \in calls : c.of = h => ~Halfway(c)) =>
      /\ notes[h] = {} => valid[h]
      /\ (\E n \in notes[h] : n.stops) => ~valid[h]

(* The toast of a deletion: "message deleted, card restored".              *)
SaidRestored ==
  [][\A c \in calls :
       c.kind = "remove" /\ c.step = "done" /\ calls' = calls \ {c} => valid[c.of]]_msgVars
=============================================================================
