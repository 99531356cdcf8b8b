----------------------------- MODULE TemplateMenu -----------------------------
(***************************************************************************)
(* The menu of a template's tile: rename and delete. With a template that  *)
(* is alone in its category the server renames the category, in a second   *)
(* transaction, so that three queries hold names a rename changes. The     *)
(* templates page renames as well.                                         *)
(***************************************************************************)
EXTENDS Integers

CONSTANTS
  Titles,     \* names
  FirstTitle, \* that of the template and its category at first
  MaxRenames  \* bound of the model: renames asked for

ASSUME MenuAssumption == FirstTitle \in Titles /\ MaxRenames \in Nat

(* The queries ["templates"], ["categories"] and ["cards"], whose rows     *)
(* name their category.                                                    *)
QueryKeys == {"templates", "categories", "cards"}
Deletes   == {"template_only", "with_cards"}
Renames   == [from : {"menu", "page"}, title : Titles, state : {"sent", "renamed", "synced"}]
Deletions == [cascade : Deletes, chosen : BOOLEAN, done : BOOLEAN]

VARIABLES
  tplTitle, catTitle, alone,  \* the server: names, and whether the category has one template
  dropped,      \* it has deleted the template
  inQuery,      \* the name each query holds
  invalidated,  \* those that are fetched again
  inAnswer,     \* what the server read for these, "unread" before
  renameOpen, renameValue, deleteOpen, deleteCascade,
  renames, deletions,  \* mutations that are pending
  renameCount,
  chosenNow,    \* history: to delete the cards was chosen since the dialog was opened
  fromPage, unheard  \* history: a rename was sent from the page, or its answer was an error
                     \* after the server had renamed

menuVars == <<tplTitle, catTitle, alone, dropped, inQuery, invalidated, inAnswer, renameOpen,
              renameValue, deleteOpen, deleteCascade, renames, deletions, renameCount,
              chosenNow, fromPage, unheard>>
queries     == <<inQuery, invalidated, inAnswer>>
menuDialogs  == <<renameOpen, renameValue, deleteOpen, deleteCascade, chosenNow>>

MenuTypeOK ==
  /\ {tplTitle, catTitle, renameValue} \subseteq Titles
  /\ inQuery \in [QueryKeys -> Titles] /\ inAnswer \in [QueryKeys -> Titles \cup {"unread"}]
  /\ invalidated \subseteq QueryKeys
  /\ {alone, dropped, renameOpen, deleteOpen, chosenNow, fromPage, unheard} \subseteq BOOLEAN
  /\ deleteCascade \in Deletes
  /\ renames \subseteq Renames /\ deletions \subseteq Deletions /\ renameCount \in 0..MaxRenames

MenuInit ==
  /\ tplTitle = FirstTitle /\ catTitle = FirstTitle /\ alone \in BOOLEAN /\ dropped = FALSE
  /\ inQuery = [k \in QueryKeys |-> FirstTitle] /\ invalidated = {}
  /\ inAnswer = [k \in QueryKeys |-> "unread"]
  /\ renameOpen = FALSE /\ renameValue = FirstTitle
  /\ deleteOpen = FALSE /\ deleteCascade = "template_only" /\ chosenNow = FALSE
  /\ renames = {} /\ deletions = {} /\ renameCount = 0
  /\ fromPage = FALSE /\ unheard = FALSE

TitleFor(k) == IF k = "templates" THEN tplTitle ELSE catTitle

QueryRead(k) ==
  /\ k \in invalidated /\ inAnswer[k] = "unread"
  /\ inAnswer' = [inAnswer EXCEPT ![k] = TitleFor(k)]
  /\ UNCHANGED <<tplTitle, catTitle, alone, dropped, inQuery, invalidated, menuDialogs, renames,
                 deletions, renameCount, fromPage, unheard>>

QueryLands(k) ==
  /\ inAnswer[k] # "unread"
  /\ inQuery' = [inQuery EXCEPT ![k] = inAnswer[k]]
  /\ inAnswer' = [inAnswer EXCEPT ![k] = "unread"]
  /\ invalidated' = invalidated \ {k}
  /\ UNCHANGED <<tplTitle, catTitle, alone, dropped, menuDialogs, renames, deletions, renameCount,
                 fromPage, unheard>>

Invalidate(ks) ==
  /\ invalidated' = invalidated \cup ks
  /\ inAnswer' = [k \in QueryKeys |-> IF k \in ks THEN "unread" ELSE inAnswer[k]]
  /\ UNCHANGED inQuery

-----------------------------------------------------------------------------
(* Rename                                                                  *)

MenuRenameOpened ==
  /\ ~renameOpen /\ ~deleteOpen /\ renameOpen' = TRUE
  /\ renameValue' = inQuery["templates"]
  /\ UNCHANGED <<tplTitle, catTitle, alone, dropped, queries, deleteOpen, deleteCascade,
                 chosenNow, renames, deletions, renameCount, fromPage, unheard>>

(* Typing, the button that puts the name back, and leaving.                *)
MenuRenameTyped ==
  /\ renameOpen /\ renameValue' \in Titles /\ renameOpen' \in BOOLEAN
  /\ UNCHANGED <<tplTitle, catTitle, alone, dropped, queries, deleteOpen, deleteCascade,
                 chosenNow, renames, deletions, renameCount, fromPage, unheard>>

RenameAsked(place, title) ==
  /\ \A q \in renames : q.from # place
  /\ renameCount < MaxRenames /\ renameCount' = renameCount + 1
  /\ title # inQuery["templates"]
  /\ renames' = renames \cup {[from |-> place, title |-> title, state |-> "sent"]}
  /\ fromPage' = (fromPage \/ place = "page")
  /\ UNCHANGED <<tplTitle, catTitle, alone, dropped, queries, menuDialogs, deletions, unheard>>

MenuRenameSaved == renameOpen /\ RenameAsked("menu", renameValue)
PageRenameSaved == \E t \in Titles : RenameAsked("page", t)

Advanced(q, state) == (renames \ {q}) \cup {[q EXCEPT !.state = state]}

(* TemplateService.update, and _sync_category_name after it.               *)
RenameRuns(q) ==
  /\ q \in renames /\ q.state = "sent" /\ ~dropped
  /\ tplTitle' = q.title /\ renames' = Advanced(q, "renamed")
  /\ UNCHANGED <<catTitle, alone, dropped, queries, menuDialogs, deletions, renameCount, fromPage,
                 unheard>>

CategorySynced(q) ==
  /\ q \in renames /\ q.state = "renamed"
  /\ catTitle' = IF alone THEN q.title ELSE catTitle
  /\ renames' = Advanced(q, "synced")
  /\ UNCHANGED <<tplTitle, alone, dropped, queries, menuDialogs, deletions, renameCount, fromPage,
                 unheard>>

KeysOfRename(q) == IF q.from = "page" THEN {"templates"} ELSE QueryKeys

RenameSucceeds(q) ==
  /\ q \in renames /\ q.state = "synced" /\ renames' = renames \ {q}
  /\ Invalidate(KeysOfRename(q))
  /\ renameOpen' = IF q.from = "menu" THEN FALSE ELSE renameOpen
  /\ UNCHANGED <<tplTitle, catTitle, alone, dropped, renameValue, deleteOpen, deleteCascade,
                 chosenNow, deletions, renameCount, fromPage, unheard>>

RenameErrs(q) ==
  /\ q \in renames /\ renames' = renames \ {q}
  /\ unheard' = (unheard \/ q.state # "sent")
  /\ UNCHANGED <<tplTitle, catTitle, alone, dropped, queries, menuDialogs, deletions, renameCount,
                 fromPage>>

-----------------------------------------------------------------------------
(* Delete                                                                  *)

CascadeReset == "template_only"

MenuDeleteOpened ==
  /\ ~renameOpen /\ ~deleteOpen /\ deleteOpen' = TRUE
  /\ deleteCascade' = CascadeReset /\ chosenNow' = FALSE
  /\ UNCHANGED <<tplTitle, catTitle, alone, dropped, queries, renameOpen, renameValue, renames,
                 deletions, renameCount, fromPage, unheard>>

MenuCascadeSelected ==
  /\ deleteOpen
  /\ deleteCascade' \in Deletes /\ chosenNow' = (deleteCascade' = "with_cards")
  /\ UNCHANGED <<tplTitle, catTitle, alone, dropped, queries, deleteOpen, renameOpen,
                 renameValue, renames, deletions, renameCount, fromPage, unheard>>

MenuDeleteLeft ==
  /\ deleteOpen /\ deleteOpen' = FALSE
  /\ UNCHANGED <<tplTitle, catTitle, alone, dropped, queries, deleteCascade, chosenNow,
                 renameOpen, renameValue, renames, deletions, renameCount, fromPage, unheard>>

MenuDeleteConfirmed ==
  /\ deleteOpen /\ deletions = {}
  /\ deletions' = {[cascade |-> deleteCascade, chosen |-> chosenNow, done |-> FALSE]}
  /\ UNCHANGED <<tplTitle, catTitle, alone, dropped, queries, menuDialogs, renames, renameCount,
                 fromPage, unheard>>

MenuDeleteRuns ==
  /\ ~dropped /\ \E q \in deletions : ~q.done
  /\ dropped' = TRUE
  /\ deletions' = {[q EXCEPT !.done = TRUE] : q \in deletions}
  /\ UNCHANGED <<tplTitle, catTitle, alone, queries, menuDialogs, renames, renameCount, fromPage,
                 unheard>>

(* An error leaves the dialog open, with its choice.                       *)
MenuDeleteAnswered ==
  /\ deletions # {} /\ deletions' = {}
  /\ \/ UNCHANGED <<queries, deleteOpen>>
     \/ /\ \E q \in deletions : q.done
        /\ Invalidate({"templates", "cards"}) /\ deleteOpen' = FALSE
  /\ UNCHANGED <<tplTitle, catTitle, alone, dropped, deleteCascade, chosenNow, renameOpen,
                 renameValue, renames, renameCount, fromPage, unheard>>

MenuNext ==
  \/ \E k \in QueryKeys : QueryRead(k) \/ QueryLands(k)
  \/ MenuRenameOpened \/ MenuRenameTyped \/ MenuRenameSaved \/ PageRenameSaved
  \/ \E q \in renames :
       RenameRuns(q) \/ CategorySynced(q) \/ RenameSucceeds(q) \/ RenameErrs(q)
  \/ MenuDeleteOpened \/ MenuCascadeSelected \/ MenuDeleteLeft \/ MenuDeleteConfirmed
  \/ MenuDeleteRuns \/ MenuDeleteAnswered

MenuSpec == MenuInit /\ [][MenuNext]_menuVars

-----------------------------------------------------------------------------
(* "The category is renamed with the template - otherwise the list and the *)
(* filter would keep the old name until the page is reloaded": once no     *)
(* rename is under way, a query that is not being fetched again holds the  *)
(* name there is.                                                          *)
NamesShown ==
  renames = {} /\ ~unheard => \A k \in QueryKeys \ invalidated : inQuery[k] = TitleFor(k)

(* Of the renames from the menu this is so, though one may overtake the    *)
(* lists of another and the category is renamed after the template.        *)
MenuNamesShown == ~fromPage => NamesShown

(* The cards of a template are deleted with it only if that was chosen     *)
(* since its dialog was opened, however often it was left and whatever     *)
(* became of an earlier attempt.                                           *)
MenuCardsGoByChoice ==
  \A q \in deletions : q.cascade = "with_cards" => q.chosen

=============================================================================
