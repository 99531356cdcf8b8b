--------------------------- MODULE TemplatesPanel ---------------------------
(***************************************************************************)
(* The list of templates: search and pages, and the dialogs that create,   *)
(* rename and delete. The answers of these requests close the dialog of    *)
(* their kind, whichever template it is for by then.                       *)
(***************************************************************************)
EXTENDS Integers, FiniteSets

CONSTANTS
  Layouts,      \* the templates there may be
  Original,     \* those there are at first
  Default,      \* the default one, which cannot be deleted
  Titled,       \* those whose name matches the search
  TplPageSize   \* TEMPLATES_PAGE_SIZE (12)

ASSUME TemplatesPanelAssumption ==
  /\ IsFiniteSet(Layouts)
  /\ Original \subseteq Layouts /\ Titled \subseteq Layouts /\ Default \in Original
  /\ TplPageSize \in Nat \ {0}

Cascades == {"template_only", "with_cards"}
Dialogs  == [kind : {"rename", "create", "delete"}, layout : Layouts, chosen : BOOLEAN]
Requests == [ask : Dialogs, cascade : Cascades]

VARIABLES
  layouts,      \* the templates of the server
  listed,       \* those the list query holds
  tplSearch, tplQuery, tplPage,  \* searchRaw not empty, the debounced one, currentPage
  tplDialog,    \* none, or its kind and template, and the history `chosen': to delete
                \* the cards was chosen for this template
  cascade,      \* deleteCascade
  requests      \* requests under way

panelVars == <<layouts, listed, tplSearch, tplQuery, tplPage, tplDialog, cascade, requests>>

TemplatesPanelTypeOK ==
  /\ layouts \subseteq Layouts /\ listed \subseteq Layouts
  /\ {tplSearch, tplQuery} \subseteq BOOLEAN /\ tplPage \in 1..Cardinality(Layouts)
  /\ tplDialog \subseteq Dialogs /\ Cardinality(tplDialog) <= 1
  /\ cascade \in Cascades /\ requests \subseteq Requests

TemplatesPanelInit ==
  /\ layouts = Original /\ listed = Original
  /\ tplSearch = FALSE /\ tplQuery = FALSE /\ tplPage = 1
  /\ tplDialog = {} /\ cascade = "template_only" /\ requests = {}

FilteredTemplates == {l \in listed : tplQuery => l \in Titled}
TotalPages ==
  IF FilteredTemplates = {} THEN 1
  ELSE (Cardinality(FilteredTemplates) + TplPageSize - 1) \div TplPageSize

SafePage == IF tplPage <= TotalPages THEN tplPage ELSE TotalPages

ListRefetched ==
  /\ listed # layouts /\ listed' = layouts
  /\ UNCHANGED <<layouts, tplSearch, tplQuery, tplPage, tplDialog, cascade, requests>>

TemplatesSearchTyped ==
  /\ tplDialog = {} /\ tplSearch' = ~tplSearch /\ tplPage' = 1
  /\ UNCHANGED <<layouts, listed, tplQuery, tplDialog, cascade, requests>>

TemplatesSearchApplied ==
  /\ tplQuery # tplSearch /\ tplQuery' = tplSearch
  /\ UNCHANGED <<layouts, listed, tplSearch, tplPage, tplDialog, cascade, requests>>

(* One of the numbers, the first four and the last, or a step from the     *)
(* page that was chosen, which may lie past the last one: the button then  *)
(* has no effect to be seen.                                               *)
TemplatesPageChosen ==
  /\ tplDialog = {} /\ FilteredTemplates # {}
  /\ \/ tplPage' \in {p \in 1..TotalPages : p <= 4 \/ p = TotalPages}
     \/ SafePage > 1 /\ tplPage' = tplPage - 1
     \/ SafePage < TotalPages /\ tplPage' = tplPage + 1
  /\ UNCHANGED <<layouts, listed, tplSearch, tplQuery, tplDialog, cascade, requests>>

Ask(kind, l) == [kind |-> kind, layout |-> l, chosen |-> FALSE]

RenameOpened ==
  /\ tplDialog = {}
  /\ \E l \in FilteredTemplates : tplDialog' = {Ask("rename", l)}
  /\ UNCHANGED <<layouts, listed, tplSearch, tplQuery, tplPage, cascade, requests>>

CreateOpened ==
  /\ tplDialog = {}
  /\ \E l \in Layouts \ Original : tplDialog' = {Ask("create", l)}
  /\ UNCHANGED <<layouts, listed, tplSearch, tplQuery, tplPage, cascade, requests>>

(* A slip: the choice of the last dialog is kept.                          *)
CascadeKept == cascade

CascadeOnOpen == "template_only"

DeleteOpened ==
  /\ tplDialog = {}
  /\ \E l \in FilteredTemplates \ {Default} : tplDialog' = {Ask("delete", l)}
  /\ cascade' = CascadeOnOpen
  /\ UNCHANGED <<layouts, listed, tplSearch, tplQuery, tplPage, requests>>

CascadeSelected ==
  /\ \E d \in tplDialog :
       /\ d.kind = "delete"
       /\ cascade' \in Cascades \ {cascade}
       /\ tplDialog' = {[d EXCEPT !.chosen = (cascade' = "with_cards")]}
  /\ UNCHANGED <<layouts, listed, tplSearch, tplQuery, tplPage, requests>>

TemplateDialogLeft ==
  /\ tplDialog # {} /\ tplDialog' = {}
  /\ UNCHANGED <<layouts, listed, tplSearch, tplQuery, tplPage, cascade, requests>>

(* One request of a kind at a time; the dialog stays until it is answered. *)
DialogConfirmed ==
  /\ \E d \in tplDialog :
       /\ \A q \in requests : q.ask.kind # d.kind
       /\ requests' = requests \cup {[ask |-> d, cascade |-> cascade]}
  /\ UNCHANGED <<layouts, listed, tplSearch, tplQuery, tplPage, tplDialog, cascade>>

(* A duplicate is asked for without a dialog.                              *)
Duplicated ==
  /\ tplDialog = {} /\ FilteredTemplates # {}
  /\ \E l \in Layouts \ Original :
       requests' = requests \cup {[ask |-> Ask("create", l), cascade |-> cascade]}
  /\ requests' # requests
  /\ UNCHANGED <<layouts, listed, tplSearch, tplQuery, tplPage, tplDialog, cascade>>

(* An answer closes the dialog of its kind: that of a deletion in any      *)
(* case, the others when they succeed.                                     *)
TemplateAnswer(q) ==
  /\ q \in requests /\ requests' = requests \ {q}
  /\ \E done \in BOOLEAN :
       /\ layouts' = IF ~done \/ q.ask.kind = "rename" THEN layouts
                     ELSE IF q.ask.kind = "create" THEN layouts \cup {q.ask.layout}
                     ELSE layouts \ {q.ask.layout}
       /\ tplDialog' = {d \in tplDialog : d.kind # q.ask.kind \/ (~done /\ d.kind # "delete")}
  /\ UNCHANGED <<listed, tplSearch, tplQuery, tplPage, cascade>>

TemplatesPanelNext ==
  \/ ListRefetched \/ TemplatesSearchTyped \/ TemplatesSearchApplied \/ TemplatesPageChosen
  \/ RenameOpened \/ CreateOpened \/ DeleteOpened \/ CascadeSelected \/ TemplateDialogLeft
  \/ DialogConfirmed \/ Duplicated
  \/ \E q \in requests : TemplateAnswer(q)

TemplatesPanelSpec == TemplatesPanelInit /\ [][TemplatesPanelNext]_panelVars

-----------------------------------------------------------------------------
(* The cards of a template are deleted with it only if that was chosen for *)
(* this very template: a choice made for another one, confirmed or not,    *)
(* does not carry over to the next dialog.                                 *)
CardsGoByChoice ==
  \A q \in requests : q.ask.kind = "delete" /\ q.cascade = "with_cards" => q.ask.chosen

(* While any template matches, the page on screen has one, though the      *)
(* chosen page outlives deletions, refetches and the debounced search.     *)
PageIsNotEmpty ==
  FilteredTemplates # {} =>
    SafePage >= 1 /\ (SafePage - 1) * TplPageSize < Cardinality(FilteredTemplates)

=============================================================================
