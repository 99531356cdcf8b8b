--------------------------- MODULE TemplateEditor ---------------------------
(***************************************************************************)
(* The editor of a template: a form that is filled by an effect from the   *)
(* query of the template, whose answer is kept for a minute, and a save    *)
(* that ends with a walk to the list, wherever the user is by then. The    *)
(* list and the menus of templates change the name of a template without   *)
(* touching that query.                                                    *)
(***************************************************************************)
EXTENDS Integers, FiniteSets

CONSTANTS
  Templates,
  Contents,    \* what a template may hold: name, styles, fields
  First,       \* what it holds at first
  NoTemplate, NoContent,
  MaxChanges   \* bound of the model: changes of templates

ASSUME TemplateEditorAssumption ==
  /\ NoTemplate \notin Templates /\ NoContent \notin Contents /\ First \in Contents
  /\ MaxChanges \in Nat

VARIABLES
  held,        \* the templates of the server
  cached,      \* the query of each template: its data, or NoContent
  cacheStale,  \* queries whose data is stale
  fetching,    \* queries under way: the template, and what the server read
  edited,      \* the template whose editor is on screen
  layout,       \* its form: NoContent before the query has data
  touched,     \* the form was changed since it was filled
  storing,     \* saves under way: template, content, and whether it has run
  renewals,
  passed,      \* history: templates changed behind their query's back
  strayed      \* history: the editor was left while a save was under way

tplEditorVars == <<held, cached, cacheStale, fetching, edited, layout, touched, storing, renewals,
                passed, strayed>>

TemplateEditorTypeOK ==
  /\ held \in [Templates -> Contents]
  /\ cached \in [Templates -> Contents \cup {NoContent}]
  /\ cacheStale \subseteq Templates /\ passed \subseteq Templates
  /\ fetching \subseteq [template : Templates, content : Contents]
  /\ edited \in Templates \cup {NoTemplate} /\ layout \in Contents \cup {NoContent}
  /\ {touched, strayed} \subseteq BOOLEAN
  /\ storing \subseteq [template : Templates, content : Contents, run : BOOLEAN]
  /\ renewals \in 0..MaxChanges
  /\ edited = NoTemplate => layout = NoContent

TemplateEditorInit ==
  /\ held = [t \in Templates |-> First]
  /\ cached = [t \in Templates |-> NoContent] /\ cacheStale = {} /\ fetching = {}
  /\ edited = NoTemplate /\ layout = NoContent /\ touched = FALSE
  /\ storing = {} /\ renewals = 0 /\ passed = {} /\ strayed = FALSE

EditorLoading == edited # NoTemplate /\ cached[edited] = NoContent

(* The page opens on what the query holds, stale or not.                   *)
EditorOpened ==
  /\ edited = NoTemplate
  /\ edited' \in Templates
  /\ layout' = cached[edited'] /\ touched' = FALSE
  /\ UNCHANGED <<held, cached, cacheStale, fetching, storing, renewals, passed, strayed>>

(* Back, or any other link: nothing asks about unsaved changes.            *)
EditorClosed ==
  /\ edited # NoTemplate /\ edited' = NoTemplate /\ layout' = NoContent /\ touched' = FALSE
  /\ strayed' = (strayed \/ storing # {})
  /\ UNCHANGED <<held, cached, cacheStale, fetching, storing, renewals, passed>>

(* For lack of data, because it is stale, or because a minute is over.     *)
TemplateAsked ==
  /\ edited # NoTemplate /\ \A f \in fetching : f.template # edited
  /\ fetching' = fetching \cup {[template |-> edited, content |-> held[edited]]}
  /\ UNCHANGED <<held, cached, cacheStale, edited, layout, touched, storing, renewals, passed,
                 strayed>>

(* The effect on the query's data, which is the same object as before when *)
(* nothing in it changed.                                                  *)
FormFilled(f) == f.template = edited /\ f.content # cached[edited]

TemplateAnswered(f) ==
  /\ f \in fetching /\ fetching' = fetching \ {f}
  /\ \/ /\ cached' = [cached EXCEPT ![f.template] = f.content]
        /\ cacheStale' = cacheStale \ {f.template}
        /\ IF FormFilled(f) THEN layout' = f.content /\ touched' = FALSE
           ELSE UNCHANGED <<layout, touched>>
        /\ passed' = IF f.content = held[f.template] THEN passed \ {f.template} ELSE passed
     \/ UNCHANGED <<cached, cacheStale, layout, touched, passed>>
  /\ UNCHANGED <<held, edited, storing, renewals, strayed>>

(* The fields of the form: name, avatar, background, logo, contacts, rows. *)
DraftEdited ==
  /\ edited # NoTemplate /\ ~EditorLoading
  /\ layout' \in Contents \ {layout} /\ touched' = TRUE
  /\ UNCHANGED <<held, cached, cacheStale, fetching, edited, storing, renewals, passed, strayed>>

DraftSaved ==
  /\ edited # NoTemplate /\ ~EditorLoading /\ renewals < MaxChanges
  /\ \A s \in storing : s.template # edited
  /\ storing' = storing \cup {[template |-> edited, content |-> layout, run |-> FALSE]}
  /\ renewals' = renewals + 1
  /\ UNCHANGED <<held, cached, cacheStale, fetching, edited, layout, touched, passed, strayed>>

SaveRuns(s) ==
  /\ s \in storing /\ ~s.run
  /\ storing' = (storing \ {s}) \cup {[s EXCEPT !.run = TRUE]}
  /\ held' = [held EXCEPT ![s.template] = s.content]
  /\ UNCHANGED <<cached, cacheStale, fetching, edited, layout, touched, renewals, passed, strayed>>

StaleAfterSave(t) == cacheStale \cup {t}

(* A success invalidates list and template and walks to the list; a        *)
(* failure is reported, and may have run all the same.                     *)
SaveAnswered(s) ==
  /\ s \in storing /\ storing' = storing \ {s}
  /\ \/ /\ s.run
        /\ cacheStale' = StaleAfterSave(s.template)
        /\ fetching' = {f \in fetching : f.template # s.template}
                         \cup (IF edited = s.template /\ edited \in cacheStale'
                                 THEN {[template |-> edited, content |-> held[edited]]} ELSE {})
        /\ edited' = NoTemplate /\ layout' = NoContent /\ touched' = FALSE
        /\ UNCHANGED passed
     \/ /\ passed' = IF s.run THEN passed \cup {s.template} ELSE passed
        /\ UNCHANGED <<cacheStale, fetching, edited, layout, touched>>
  /\ strayed' = (strayed /\ storing' # {})
  /\ UNCHANGED <<held, cached, renewals>>

(* The name is changed in the list, by a menu or by another administrator. *)
RenamedElsewhere ==
  /\ renewals < MaxChanges /\ renewals' = renewals + 1
  /\ \E t \in Templates, c \in Contents : held' = [held EXCEPT ![t] = c] /\ passed' = passed \cup {t}
  /\ UNCHANGED <<cached, cacheStale, fetching, edited, layout, touched, storing, strayed>>

TemplateEditorNext ==
  \/ EditorOpened \/ EditorClosed \/ TemplateAsked \/ DraftEdited \/ DraftSaved
  \/ RenamedElsewhere
  \/ \E f \in fetching : TemplateAnswered(f)
  \/ \E s \in storing : SaveRuns(s) \/ SaveAnswered(s)

TemplateEditorSpec == TemplateEditorInit /\ [][TemplateEditorNext]_tplEditorVars

-----------------------------------------------------------------------------
(* An editor that was not touched shows the template as it is, once no     *)
(* answer is missing: to save again does not take an earlier save back.    *)
(* Names that were changed elsewhere are the exception, for their change   *)
(* leaves the query as it was; so is a save whose answer was lost.         *)
EditorIsTrue ==
  edited # NoTemplate /\ ~touched /\ ~EditorLoading /\ edited \notin cacheStale
    /\ edited \notin passed
    /\ (\A f \in fetching : f.template # edited) /\ (\A s \in storing : s.template # edited)
  => layout = held[edited]

(* A form that was changed is given up only by the user, who may leave it  *)
(* and is not asked, or by an answer: to its own save, to a query that     *)
(* read another template than the one held, or to a save that was left     *)
(* behind, which walks to the list. No failure does it.                    *)
GivenUpByAnswers ==
  [][touched /\ ~touched' =>
       \/ EditorClosed \/ strayed
       \/ \E s \in storing \ storing' : s.template = edited
       \/ edited' = edited /\ layout' # cached[edited] /\ layout' = cached'[edited]
    ]_tplEditorVars

=============================================================================
