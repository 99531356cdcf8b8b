---------------------------- MODULE MCPanelPages ----------------------------
(***************************************************************************)
(* The pages of the admin panel but that of its accounts, which MCAdmins   *)
(* has. Each is a machine of its own: a behaviour of this module is that   *)
(* of one page while the others rest.                                      *)
(***************************************************************************)
EXTENDS CardEditor, BlockRows, SlugDialog, CardsList, CardMessages, ImportWizard, TemplateEditor,
        TemplatesPanel, TemplateMenu, RegionPage, LoginForm

VARIABLE page   \* the page of this behaviour

cardVars  == <<editorVars, rowVars, slugVars, listVars, msgVars>>
adminVars == <<wizVars, regionVars, loginVars>>
tplVars   == <<tplEditorVars, panelVars, menuVars>>

(* Where a page may start in several ways, it does so on its own turn only.*)
PagesInit ==
  /\ EditorInit /\ RowsInit /\ SlugInit /\ ListInit /\ MessagesInit
  /\ WizardInit /\ RegionInit /\ LoginInit
  /\ TemplateEditorInit /\ TemplatesPanelInit /\ MenuInit
  /\ page \in {"editor", "rows", "slug", "list", "messages", "shared", "import", "regions",
               "login", "template", "templates", "menu"}
  /\ mode = "edit" => page = "editor"
  /\ blocks # <<>> => page = "rows"
  /\ keptIn => page = "login"
  /\ alone => page = "menu"

(* The dialog of messages goes from card to card while nobody else is at   *)
(* work and no request stops half-way; or it stays, without a picture,     *)
(* with one card that other pages work on too, until requests have crossed *)
(* on it.                                                                  *)
Alone     == cut = {} /\ \A c \in calls : c.mine
OnOneCard ==
  LET common == CHOOSE h \in Holders : TRUE
  IN /\ shown \in {Nobody, common} /\ picture = Nobody
     /\ \A c \in calls : c.of = common

RestOfCards(others) == UNCHANGED <<others, adminVars, tplVars>>
RestOfAdmin(others) == UNCHANGED <<others, cardVars, tplVars>>
RestOfLayouts(others) == UNCHANGED <<others, cardVars, adminVars>>

EditorTurn   == EditorNext /\ RestOfCards(<<rowVars, slugVars, listVars, msgVars>>)
RowsTurn     == BlockRowsNext /\ RestOfCards(<<editorVars, slugVars, listVars, msgVars>>)
SlugTurn     == SlugNext /\ RestOfCards(<<editorVars, rowVars, listVars, msgVars>>)
ListTurn     == ListNext /\ RestOfCards(<<editorVars, rowVars, slugVars, msgVars>>)
MessagesTurn == MessagesNext /\ RestOfCards(<<editorVars, rowVars, slugVars, listVars>>)
ImportTurn   == WizardNext /\ RestOfAdmin(<<regionVars, loginVars>>)
RegionsTurn  == RegionNext /\ RestOfAdmin(<<wizVars, loginVars>>)
LoginTurn    == LoginNext /\ RestOfAdmin(<<wizVars, regionVars>>)
TemplateTurn == TemplateEditorNext /\ RestOfLayouts(<<panelVars, menuVars>>)
LayoutsTurn  == TemplatesPanelNext /\ RestOfLayouts(<<tplEditorVars, menuVars>>)
MenuTurn     == MenuNext /\ RestOfLayouts(<<tplEditorVars, panelVars>>)

PagesNext ==
  /\ page' = page
  /\ \/ page = "editor" /\ EditorTurn
     \/ page = "rows" /\ RowsTurn
     \/ page = "slug" /\ SlugTurn
     \/ page = "list" /\ ListTurn
     \/ page = "messages" /\ MessagesTurn /\ Alone'
     \/ page = "shared" /\ MessagesTurn /\ OnOneCard' /\ crossed = {}
     \/ page = "import" /\ ImportTurn
     \/ page = "regions" /\ RegionsTurn
     \/ page = "login" /\ LoginTurn
     \/ page = "template" /\ TemplateTurn
     \/ page = "templates" /\ LayoutsTurn
     \/ page = "menu" /\ MenuTurn

PagesSpec == PagesInit /\ [][PagesNext]_<<page, cardVars, adminVars, tplVars>>

-----------------------------------------------------------------------------
(* What the pages owe their admin, each the conjunction of what the pages  *)
(* promise of it.                                                          *)

(* A form that is not being edited shows what the server holds (the card   *)
(* editor, the template's editor), also after refused or late answers. Not *)
(* so where an answer was lost or changes of a logo overlapped             *)
(* (`uncertain'), another admin changed the card (`foreign'), or the       *)
(* template was changed without its query being told (`passed').           *)
FormsShowStored == ScreenIsTrue /\ EditorIsTrue

(* A list that is neither stale nor being fetched shows what there is,     *)
(* under the name it has now, and no page is empty without a reason: not   *)
(* a list whose query read before a deletion (`overtaken'), and a search   *)
(* or a deletion is such a reason. Nobody else changes cards meanwhile.    *)
ListsAreTrue == CountIsTrue /\ EmptyPageExplained /\ PageIsNotEmpty /\ MenuNamesShown

(* What is typed goes by known ways only: on leaving the card's page with  *)
(* a question if it has raised the flag, without one otherwise and from    *)
(* the template's editor; in place by a load that lands on it.             *)
EditsGoByKnownWays == FlaggedEditsAsk /\ TypingStands /\ GivenUpByAnswers

(* What is done is what was confirmed: a changed name or date as approved, *)
(* or as the page had been shown it, which may undo another admin's        *)
(* change; a template's cards deleted only if that was chosen for it.      *)
DoneAsConfirmed ==
  [][CriticalApproved /\ CardsGoByChoice' /\ MenuCardsGoByChoice']_<<cardVars, tplVars>>

(* Rows keep their ids; a name reaches the row it was given to, if that    *)
(* row was not moved or replaced meanwhile, and contacts the region they   *)
(* were written for, once its list has loaded.                             *)
RowsStayHome == IdsFollowBlocks /\ IdsDistinct /\ NamesGoHome /\ ContactsStayHome

(* A dialog that is opened again, or for another card, answers for itself: *)
(* the check of a slug, the file of a message.                             *)
DialogsAreTheirOwn == ButtonMeansFree /\ OwnWords

(* The import dialog polls a job that it shows as running, unless a poll   *)
(* failed (`deaf'), and what it shows as a job's end is a status the job   *)
(* has had, unless answers of two jobs were mixed up (`mixed').            *)
ImportIsWatched == ProgressIsWatched /\ OutcomeIsReal

(* Only the form that was submitted signs in, unless its page was left     *)
(* while the request was under way (`orphaned'), and a refused login       *)
(* leaves the choice of the storage alone.                                 *)
LoginIsItsOwn == [][SignedInAsAsked' /\ FailureKeepsStorage]_loginVars
=============================================================================
