---------------------------- MODULE AdminsPanel -----------------------------
(***************************************************************************)
(* The page of the administrators: the table, the dialog that changes      *)
(* rights, the one that invites, and the deletion. The four scopes of the  *)
(* form are three roles and a list of categories for the server, which     *)
(* leaves the list alone when none is sent. Search and pages of the table  *)
(* only choose the rows at hand and are left out.                          *)
(***************************************************************************)
EXTENDS Integers, FiniteSets

CONSTANTS
  Accounts,     \* accounts there may be
  Staff,        \* those there are at first
  MaxSaves      \* bound of the model: rights saved, accounts invited

ASSUME AdminsPanelAssumption ==
  Staff \subseteq Accounts /\ MaxSaves \in Nat

Scopes     == {"all", "group", "card", "viewer"}
PanelRoles == {"super_admin", "admin", "viewer"}
Absent     == {"new", "gone"}   \* not created yet, deleted
Entry      == [role : PanelRoles \cup Absent, cats : BOOLEAN]
Forms      == [account : Accounts, scope : Scopes, cats : BOOLEAN]

VARIABLES
  entries,    \* the accounts of the server: role, and whether any category is allowed
  table,      \* what the list query holds
  form,       \* the dialog that is open: none, or the account, scope and categories
  inviting,   \* that dialog is the invitation
  sent,       \* requests of the dialogs under way: the form, and whether it has run
              \* and is the last that ran on its account
  saves,      \* how many there were
  delTarget,  \* deleteTarget
  confirmed   \* history: forms reported as saved, and not changed since

admVars == <<entries, table, form, inviting, sent, saves, delTarget, confirmed>>

AdminsPanelTypeOK ==
  /\ entries \in [Accounts -> Entry] /\ table \in [Accounts -> Entry]
  /\ inviting \in BOOLEAN
  /\ form \subseteq Forms /\ Cardinality(form) <= 1
  /\ sent \subseteq [form : Forms, invite : BOOLEAN, run : {"not", "last", "past"}]
  /\ Cardinality(sent) <= 2 /\ (form = {} => ~inviting)
  /\ saves \in 0..MaxSaves /\ confirmed \subseteq Forms
  /\ delTarget \subseteq Accounts

AdminsPanelInit ==
  /\ entries = [a \in Accounts |-> [role |-> IF a \in Staff THEN "admin" ELSE "new",
                                    cats |-> FALSE]]
  /\ table = entries
  /\ form = {} /\ inviting = FALSE /\ sent = {} /\ saves = 0
  /\ delTarget = {} /\ confirmed = {}

Alive(es) == {a \in Accounts : es[a].role \notin Absent}

ScopeOf(e) ==
  CASE e.role = "viewer"      -> "viewer"
    [] e.role = "super_admin" -> "all"
    [] OTHER                  -> IF e.cats THEN "group" ELSE "card"

(* A slip: two roles, as before there were viewers.                        *)
RoleOfTwo(scope) == IF scope = "all" THEN "super_admin" ELSE "admin"

RoleForScope(scope) ==
  CASE scope = "viewer" -> "viewer" [] scope = "all" -> "super_admin" [] OTHER -> "admin"

(* The query is invalidated by every success, and otherwise when it likes. *)
TableFetched ==
  /\ table # entries /\ table' = entries
  /\ UNCHANGED <<entries, form, inviting, sent, saves, delTarget, confirmed>>

(* openEditModal: the form starts from the table's row.                    *)
EditOpened ==
  /\ form = {} /\ delTarget = {}
  /\ \E a \in Alive(table) :
       form' = {[account |-> a, scope |-> ScopeOf(table[a]), cats |-> table[a].cats]}
  /\ inviting' = FALSE
  /\ UNCHANGED <<entries, table, sent, saves, delTarget, confirmed>>

(* "Cancel" leaves the invitation as it is, so that the next one may start *)
(* with any choice; a success or the dialog's cross empties it.            *)
InviteOpened ==
  /\ form = {} /\ delTarget = {}
  /\ \E a \in Accounts, s \in Scopes, c \in BOOLEAN :
       entries[a].role = "new" /\ form' = {[account |-> a, scope |-> s, cats |-> c]}
  /\ inviting' = TRUE
  /\ UNCHANGED <<entries, table, sent, saves, delTarget, confirmed>>

(* The selector of the scope, with the categories of a group.              *)
ScopeSelected ==
  /\ \E f \in form : \E s \in Scopes, c \in BOOLEAN :
       /\ c # f.cats => s = "group"
       /\ form' = {[f EXCEPT !.scope = s, !.cats = c]}
  /\ form' # form
  /\ UNCHANGED <<entries, table, inviting, sent, saves, delTarget, confirmed>>

DialogLeft ==
  /\ form # {} /\ form' = {} /\ inviting' = FALSE
  /\ UNCHANGED <<entries, table, sent, saves, delTarget, confirmed>>

(* One invitation and one change of rights at a time.                      *)
Submitted ==
  /\ saves < MaxSaves /\ saves' = saves + 1
  /\ \A q \in sent : q.invite # inviting
  /\ \E f \in form : sent' = sent \cup {[form |-> f, invite |-> inviting, run |-> "not"]}
  /\ UNCHANGED <<entries, table, form, inviting, delTarget, confirmed>>

(* The server: create_admin and update_admin; category_ids is sent for a   *)
(* group alone, and otherwise the categories stay what they were.          *)
Granted(f, invite) ==
  [role |-> RoleForScope(f.scope),
   cats |-> IF f.scope = "group" THEN f.cats ELSE ~invite /\ entries[f.account].cats]

Past(a) == {IF p.form.account = a /\ p.run = "last" THEN [p EXCEPT !.run = "past"] ELSE p :
             p \in sent}

RequestRuns(q) ==
  /\ q \in sent /\ q.run = "not"
  /\ IF q.invite THEN entries[q.form.account].role = "new"
     ELSE q.form.account \in Alive(entries)
  /\ sent' = (Past(q.form.account) \ {q}) \cup {[q EXCEPT !.run = "last"]}
  /\ entries' = [entries EXCEPT ![q.form.account] = Granted(q.form, q.invite)]
  /\ confirmed' = {f \in confirmed : f.account # q.form.account}
  /\ UNCHANGED <<table, form, inviting, saves, delTarget>>

(* A success closes the dialog of its kind, whatever is in it by now.      *)
RequestAnswered(q) ==
  /\ q \in sent /\ sent' = sent \ {q}
  /\ \/ UNCHANGED <<form, inviting, confirmed>>
     \/ /\ q.run # "not"
        /\ form' = IF inviting = q.invite THEN {} ELSE form
        /\ inviting' = (inviting /\ ~q.invite)
        /\ confirmed' = IF q.run = "last" THEN confirmed \cup {q.form} ELSE confirmed
  /\ UNCHANGED <<entries, table, saves, delTarget>>

AdminDeleteAsked ==
  /\ form = {} /\ delTarget = {}
  /\ \E a \in Alive(table) : delTarget' = {a}
  /\ UNCHANGED <<entries, table, form, inviting, sent, saves, confirmed>>

(* The request runs at once; its answer only invalidates the table.        *)
AdminDeleteAnswered ==
  /\ delTarget # {} /\ delTarget' = {}
  /\ \/ UNCHANGED <<entries, sent, confirmed>>
     \/ \E a \in delTarget \cap Alive(entries) :
          /\ entries' = [entries EXCEPT ![a] = [role |-> "gone", cats |-> FALSE]]
          /\ sent' = Past(a)
          /\ confirmed' = {f \in confirmed : f.account # a}
  /\ UNCHANGED <<table, form, inviting, saves>>

AdminsPanelNext ==
  \/ TableFetched
  \/ EditOpened \/ InviteOpened \/ ScopeSelected \/ DialogLeft \/ Submitted
  \/ AdminDeleteAsked \/ AdminDeleteAnswered
  \/ \E q \in sent : RequestRuns(q) \/ RequestAnswered(q)

AdminsPanelSpec == AdminsPanelInit /\ [][AdminsPanelNext]_admVars

-----------------------------------------------------------------------------
(* An account has the role its dialog reported to be saved, and with the   *)
(* scope "group" the categories, whatever was sent, answered late, failed  *)
(* or deleted before. Nothing is promised of the categories under the      *)
(* other scopes, with which none are sent: an administrator who was ever   *)
(* given some keeps them, and has them back when saved as "card".          *)
RightsAsReported ==
  \A f \in confirmed :
    LET has == entries[f.account] IN
    /\ has.role = "viewer" <=> f.scope = "viewer"
    /\ has.role = "super_admin" <=> f.scope = "all"
    /\ f.scope \in {"group", "card"} => has.role = "admin"
    /\ f.scope = "group" => has.cats = f.cats

=============================================================================
