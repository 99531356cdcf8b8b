----------------------------- MODULE CardRegistry -----------------------------
(***************************************************************************)
(* The cards at the server: creation, PATCH, template and deletion as      *)
(* admins ask for them, the deletion of a template with what becomes of    *)
(* its cards, and the export, which reads them page by page. Each call of  *)
(* a repository is a transaction of its own and a step here.               *)
(*                                                                         *)
(* That a slug or a membership number is taken is found by a look-up, or   *)
(* by the unique index when the row is written; in either case, as when a  *)
(* call or the process fails, the request ends where it is (CardAborts).   *)
(***************************************************************************)
EXTENDS Integers, FiniteSets, SequencesExt

CONSTANTS
  Cards,           \* ids, which order cards of the same created_at
  Categories, Templates,
  DefaultTemplate, \* its row is written by a migration only
  NoTemplate,
  Admins,          \* with the role ADMIN, who have grants
  Super, Nobody,   \* a super admin; the card is assigned to no one
  Unset,           \* a field that the body of a PATCH leaves out
  Patches,         \* the bodies that are sent
  CardSlots,       \* requests under way at a time
  FirstCards, FirstGrants, FirstLayouts, \* the rows at first
  Moments,         \* values of created_at
  PageSize,        \* batch_size of the export (500 in the code)
  MaxAsked, MaxRegrants \* bounds of the model: requests, and changes of grants or layouts

Callers == Admins \cup {Super}
Bodies  == [cat : Categories \cup {Unset}, tpl : Templates \cup {NoTemplate, Unset},
            owner : Admins \cup {Nobody, Unset}]
Rows    == [state : {"free", "live", "deleted"}, cat : Categories,
            tpl : Templates \cup {NoTemplate}, owner : Admins \cup {Nobody}, born : Moments]

ASSUME CardAssumption ==
  /\ Cards \subseteq Nat /\ IsFiniteSet(Cards) /\ Moments \subseteq Nat
  /\ DefaultTemplate \in Templates /\ NoTemplate \notin Templates
  /\ Super \notin Admins /\ Nobody \notin Callers
  /\ Unset \notin Categories \cup Templates \cup {NoTemplate} \cup Admins \cup {Nobody}
  /\ Patches \subseteq Bodies /\ FirstCards \subseteq [Cards -> Rows]
  /\ \A f \in FirstCards, c \in Cards : f[c].state = "free" => f[c].tpl = NoTemplate
  /\ FirstGrants \in [Admins -> SUBSET Categories]
  /\ FirstLayouts \in [Templates -> Categories]
  /\ PageSize \in Nat \ {0} /\ MaxAsked \in Nat /\ MaxRegrants \in Nat

VARIABLES
  card,     \* the rows of cards
  layout,   \* the templates that exist, with their categories
  grants,   \* admin_card_groups
  ask,      \* the requests, with what they have read
  sheet,    \* the export, which runs once
  askCount, regrantCount,
  been,     \* history, for each request: what its admin's grants and its card have been since
  gapTaken, \* history: cards that took a template whose deletion had dealt with its cards
  stayed    \* history: cards in the export's scope ever since it was asked for

regVars == <<card, layout, grants, ask, sheet, askCount, regrantCount, been, gapTaken, stayed>>

(* A request, with the category it has read and whether its filter looks at*)
(* categories; an export, with the key of its last row.                    *)
NoBody  == [cat |-> Unset, tpl |-> Unset, owner |-> Unset]
Idle    == [op |-> "none", at |-> "none", card |-> 0, by |-> Nobody, body |-> NoBody,
            tpl |-> NoTemplate, cat |-> Unset, cascade |-> "none", wide |-> FALSE]
NoSheet == [at |-> "none", by |-> Nobody, wide |-> FALSE, only |-> Unset, last |-> <<>>,
            rows |-> <<>>]
NotBeen == [cats |-> {}, owners |-> {}, granted |-> {}, seen |-> FALSE]

Live(c)  == card[c].state = "live"
Free(c)  == card[c].state = "free"
Exists(t) == t \in DOMAIN layout

(* build_acl_filter: whether it looks at categories is settled when it is  *)
(* built, the categories themselves are looked up by each query it is in.  *)
Visible(who, wide, c) ==
  who = Super \/ card[c].owner = who \/ (wide /\ card[c].cat \in grants[who])

RegistryInit ==
  /\ card \in FirstCards /\ layout = FirstLayouts /\ grants = FirstGrants
  /\ ask = [r \in CardSlots |-> Idle] /\ askCount = 0 /\ regrantCount = 0
  /\ sheet = NoSheet
  /\ been = [r \in CardSlots |-> NotBeen] /\ gapTaken = {} /\ stayed = {}

-----------------------------------------------------------------------------
(* Requests                                                                *)

Goes(r, step)  == ask' = [ask EXCEPT ![r].at = step]
Ends(r)        == ask' = [ask EXCEPT ![r] = Idle]
At(r, ops, step) == ask[r].op \in ops /\ ask[r].at = step
ReadsOnly      == UNCHANGED <<card, layout, grants, sheet, askCount, regrantCount>>

Starts(r, request) ==
  /\ ask[r] = Idle /\ askCount < MaxAsked /\ askCount' = askCount + 1
  /\ ask' = [ask EXCEPT ![r] = request]
  /\ UNCHANGED <<card, layout, grants, sheet, regrantCount>>

(* CardService._acl is the first call about an existing card, the look-up  *)
(* of a template of the other two. A new card may name template, category, *)
(* both or neither.                                                        *)
CardAsked(r) ==
  \E c \in Cards, who \in Callers, t \in Templates :
    \/ \E named \in {t, NoTemplate}, k \in Categories \cup {Unset} :
         Starts(r, [Idle EXCEPT !.op = "create", !.at = "template", !.tpl = named, !.cat = k])
    \/ /\ ~Free(c)
       /\ LET q == [Idle EXCEPT !.at = "acl", !.card = c, !.by = who] IN
          \/ \E p \in Patches : Starts(r, [q EXCEPT !.op = "patch", !.body = p])
          \/ Starts(r, [q EXCEPT !.op = "apply", !.tpl = t])
          \/ Starts(r, [q EXCEPT !.op = "delete"])
    \/ \E cascade \in {"template_only", "with_cards"} :
         Starts(r, [Idle EXCEPT !.op = "drop", !.at = "template", !.tpl = t, !.cascade = cascade])

AclBuilt(r) ==
  /\ At(r, {"patch", "apply", "delete"}, "acl")
  /\ LET who == ask[r].by
     IN ask' = [ask EXCEPT ![r].at = IF ask[r].op = "delete" THEN "write" ELSE "card",
                           ![r].wide = who # Super /\ grants[who] # {}]
  /\ ReadsOnly

(* What update may not do without SUPER_ADMIN: assign the card to another  *)
(* admin, and move it to a category that is not among the caller's.        *)
Reassigns(p, c) == p.owner \in Admins /\ p.owner # card[c].owner
Moves(p, c)     == p.cat \in Categories /\ p.cat # card[c].cat

CardRead(r) ==
  /\ At(r, {"patch", "apply"}, "card")
  /\ LET q == ask[r] IN
     IF ~Live(q.card) \/ ~Visible(q.by, q.wide, q.card) THEN Ends(r)
     ELSE IF q.op = "apply" THEN Goes(r, "template")
     ELSE IF q.by = Super THEN Goes(r, "write")
     ELSE IF Reassigns(q.body, q.card) THEN Ends(r)
     ELSE Goes(r, IF Moves(q.body, q.card) THEN "grants" ELSE "write")
  /\ ReadsOnly

GrantsRead(r) ==
  /\ At(r, {"patch"}, "grants")
  /\ IF ask[r].body.cat \in grants[ask[r].by] THEN Goes(r, "write") ELSE Ends(r)
  /\ ReadsOnly

(* A slip: the default template is deleted like any other.                 *)
NoneUndeletable(t) == FALSE

Undeletable(t) == t = DefaultTemplate

(* _resolve_default_category: a card without a category gets that of its   *)
(* template or, without one or when it is gone, the default template,      *)
(* which is always there (RegistryTypeOK), and its category.               *)
CategoryResolved(r) ==
  /\ At(r, {"create"}, "template")
  /\ LET q == ask[r]  t == IF Exists(q.tpl) THEN q.tpl ELSE DefaultTemplate IN
     \/ q.cat # Unset /\ Goes(r, "write")
     \/ /\ q.cat = Unset /\ Exists(t)
        /\ ask' = [ask EXCEPT ![r].at = "write", ![r].tpl = t, ![r].cat = layout[t]]
  /\ ReadsOnly

(* The template that is applied, with its category, or is to be deleted.   *)
TemplateRead(r) ==
  /\ At(r, {"apply", "drop"}, "template")
  /\ LET q == ask[r] IN
     IF ~Exists(q.tpl) \/ (q.op = "drop" /\ Undeletable(q.tpl)) THEN Ends(r)
     ELSE IF q.op = "drop" THEN Goes(r, "cards")
     ELSE ask' = [ask EXCEPT ![r].at = "write", ![r].cat = layout[q.tpl]]
  /\ ReadsOnly

-----------------------------------------------------------------------------
(* Writes                                                                  *)

Given(new, old) == IF new = Unset THEN old ELSE new

Patched(row, p) ==
  [row EXCEPT !.cat = Given(p.cat, @), !.tpl = Given(p.tpl, @), !.owner = Given(p.owner, @)]

Writes(c, row) ==
  /\ row.tpl = NoTemplate \/ Exists(row.tpl) \/ row.tpl = card[c].tpl
  /\ card' = [card EXCEPT ![c] = row]
  /\ UNCHANGED <<layout, grants, sheet, askCount, regrantCount>>

(* The UPDATE is by id and deleted_at alone.                               *)
CardPatched(r) ==
  /\ At(r, {"patch"}, "write") /\ Live(ask[r].card)
  /\ Writes(ask[r].card, Patched(card[ask[r].card], ask[r].body))
  /\ Ends(r)

TemplateApplied(r) ==
  /\ At(r, {"apply"}, "write") /\ Live(ask[r].card)
  /\ Writes(ask[r].card, [card[ask[r].card] EXCEPT !.tpl = ask[r].tpl, !.cat = ask[r].cat])
  /\ Ends(r)

(* created_at is the start of a transaction, which may commit after those  *)
(* that start later; the id is random.                                     *)
CardCreated(r) ==
  /\ At(r, {"create"}, "write")
  /\ \E c \in Cards, b \in Moments :
       /\ Free(c)
       /\ Writes(c, [state |-> "live", cat |-> ask[r].cat, tpl |-> ask[r].tpl, owner |-> Nobody,
                     born |-> b])
  /\ Ends(r)

(* A slip: the filter is left out of the UPDATE.                           *)
DeletableById(q) == Live(q.card)

Deletable(q) == Live(q.card) /\ Visible(q.by, q.wide, q.card)

CardDeleted(r) ==
  /\ At(r, {"delete"}, "write") /\ Deletable(ask[r])
  /\ Writes(ask[r].card, [card[ask[r].card] EXCEPT !.state = "deleted"])
  /\ Ends(r)

(* soft_delete_by_template, or reassign_template to the default one.       *)
TemplateCardsGo(r) ==
  /\ At(r, {"drop"}, "cards")
  /\ card' = [c \in Cards |->
       IF ~Live(c) \/ card[c].tpl # ask[r].tpl THEN card[c]
       ELSE IF ask[r].cascade = "with_cards" THEN [card[c] EXCEPT !.state = "deleted"]
       ELSE [card[c] EXCEPT !.tpl = DefaultTemplate]]
  /\ Goes(r, "row")
  /\ UNCHANGED <<layout, grants, sheet, askCount, regrantCount>>

(* The row, with ON DELETE SET NULL for the cards that refer to it.        *)
TemplateGoes(r) ==
  /\ At(r, {"drop"}, "row") /\ Exists(ask[r].tpl)
  /\ layout' = Restrict(layout, DOMAIN layout \ {ask[r].tpl})
  /\ card' = [c \in Cards |->
       IF card[c].tpl = ask[r].tpl THEN [card[c] EXCEPT !.tpl = NoTemplate] ELSE card[c]]
  /\ Ends(r)
  /\ UNCHANGED <<grants, sheet, askCount, regrantCount>>

(* Refused, failed, or nothing left to write to.                           *)
CardAborts(r) == ask[r] # Idle /\ Ends(r) /\ ReadsOnly

(* Other requests: the category of a template and the grants of an admin.  *)
Regrants ==
  /\ regrantCount < MaxRegrants /\ regrantCount' = regrantCount + 1
  /\ \/ \E t \in DOMAIN layout, k \in Categories :
          layout' = [layout EXCEPT ![t] = k] /\ UNCHANGED grants
     \/ \E a \in Admins, ks \in SUBSET Categories :
          grants' = [grants EXCEPT ![a] = ks] /\ UNCHANGED layout
  /\ <<layout, grants>>' # <<layout, grants>>
  /\ UNCHANGED <<card, ask, sheet, askCount>>

-----------------------------------------------------------------------------
(* The export                                                              *)

InScope(who, wide, k, c) == Live(c) /\ Visible(who, wide, c) /\ (k = Unset \/ card[c].cat = k)

ExportAsked ==
  /\ sheet.at = "none"
  /\ \E who \in Callers, k \in Categories \cup {Unset} :
       sheet' = [NoSheet EXCEPT !.at = "page", !.by = who, !.only = k,
                                !.wide = who # Super /\ grants[who] # {}]
  /\ UNCHANGED <<card, layout, grants, ask, askCount, regrantCount>>

(* ORDER BY created_at, id                                                 *)
Before(c, d) == card[c].born < card[d].born \/ (card[c].born = card[d].born /\ c < d)

(* A slip: the id is left out of the key.                                  *)
PastTime(last, c) == last = <<>> \/ card[c].born > last[1]

Past(last, c) ==
  last = <<>> \/ card[c].born > last[1] \/ (card[c].born = last[1] /\ c > last[2])

(* The first cards of those found, as many as a page holds.                *)
IsPage(page, found) ==
  /\ \A i, j \in DOMAIN page : i < j => Before(page[i], page[j])
  /\ \A c \in found \ ToSet(page) :
       Len(page) = PageSize /\ \A i \in DOMAIN page : Before(page[i], c)

ExportPage ==
  /\ sheet.at = "page"
  /\ LET found == {c \in Cards : InScope(sheet.by, sheet.wide, sheet.only, c)
                                 /\ Past(sheet.last, c)}
     IN \E page \in BoundedSeq(found, PageSize) :
          /\ IsPage(page, found)
          /\ sheet' = [sheet EXCEPT
               !.rows = @ \o page,
               !.at   = IF Len(page) < PageSize THEN "done" ELSE "page",
               !.last = IF page = <<>> THEN @ ELSE <<card[Last(page)].born, Last(page)>>]
  /\ UNCHANGED <<card, layout, grants, ask, askCount, regrantCount>>

-----------------------------------------------------------------------------
(* The histories: what has been the case since a request was made.         *)

Watched(r) ==
  IF ask'[r].op \notin {"patch", "apply", "delete"} \/ ask'[r].by = Super THEN NotBeen
  ELSE LET c == ask'[r].card  a == ask'[r].by IN
       [cats    |-> been[r].cats \cup {card'[c].cat},
        owners  |-> been[r].owners \cup {card'[c].owner},
        granted |-> been[r].granted \cup grants'[a],
        seen    |-> been[r].seen \/ card'[c].owner = a \/ card'[c].cat \in grants'[a]]

InGap(t) == \E r \in CardSlots : At(r, {"drop"}, "row") /\ ask[r].tpl = t

Observed ==
  /\ been' = [r \in CardSlots |-> Watched(r)]
  /\ gapTaken' = {c \in Cards : IF card'[c].tpl = card[c].tpl THEN c \in gapTaken
                                ELSE InGap(card'[c].tpl)}
  /\ stayed' = {c \in Cards :
       /\ sheet'.at # "none" /\ (sheet.at = "none" \/ c \in stayed)
       /\ InScope(sheet.by, sheet.wide, sheet.only, c)'}

RegistryStep ==
  \/ \E r \in CardSlots :
       \/ CardAsked(r) \/ AclBuilt(r) \/ CardRead(r) \/ GrantsRead(r)
       \/ CategoryResolved(r) \/ TemplateRead(r)
       \/ CardPatched(r) \/ TemplateApplied(r) \/ CardCreated(r) \/ CardDeleted(r)
       \/ TemplateCardsGo(r) \/ TemplateGoes(r) \/ CardAborts(r)
  \/ Regrants \/ ExportAsked \/ ExportPage

RegistryNext == RegistryStep /\ Observed
RegistrySpec == RegistryInit /\ [][RegistryNext]_regVars

-----------------------------------------------------------------------------
RegistryTypeOK ==
  /\ card \in [Cards -> Rows] /\ DOMAIN layout \subseteq Templates
  /\ \A t \in DOMAIN layout : layout[t] \in Categories
  /\ grants \in [Admins -> SUBSET Categories]
  /\ DefaultTemplate \in DOMAIN layout
  /\ \A c \in Cards : card[c].tpl \in DOMAIN layout \cup {NoTemplate} \/ Free(c)

(* However the pages of an export and the changes of cards, grants and     *)
(* templates interleave: no card is exported twice, and none that was in   *)
(* the export's scope all the time is missing from it                      *)
(* (iter_all_for_export). Its scope is the filter as it was built: an admin*)
(* who has no grants then exports the cards assigned to them.              *)
ExportFaithful ==
  sheet.at # "none" =>
    /\ IsInjective(sheet.rows)
    /\ sheet.at = "done" => stayed \subseteq ToSet(sheet.rows)

(* What an admin without SUPER_ADMIN does to a card was within their       *)
(* rights at some moment of the request, though update and apply_template  *)
(* check what they read and write by id: the card was theirs or in a       *)
(* category of theirs; a PATCH moves it to a category that was theirs or   *)
(* its own, and assigns it to nobody else who did not have it. A deletion  *)
(* is within their rights when it takes effect.                            *)
RightsHonoured ==
  [][\A r \in CardSlots :
       ask[r] # Idle /\ ask'[r] = Idle /\ ask[r].op \in {"patch", "apply", "delete"} =>
         LET c == ask[r].card  a == ask[r].by IN
         a \in Admins /\ card'[c] # card[c] =>
           /\ been[r].seen
           /\ ask[r].op = "patch" =>
                /\ card'[c].cat \in been[r].cats \cup been[r].granted
                /\ card'[c].owner \in been[r].owners \cup {Nobody}
           /\ ask[r].op = "delete" => Visible(a, TRUE, c)]_regVars

(* The deletion of a template leaves no live card behind without one, but  *)
(* for those that took it between the two transactions of a deletion: the  *)
(* others are reassigned or deleted with it (TemplateService.delete).      *)
NoCardOrphaned ==
  [][\A c \in Cards :
       Live(c) /\ card[c].tpl \in DOMAIN layout \ DOMAIN layout'
         /\ card'[c].state = "live" /\ card'[c].tpl = NoTemplate
       => c \in gapTaken]_regVars

=============================================================================
