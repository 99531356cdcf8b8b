------------------------------ MODULE CardsList ------------------------------
(***************************************************************************)
(* The list of cards: search, filter and page, the query that is keyed by  *)
(* them, and the deletion of a card. Filter and page are in the address,   *)
(* the search is not, and reaches the query 300 ms late. A list once       *)
(* fetched is kept, and fetched again when a deletion made it stale.       *)
(***************************************************************************)
EXTENDS Integers, FiniteSets

CONSTANTS
  People,      \* the cards there may be
  Matching,    \* those that match the search
  InRegion,    \* those in the region of the filter
  PageSize,    \* pageSize (20)
  MaxDeleted,  \* bound of the model: cards deleted
  MaxLists     \* bound of the model: lists asked for

ASSUME ListAssumption ==
  /\ IsFiniteSet(People) /\ People # {}
  /\ Matching \subseteq People /\ InRegion \subseteq People
  /\ PageSize \in Nat \ {0} /\ MaxDeleted \in Nat /\ MaxLists \in Nat

Pages  == 1..Cardinality(People)
Views  == [search : BOOLEAN, region : BOOLEAN, page : Pages]
Totals == 0..Cardinality(People)

VARIABLES
  stored,     \* the cards of the server
  typed,      \* the search field holds a text
  searching,  \* debouncedSearch
  region,     \* the filter by region is set
  listPage,   \* page
  lists,      \* the lists kept, by key: the total, and whether it is stale
  asked,      \* queries under way: key, and the total the server read for it
  target, deleting,  \* the dialog's card and those under deletion
  moved,      \* history: the page was set past the last card, or the search or
              \* the cards changed since
  overtaken   \* history: keys whose list a deletion went past unnoticed

listVars == <<stored, typed, searching, region, listPage, lists, asked, target, deleting,
              moved, overtaken>>

View == [search |-> searching, region |-> region, page |-> listPage]

Matches(v) ==
  {p \in stored : (v.search => p \in Matching) /\ (v.region => p \in InRegion)}

(* A slip: the key of the query lacks the region.                          *)
KeyWithoutRegion(v) == [v EXCEPT !.region = FALSE]

KeyOf(v) == v

Query(v) == [key |-> KeyOf(v), total |-> Cardinality(Matches(v))]

Current == KeyOf(View)
Loaded  == Current \in DOMAIN lists
Pending(k) == \E q \in asked : q.key = k

PageCount == IF Loaded THEN (lists[Current].total + PageSize - 1) \div PageSize ELSE 1

ListTypeOK ==
  /\ stored \subseteq People
  /\ {typed, searching, region, moved} \subseteq BOOLEAN
  /\ listPage \in Pages
  /\ \A k \in DOMAIN lists : k \in Views /\ lists[k] \in [total : Totals, stale : BOOLEAN]
  /\ asked \subseteq [key : Views, total : Totals]
  /\ target \subseteq People /\ deleting \subseteq People /\ overtaken \subseteq Views

ListInit ==
  /\ stored = People /\ listPage = 1
  /\ typed = FALSE /\ searching = FALSE /\ region = FALSE /\ moved = FALSE
  /\ lists = [k \in {} |-> 0] /\ asked = {} /\ overtaken = {}
  /\ target = {} /\ deleting = {}

(* The list on screen is fetched when there is none or it is stale.        *)
Fetch ==
  /\ ~Pending(Current)
  /\ Loaded => lists[Current].stale
  /\ Cardinality(DOMAIN lists \cup {q.key : q \in asked} \cup {Current}) <= MaxLists
  /\ asked' = asked \cup {Query(View)}
  /\ UNCHANGED <<stored, typed, searching, region, listPage, lists, target, deleting, moved,
                 overtaken>>

(* An answer is fresh from now on, whenever the server read it; a failure  *)
(* leaves what was there.                                                  *)
Answer(q) ==
  /\ q \in asked
  /\ asked' = asked \ {q}
  /\ \/ UNCHANGED lists
     \/ lists' = [k \in DOMAIN lists \cup {q.key} |->
                   IF k = q.key THEN [total |-> q.total, stale |-> FALSE] ELSE lists[k]]
  /\ UNCHANGED <<stored, typed, searching, region, listPage, target, deleting, moved, overtaken>>

SearchTyped ==
  /\ target = {} /\ typed' = ~typed
  /\ UNCHANGED <<stored, searching, region, listPage, lists, asked, target, deleting, moved,
                 overtaken>>

(* 300 ms later. The search does not touch the page.                       *)
SearchApplied ==
  /\ searching # typed /\ searching' = typed
  /\ moved' = TRUE
  /\ UNCHANGED <<stored, typed, region, listPage, lists, asked, target, deleting, overtaken>>

PageOfFilter == 1

(* Category, region, age, sort order and the layout of the list.           *)
FilterSet ==
  /\ target = {} /\ region' = ~region
  /\ listPage' = PageOfFilter
  /\ moved' = FALSE
  /\ UNCHANGED <<stored, typed, searching, lists, asked, target, deleting, overtaken>>

(* The buttons of the pagination, which is there for two pages and more;   *)
(* they count the pages of the list on screen, which may be out of date.   *)
PageChosen ==
  /\ target = {} /\ PageCount > 1
  /\ \/ listPage' \in 1..PageCount
     \/ listPage > 1 /\ listPage' = listPage - 1
  /\ listPage' # listPage
  /\ moved' = ((listPage' - 1) * PageSize >= Cardinality(Matches(View)))
  /\ UNCHANGED <<stored, typed, searching, region, lists, asked, target, deleting, overtaken>>

DeleteAsked ==
  /\ Loaded /\ target = {}
  /\ \E p \in Matches(View) : target' = {p}
  /\ UNCHANGED <<stored, typed, searching, region, listPage, lists, asked, deleting, moved,
                 overtaken>>

DeleteAnswered ==
  /\ target # {} /\ target' = {}
  /\ deleting' \in {deleting, deleting \cup target}
  /\ UNCHANGED <<stored, typed, searching, region, listPage, lists, asked, moved, overtaken>>

Stale == [k \in DOMAIN lists |-> [lists[k] EXCEPT !.stale = TRUE]]

(* The card is gone on the server; the answer is still to come.            *)
DeleteRuns ==
  /\ \E p \in deleting \cap stored : stored' = stored \ {p}
  /\ Cardinality(People \ stored') <= MaxDeleted
  /\ moved' = TRUE
  /\ UNCHANGED <<typed, searching, region, listPage, lists, asked, target, deleting, overtaken>>

(* The answer: every list is stale, the query of the one on screen is      *)
(* abandoned and sent anew. A failure is only reported.                    *)
Deleted ==
  /\ \E p \in deleting :
       /\ deleting' = deleting \ {p}
       /\ \/ /\ UNCHANGED <<lists, asked>>
             /\ overtaken' = IF p \in stored THEN overtaken ELSE Views
          \/ /\ p \notin stored
             /\ lists' = Stale
             /\ asked' = {q \in asked : q.key # Current} \cup {Query(View)}
             /\ overtaken' = overtaken \cup ({q.key : q \in asked} \ {Current})
  /\ UNCHANGED <<stored, typed, searching, region, listPage, target, moved>>

ListNext ==
  \/ Fetch \/ \E q \in asked : Answer(q)
  \/ SearchTyped \/ SearchApplied \/ FilterSet \/ PageChosen
  \/ DeleteAsked \/ DeleteAnswered \/ DeleteRuns \/ Deleted

ListSpec == ListInit /\ [][ListNext]_listVars

-----------------------------------------------------------------------------
(* Once no answer is missing, the list on screen counts the cards there    *)
(* are for the search and filter that are set: no other view's answer is   *)
(* shown, and none from before a deletion. Two lists may be out of date:   *)
(* one whose deletion's answer was lost, and one that left the screen      *)
(* while it was being fetched and was overtaken by a deletion.             *)
CountIsTrue ==
  Loaded /\ ~Pending(Current) /\ ~lists[Current].stale /\ Current \notin overtaken
    /\ deleting \subseteq stored
  => lists[Current].total = Cardinality(Matches(View))

(* A list with cards shows an empty page only after the search was changed *)
(* or a card was deleted since the page was chosen: filters go back to the *)
(* first page.                                                             *)
EmptyPageExplained ==
  Loaded /\ lists[Current].total > 0 /\ listPage > PageCount => moved

=============================================================================
