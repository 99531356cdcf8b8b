------------------------------ MODULE PageProofs ------------------------------
(***************************************************************************)
(* Proofs about the pages of the panel, for any sets of cards, templates,  *)
(* regions, jobs and accounts. Each page is a machine of its own, with an  *)
(* invariant of its own; the last part composes them.                      *)
(***************************************************************************)
EXTENDS MCPanelPages, FiniteSetTheorems, SequenceTheorems,
        WellFoundedInduction, TLAPS

-----------------------------------------------------------------------------
(* The list of cards                                                       *)

LEMMA DivIs ==
  ASSUME NEW m \in Nat, NEW s \in Nat \ {0}
  PROVE  /\ m \div s \in Nat
         /\ s * (m \div s) <= m /\ m < s * (m \div s) + s
  BY SMT

LEMMA TimesGrows ==
  ASSUME NEW a \in Int, NEW b \in Int, a <= b, NEW s \in Nat
  PROVE  s * a <= s * b /\ s * a \in Int /\ s * b \in Int
  BY SMT

(* Counted by rounding up, the page p exists when the pages before it do   *)
(* not hold all n entries.                                                 *)
LEMMA PagesUp ==
  ASSUME NEW n \in Nat, NEW s \in Nat \ {0}, NEW p \in Int
  PROVE  /\ (n + s - 1) \div s \in Nat
         /\ p <= (n + s - 1) \div s <=> (p - 1) * s < n
PROOF
  <1>1. PICK q \in Nat : /\ q = (n + s - 1) \div s
                         /\ s * q <= n + s - 1 /\ n + s - 1 < s * q + s
    <2>1. n + s - 1 \in Nat  OBVIOUS
    <2>. QED  BY <2>1, DivIs
  <1>2. s * (q - 1) = s * q - s /\ (p - 1) * s = s * (p - 1)  OBVIOUS
  <1>3. CASE p <= q
    <2>1. s * (p - 1) <= s * (q - 1)  BY <1>3, TimesGrows
    <2>. QED  BY <1>1, <1>2, <1>3, <2>1
  <1>4. CASE q < p
    <2>1. s * q <= s * (p - 1)  BY <1>4, TimesGrows
    <2>. QED  BY <1>1, <1>2, <1>4, <2>1
  <1>. QED  BY <1>3, <1>4

(* There are no more pages than entries.                                   *)
LEMMA PagesFew ==
  ASSUME NEW n \in Nat, NEW s \in Nat \ {0}
  PROVE  (n + s - 1) \div s <= n
PROOF
  <1>1. PICK q \in Nat : q = (n + s - 1) \div s  BY PagesUp
  <1>2. (q - 1) * s < n  BY <1>1, PagesUp
  <1>3. CASE q > n
    <2>1. s * n <= s * (q - 1)  BY <1>3, TimesGrows
    <2>2. 1 * n <= s * n  BY SMT
    <2>. QED  BY <1>2, <2>1, <2>2
  <1>. QED  BY <1>1, <1>3

USE ListAssumption

MatchCount(v) == Cardinality(Matches(v))

ListShape ==
  /\ stored \subseteq People /\ IsFiniteSet(stored)
  /\ searching \in BOOLEAN /\ region \in BOOLEAN /\ typed \in BOOLEAN
  /\ listPage \in Pages
  /\ DOMAIN lists \subseteq Views
  /\ \A k \in DOMAIN lists : lists[k] \in [total : Totals, stale : BOOLEAN]
  /\ asked \subseteq [key : Views, total : Totals]

(* No list has counted less than there is: cards only disappear. It has    *)
(* counted right unless a deletion has gone past it, noticed or not.       *)
ListCounts ==
  /\ \A k \in DOMAIN lists : MatchCount(k) <= lists[k].total
  /\ \A q \in asked : MatchCount(q.key) <= q.total
  /\ deleting \subseteq stored =>
       /\ \A k \in DOMAIN lists :
            k \notin overtaken /\ ~lists[k].stale => lists[k].total = MatchCount(k)
       /\ \A q \in asked : q.key \notin overtaken => q.total = MatchCount(q.key)

(* The page is one that the cards reach, until the cards or the search are *)
(* others.                                                                 *)
PageReached == moved = TRUE \/ listPage = 1 \/ (listPage - 1) * PageSize < MatchCount(View)

ListInv == ListShape /\ ListCounts /\ PageReached

LEMMA CountIs ==
  ASSUME stored \subseteq People, NEW v
  PROVE  IsFiniteSet(Matches(v)) /\ MatchCount(v) \in Totals /\ MatchCount(v) \in Nat
PROOF
  <1>1. Matches(v) \subseteq People  BY DEF Matches
  <1>2. IsFiniteSet(Matches(v)) /\ Cardinality(Matches(v)) <= Cardinality(People)
    BY <1>1, FS_Subset
  <1>. QED  BY <1>2, FS_CardinalityType DEF MatchCount, Totals

LEMMA CountFalls ==
  ASSUME stored \subseteq People, stored' \subseteq stored, NEW v
  PROVE  MatchCount(v)' <= MatchCount(v) /\ MatchCount(v)' \in Nat /\ MatchCount(v) \in Nat
PROOF
  <1>1. Matches(v)' \subseteq Matches(v)  BY DEF Matches
  <1>2. IsFiniteSet(Matches(v)) /\ MatchCount(v) \in Nat  BY CountIs
  <1>. QED  BY <1>1, <1>2, FS_Subset, FS_CardinalityType DEF MatchCount

LEMMA CountStays ==
  ASSUME stored' = stored, NEW v
  PROVE  MatchCount(v)' = MatchCount(v)
  BY DEF MatchCount, Matches

LEMMA PeopleCounted == Cardinality(People) \in Nat \ {0}
  BY FS_CardinalityType, FS_EmptySet

LEMMA ListInitially == ListInit => ListInv
PROOF
  <1> SUFFICES ASSUME ListInit  PROVE ListInv
    OBVIOUS
  <1>0. DOMAIN lists = {}  BY DEF ListInit
  <1>1. ListShape
    <2>1. 1 \in Pages  BY PeopleCounted DEF Pages
    <2>. QED  BY <1>0, <2>1 DEF ListInit, ListShape
  <1>2. ListCounts  BY <1>0 DEF ListInit, ListCounts
  <1>3. PageReached  BY DEF ListInit, PageReached
  <1>. QED  BY <1>1, <1>2, <1>3 DEF ListInv

LEMMA QueryOfView ==
  ASSUME ListShape
  PROVE  /\ View \in Views /\ Current = View
         /\ Query(View) \in [key : Views, total : Totals] /\ Query(View).key = View
         /\ Query(View).total = MatchCount(View)
PROOF
  <1>1. View \in Views  BY DEF ListShape, View, Views
  <1>. QED  BY <1>1, CountIs DEF ListShape, Query, KeyOf, MatchCount, Current

(* The pages of the list on screen are pages.                              *)
LEMMA CountedPages == ListShape => PageCount \in Nat /\ PageCount <= Cardinality(People)
PROOF
  <1> SUFFICES ASSUME ListShape  PROVE PageCount \in Nat /\ PageCount <= Cardinality(People)
    OBVIOUS
  <1>1. CASE Loaded
    <2>1. PICK n \in Nat : n = lists[Current].total /\ n <= Cardinality(People)
      BY <1>1, PeopleCounted DEF ListShape, Loaded, Totals
    <2>2. PageCount = (n + PageSize - 1) \div PageSize  BY <1>1, <2>1 DEF PageCount
    <2>3. (n + PageSize - 1) \div PageSize \in Nat /\ (n + PageSize - 1) \div PageSize <= n
      BY PagesUp, PagesFew
    <2>. QED  BY <2>1, <2>2, <2>3, PeopleCounted
  <1>2. CASE ~Loaded  BY <1>2, PeopleCounted DEF PageCount
  <1>. QED  BY <1>1, <1>2

LEMMA ListShapeKept == ListShape /\ [ListNext]_listVars => ListShape'
PROOF
  <1> SUFFICES ASSUME ListShape, [ListNext]_listVars  PROVE ListShape'
    OBVIOUS
  <1>1. CASE Fetch  BY <1>1, QueryOfView DEF Fetch, ListShape
  <1>2. ASSUME NEW q \in asked, Answer(q)  PROVE ListShape'
    <2>1. CASE UNCHANGED lists  BY <1>2, <2>1 DEF Answer, ListShape
    <2>2. CASE lists' = [k \in DOMAIN lists \cup {q.key} |->
                           IF k = q.key THEN [total |-> q.total, stale |-> FALSE] ELSE lists[k]]
      <3>1. q.key \in Views /\ q.total \in Totals  BY <1>2 DEF ListShape
      <3>2. DOMAIN lists' \subseteq Views  BY <2>2, <3>1 DEF ListShape
      <3>3. \A k \in DOMAIN lists' : lists'[k] \in [total : Totals, stale : BOOLEAN]
        BY <2>2, <3>1 DEF ListShape
      <3>. QED  BY <1>2, <3>2, <3>3 DEF Answer, ListShape
    <2>. QED  BY <1>2, <2>1, <2>2 DEF Answer
  <1>3. CASE SearchTyped \/ DeleteAsked \/ DeleteAnswered \/ UNCHANGED listVars
    BY <1>3 DEF SearchTyped, DeleteAsked, DeleteAnswered, listVars, ListShape
  <1>4. CASE SearchApplied  BY <1>4 DEF SearchApplied, ListShape
  <1>5. CASE FilterSet
    <2>1. 1 \in Pages  BY PeopleCounted DEF Pages
    <2>. QED  BY <1>5, <2>1 DEF FilterSet, PageOfFilter, ListShape
  <1>6. CASE PageChosen
    <2>1. listPage' \in Pages
      BY <1>6, CountedPages, PeopleCounted DEF PageChosen, ListShape, Pages
    <2>. QED  BY <1>6, <2>1 DEF PageChosen, ListShape
  <1>7. CASE DeleteRuns
    <2>1. stored' \subseteq stored  BY <1>7 DEF DeleteRuns
    <2>2. IsFiniteSet(stored')  BY <2>1, FS_Subset DEF ListShape
    <2>. QED  BY <1>7, <2>1, <2>2 DEF DeleteRuns, ListShape
  <1>8. CASE Deleted
    <2>1. lists' = lists \/ lists' = Stale  BY <1>8 DEF Deleted
    <2>2. /\ DOMAIN lists' \subseteq Views
          /\ \A k \in DOMAIN lists' : lists'[k] \in [total : Totals, stale : BOOLEAN]
      BY <2>1 DEF ListShape, Stale
    <2>3. asked' \subseteq [key : Views, total : Totals]
      BY <1>8, QueryOfView DEF Deleted, ListShape
    <2>. QED  BY <1>8, <2>2, <2>3 DEF Deleted, ListShape
  <1>. QED  BY <1>1, <1>2, <1>3, <1>4, <1>5, <1>6, <1>7, <1>8 DEF ListNext

LEMMA ListCountsKept == ListShape /\ ListCounts /\ [ListNext]_listVars => ListCounts'
PROOF
  <1> SUFFICES ASSUME ListShape, ListCounts, [ListNext]_listVars  PROVE ListCounts'
    OBVIOUS
  <1>0. stored \subseteq People  BY DEF ListShape
  <1>1. CASE Fetch
    <2>1. /\ asked' = asked \cup {Query(View)} /\ stored' = stored
          /\ UNCHANGED <<lists, deleting, overtaken>>
      BY <1>1 DEF Fetch
    <2>2. Query(View).total = MatchCount(Query(View).key)  BY QueryOfView
    <2>3. MatchCount(Query(View).key) \in Nat  BY <1>0, CountIs
    <2>. QED  BY <2>1, <2>2, <2>3, CountStays DEF ListCounts
  <1>2. ASSUME NEW q \in asked, Answer(q)  PROVE ListCounts'
    <2>1. asked' \subseteq asked /\ stored' = stored /\ UNCHANGED <<deleting, overtaken>>
      BY <1>2 DEF Answer
    <2>2. CASE UNCHANGED lists  BY <2>1, <2>2, CountStays DEF ListCounts
    <2>3. CASE lists' = [k \in DOMAIN lists \cup {q.key} |->
                           IF k = q.key THEN [total |-> q.total, stale |-> FALSE] ELSE lists[k]]
      <3>1. /\ DOMAIN lists' = DOMAIN lists \cup {q.key}
            /\ lists'[q.key].total = q.total
            /\ \A k \in DOMAIN lists' : k # q.key => k \in DOMAIN lists /\ lists'[k] = lists[k]
        BY <2>3
      <3>2. MatchCount(q.key) <= q.total  BY DEF ListCounts
      <3>3. deleting \subseteq stored /\ q.key \notin overtaken => q.total = MatchCount(q.key)
        BY DEF ListCounts
      <3>. QED  BY <2>1, <3>1, <3>2, <3>3, CountStays DEF ListCounts
    <2>. QED  BY <1>2, <2>2, <2>3 DEF Answer
  <1>3. CASE SearchTyped \/ SearchApplied \/ FilterSet \/ PageChosen \/ DeleteAsked
             \/ UNCHANGED listVars
    <2>1. UNCHANGED <<stored, lists, asked, deleting, overtaken>>
      BY <1>3 DEF SearchTyped, SearchApplied, FilterSet, PageChosen, DeleteAsked, listVars
    <2>. QED  BY <2>1, CountStays DEF ListCounts
  <1>4. CASE DeleteAnswered
    <2>1. UNCHANGED <<stored, lists, asked, overtaken>> /\ deleting \subseteq deleting'
      BY <1>4 DEF DeleteAnswered
    <2>. QED  BY <2>1, CountStays DEF ListCounts
  <1>5. CASE DeleteRuns
    <2>1. /\ stored' \subseteq stored /\ UNCHANGED <<lists, asked>>
          /\ ~(deleting' \subseteq stored')
      BY <1>5 DEF DeleteRuns
    <2>2. \A v : MatchCount(v)' <= MatchCount(v) /\ MatchCount(v)' \in Nat
                 /\ MatchCount(v) \in Nat
      BY <1>0, <2>1, CountFalls
    <2>3. \A k \in DOMAIN lists : lists[k].total \in Nat
      BY PeopleCounted DEF ListShape, Totals
    <2>4. \A q \in asked : q.total \in Nat  BY PeopleCounted DEF ListShape, Totals
    <2>. QED  BY <2>1, <2>2, <2>3, <2>4 DEF ListCounts
  <1>6. CASE Deleted
    <2>1. PICK p \in deleting :
            /\ deleting' = deleting \ {p}
            /\ \/ /\ UNCHANGED <<lists, asked>>
                  /\ overtaken' = IF p \in stored THEN overtaken ELSE Views
               \/ /\ p \notin stored
                  /\ lists' = Stale
                  /\ asked' = {q \in asked : q.key # Current} \cup {Query(View)}
                  /\ overtaken' = overtaken \cup ({q.key : q \in asked} \ {Current})
      BY <1>6 DEF Deleted
    <2>2. stored' = stored  BY <1>6 DEF Deleted
    <2>3. CASE p \in stored
      <3>1. UNCHANGED <<lists, asked, overtaken>>  BY <2>1, <2>3
      <3>2. deleting' \subseteq stored' => deleting \subseteq stored  BY <2>1, <2>2, <2>3
      <3>. QED  BY <2>2, <3>1, <3>2, CountStays DEF ListCounts
    <2>4. CASE p \notin stored /\ UNCHANGED <<lists, asked>> /\ overtaken' = Views
      <3>1. \A k \in DOMAIN lists : k \in Views  BY DEF ListShape
      <3>2. \A q \in asked : q.key \in Views  BY DEF ListShape
      <3>. QED  BY <2>2, <2>4, <3>1, <3>2, CountStays DEF ListCounts
    <2>5. CASE /\ lists' = Stale
               /\ asked' = {q \in asked : q.key # Current} \cup {Query(View)}
               /\ overtaken' = overtaken \cup ({q.key : q \in asked} \ {Current})
      <3>1. /\ DOMAIN lists' = DOMAIN lists
            /\ \A k \in DOMAIN lists : lists'[k].stale = TRUE /\ lists'[k].total = lists[k].total
        BY <2>5 DEF Stale, ListShape
      <3>2. Query(View).total = MatchCount(Query(View).key)
            /\ MatchCount(Query(View).key) \in Nat
        BY <1>0, QueryOfView, CountIs
      <3>3. \A q \in asked' : q = Query(View) \/ (q \in asked /\ q.key \in overtaken')
        BY <2>5
      <3>. QED  BY <2>2, <3>1, <3>2, <3>3, CountStays DEF ListCounts
    <2>. QED  BY <2>1, <2>3, <2>4, <2>5
  <1>. QED  BY <1>1, <1>2, <1>3, <1>4, <1>5, <1>6 DEF ListNext

LEMMA PageReachedKept == ListInv /\ [ListNext]_listVars => PageReached'
PROOF
  <1> SUFFICES ASSUME ListInv, [ListNext]_listVars  PROVE PageReached'
    OBVIOUS
  <1>0. ListShape /\ PageReached  BY DEF ListInv
  <1>1. CASE SearchApplied \/ DeleteRuns
    BY <1>1 DEF SearchApplied, DeleteRuns, PageReached
  <1>2. CASE FilterSet  BY <1>2 DEF FilterSet, PageOfFilter, PageReached
  <1>3. CASE PageChosen
    <2>1. /\ moved' = ((listPage' - 1) * PageSize >= MatchCount(View))
          /\ UNCHANGED <<stored, searching, region>>
      BY <1>3 DEF PageChosen, MatchCount
    <2>2. MatchCount(View)' = MatchCount(View)
      BY <2>1 DEF MatchCount, Matches, View
    <2>3. PICK m \in Nat : m = MatchCount(View)  BY <1>0, CountIs DEF ListShape
    <2>4. listPage' \in Nat
      BY <1>0, <1>3, CountedPages, PeopleCounted DEF PageChosen, ListShape, Pages
    <2>5. PICK n \in Int : n = (listPage' - 1) * PageSize
      <3>1. (listPage' - 1) * PageSize \in Int  BY <2>4
      <3>. QED  BY <3>1
    <2>6. CASE n >= m
      <3>1. moved' = TRUE  BY <2>1, <2>3, <2>5, <2>6
      <3>. QED  BY <3>1 DEF PageReached
    <2>7. CASE n < m  BY <2>2, <2>3, <2>5, <2>7 DEF PageReached
    <2>. QED  BY <2>3, <2>5, <2>6, <2>7
  <1>4. CASE Fetch \/ (\E q \in asked : Answer(q)) \/ SearchTyped \/ DeleteAsked
             \/ DeleteAnswered \/ Deleted \/ UNCHANGED listVars
    <2>1. UNCHANGED <<stored, moved, listPage, searching, region>>
      BY <1>4 DEF Fetch, Answer, SearchTyped, DeleteAsked, DeleteAnswered, Deleted, listVars
    <2>2. MatchCount(View)' = MatchCount(View)
      BY <2>1 DEF MatchCount, Matches, View
    <2>. QED  BY <1>0, <2>1, <2>2 DEF PageReached
  <1>. QED  BY <1>1, <1>2, <1>3, <1>4 DEF ListNext

LEMMA ListKept == ListInv /\ [ListNext]_listVars => ListInv'
  BY ListShapeKept, ListCountsKept, PageReachedKept DEF ListInv

(* The list on screen counts the cards there are, and shows an empty page  *)
(* only after the search or the cards have changed.                        *)
LEMMA ListIsTrue == ListInv => CountIsTrue /\ EmptyPageExplained
PROOF
  <1> SUFFICES ASSUME ListInv  PROVE CountIsTrue /\ EmptyPageExplained
    OBVIOUS
  <1>0. Current = View  BY QueryOfView DEF ListInv
  <1>1. CountIsTrue
    BY <1>0 DEF ListInv, ListCounts, CountIsTrue, Loaded, MatchCount
  <1>2. ASSUME Loaded, lists[Current].total > 0, listPage > PageCount, moved # TRUE
        PROVE  FALSE
    <2>1. PICK n \in Nat : n = lists[Current].total /\ MatchCount(View) <= n
      BY <1>0, <1>2, PeopleCounted DEF ListInv, ListShape, ListCounts, Loaded, Totals
    <2>2. PageCount = (n + PageSize - 1) \div PageSize  BY <1>2, <2>1 DEF PageCount
    <2>3. PICK lp \in Nat \ {0} : lp = listPage
      BY PeopleCounted DEF ListInv, ListShape, Pages
    <2>4. ~((lp - 1) * PageSize < n)  BY <1>2, <2>2, <2>3, PagesUp
    <2>5. lp = 1 \/ (lp - 1) * PageSize < MatchCount(View)
      BY <1>2, <2>3 DEF ListInv, PageReached
    <2>6. MatchCount(View) \in Nat  BY CountIs DEF ListInv, ListShape
    <2>7. (lp - 1) * PageSize \in Int /\ (1 - 1) * PageSize = 0  OBVIOUS
    <2>. QED  BY <1>2, <2>1, <2>4, <2>5, <2>6, <2>7
  <1>. QED  BY <1>1, <1>2 DEF EmptyPageExplained

HIDE ListAssumption

-----------------------------------------------------------------------------
(* The list of templates and the dialogs over it                           *)

USE TemplatesPanelAssumption

(* A dialog that deletes is set to take the cards along only if that was   *)
(* chosen in it, and what is sent was so set.                              *)
LayoutsInv ==
  /\ layouts \subseteq Layouts /\ listed \subseteq Layouts
  /\ tplPage \in Nat \ {0} /\ cascade \in Cascades
  /\ tplDialog \subseteq Dialogs /\ requests \subseteq Requests
  /\ \A d \in tplDialog :
       d.kind = "delete" /\ cascade = "with_cards" => d.chosen = TRUE
  /\ \A q \in requests :
       q.ask.kind = "delete" /\ q.cascade = "with_cards" => q.ask.chosen = TRUE

LEMMA FilteredPages ==
  ASSUME LayoutsInv
  PROVE  /\ IsFiniteSet(FilteredTemplates) /\ Cardinality(FilteredTemplates) \in Nat
         /\ TotalPages \in Nat \ {0} /\ SafePage \in Nat \ {0} /\ SafePage <= TotalPages
         /\ FilteredTemplates # {} =>
              TotalPages = (Cardinality(FilteredTemplates) + TplPageSize - 1) \div TplPageSize
PROOF
  <1>1. IsFiniteSet(FilteredTemplates)
    <2>1. FilteredTemplates \subseteq Layouts  BY DEF LayoutsInv, FilteredTemplates
    <2>. QED  BY <2>1, FS_Subset
  <1>2. PICK n \in Nat : n = Cardinality(FilteredTemplates)  BY <1>1, FS_CardinalityType
  <1>3. FilteredTemplates # {} =>
          TotalPages = (n + TplPageSize - 1) \div TplPageSize
    BY <1>2 DEF TotalPages
  <1>4. TotalPages \in Nat \ {0}
    <2>1. CASE FilteredTemplates = {}  BY <2>1 DEF TotalPages
    <2>2. CASE FilteredTemplates # {}
      <3>1. n > 0  BY <1>1, <1>2, <2>2, FS_EmptySet
      <3>2. (1 - 1) * TplPageSize = 0  OBVIOUS
      <3>3. /\ (n + TplPageSize - 1) \div TplPageSize \in Nat
            /\ 1 <= (n + TplPageSize - 1) \div TplPageSize
        BY <3>1, <3>2, PagesUp
      <3>. QED  BY <1>3, <2>2, <3>3
    <2>. QED  BY <2>1, <2>2
  <1>5. tplPage \in Nat \ {0}  BY DEF LayoutsInv
  <1>6. SafePage \in Nat \ {0} /\ SafePage <= TotalPages  BY <1>4, <1>5 DEF SafePage
  <1>. QED  BY <1>1, <1>2, <1>3, <1>4, <1>6

LEMMA LayoutsInitially == TemplatesPanelInit => LayoutsInv
  BY DEF TemplatesPanelInit, LayoutsInv, Cascades

LEMMA LayoutsKept == LayoutsInv /\ [TemplatesPanelNext]_panelVars => LayoutsInv'
PROOF
  <1> SUFFICES ASSUME LayoutsInv, [TemplatesPanelNext]_panelVars  PROVE LayoutsInv'
    OBVIOUS
  <1>1. CASE ListRefetched \/ TemplatesSearchApplied \/ TemplateDialogLeft
             \/ UNCHANGED panelVars
    BY <1>1 DEF ListRefetched, TemplatesSearchApplied, TemplateDialogLeft, panelVars, LayoutsInv
  <1>2. CASE TemplatesSearchTyped
    BY <1>2 DEF TemplatesSearchTyped, LayoutsInv
  <1>3. CASE TemplatesPageChosen
    <2>1. tplPage' \in Nat \ {0}
      <3>1. PICK p \in Nat \ {0} : p = SafePage  BY FilteredPages
      <3>2. PICK n \in Nat \ {0} : n = TotalPages  BY FilteredPages
      <3>3. tplPage \in Nat \ {0}  BY DEF LayoutsInv
      <3>4. p > 1 => tplPage > 1  BY <3>1, <3>3 DEF SafePage
      <3>5. CASE tplPage' \in {m \in 1..TotalPages : m <= 4 \/ m = TotalPages}
        BY <3>2, <3>5
      <3>6. CASE p > 1 /\ tplPage' = tplPage - 1  BY <3>3, <3>4, <3>6
      <3>7. CASE tplPage' = tplPage + 1  BY <3>3, <3>7
      <3>. QED  BY <1>3, <3>1, <3>5, <3>6, <3>7 DEF TemplatesPageChosen
    <2>. QED  BY <1>3, <2>1 DEF TemplatesPageChosen, LayoutsInv
  <1>4. CASE RenameOpened \/ CreateOpened
    <2>1. PICK l \in Layouts : tplDialog' = {Ask("rename", l)} \/ tplDialog' = {Ask("create", l)}
      BY <1>4 DEF RenameOpened, CreateOpened, FilteredTemplates, LayoutsInv
    <2>2. \A d \in tplDialog' : d \in Dialogs /\ d.kind # "delete"
      <3>1. /\ Ask("rename", l) \in Dialogs /\ Ask("rename", l).kind # "delete"
            /\ Ask("create", l) \in Dialogs /\ Ask("create", l).kind # "delete"
        BY DEF Ask, Dialogs
      <3>. QED  BY <2>1, <3>1
    <2>. QED  BY <1>4, <2>2 DEF RenameOpened, CreateOpened, LayoutsInv
  <1>5. CASE DeleteOpened
    <2>1. tplDialog' \subseteq Dialogs
      BY <1>5 DEF DeleteOpened, FilteredTemplates, LayoutsInv, Ask, Dialogs
    <2>2. cascade' = "template_only"  BY <1>5 DEF DeleteOpened, CascadeOnOpen
    <2>. QED  BY <1>5, <2>1, <2>2 DEF DeleteOpened, LayoutsInv, Cascades
  <1>6. CASE CascadeSelected
    <2>1. PICK d \in tplDialog : tplDialog' = {[d EXCEPT !.chosen = (cascade' = "with_cards")]}
      BY <1>6 DEF CascadeSelected
    <2>2. PICK b \in BOOLEAN : b = (cascade' = "with_cards")  OBVIOUS
    <2>3. d \in Dialogs  BY DEF LayoutsInv
    <2>4. tplDialog' = {[d EXCEPT !.chosen = b]}  BY <2>1, <2>2
    <2>5. [d EXCEPT !.chosen = b] \in Dialogs /\ [d EXCEPT !.chosen = b].chosen = b
      BY <2>3 DEF Dialogs
    <2>6. cascade' = "with_cards" => b = TRUE  BY <2>2
    <2>. QED  BY <1>6, <2>4, <2>5, <2>6 DEF CascadeSelected, LayoutsInv
  <1>7. CASE DialogConfirmed
    <2>1. PICK d \in tplDialog : requests' = requests \cup {[ask |-> d, cascade |-> cascade]}
      BY <1>7 DEF DialogConfirmed
    <2>2. d \in Dialogs /\ (d.kind = "delete" /\ cascade = "with_cards" => d.chosen = TRUE)
      BY DEF LayoutsInv
    <2>. QED  BY <1>7, <2>1, <2>2 DEF DialogConfirmed, LayoutsInv, Requests
  <1>8. CASE Duplicated
    <2>1. PICK l \in Layouts :
            requests' = requests \cup {[ask |-> Ask("create", l), cascade |-> cascade]}
      BY <1>8 DEF Duplicated
    <2>2. Ask("create", l) \in Dialogs /\ Ask("create", l).kind = "create"
      BY DEF Ask, Dialogs
    <2>. QED  BY <1>8, <2>1, <2>2 DEF Duplicated, LayoutsInv, Requests
  <1>9. ASSUME NEW q \in requests, TemplateAnswer(q)  PROVE LayoutsInv'
    <2>1. q.ask.layout \in Layouts  BY DEF LayoutsInv, Requests, Dialogs
    <2>2. layouts' \subseteq Layouts  BY <1>9, <2>1 DEF TemplateAnswer, LayoutsInv
    <2>3. tplDialog' \subseteq tplDialog /\ requests' \subseteq requests
      BY <1>9 DEF TemplateAnswer
    <2>. QED  BY <1>9, <2>2, <2>3 DEF TemplateAnswer, LayoutsInv
  <1>. QED
    BY <1>1, <1>2, <1>3, <1>4, <1>5, <1>6, <1>7, <1>8, <1>9 DEF TemplatesPanelNext

(* The page on screen has a template while there is one to show.           *)
LEMMA LayoutsOnPage == LayoutsInv => PageIsNotEmpty
PROOF
  <1> SUFFICES ASSUME LayoutsInv, FilteredTemplates # {}
               PROVE  /\ SafePage >= 1
                      /\ (SafePage - 1) * TplPageSize < Cardinality(FilteredTemplates)
    BY DEF PageIsNotEmpty
  <1>1. PICK n \in Nat : n = Cardinality(FilteredTemplates)  BY FilteredPages
  <1>2. TotalPages = (n + TplPageSize - 1) \div TplPageSize  BY <1>1, FilteredPages
  <1>3. PICK p \in Nat \ {0} : p = SafePage /\ p <= TotalPages  BY FilteredPages
  <1>4. (p - 1) * TplPageSize < n  BY <1>2, <1>3, PagesUp
  <1>. QED  BY <1>1, <1>3, <1>4

(* The cards of a template are deleted only by choice.                     *)
LEMMA LayoutsByChoice == LayoutsInv => CardsGoByChoice
  BY DEF LayoutsInv, CardsGoByChoice

HIDE TemplatesPanelAssumption

-----------------------------------------------------------------------------
(* The menu of a template's tile                                           *)

USE MenuAssumption

MenuShape ==
  /\ tplTitle \in Titles /\ catTitle \in Titles /\ renameValue \in Titles
  /\ inQuery \in [QueryKeys -> Titles] /\ inAnswer \in [QueryKeys -> Titles \cup {"unread"}]
  /\ renames \subseteq Renames /\ deletions \subseteq Deletions
  /\ deleteCascade \in Deletes
  /\ fromPage \in BOOLEAN /\ unheard \in BOOLEAN /\ chosenNow \in BOOLEAN

(* Without the templates page there is one rename at a time, the menu's.   *)
OneRename ==
  fromPage = FALSE => \A p, q \in renames : p = q /\ p.from = "menu"

(* A query that is not fetched again, and what was read for one that is,   *)
(* has the name of now, unless a rename has run whose answer is to come,   *)
(* came with an error, or left queries as they were.                       *)
NamesRead ==
  /\ \A k \in QueryKeys : inAnswer[k] # "unread" => k \in invalidated
  /\ fromPage = FALSE /\ unheard = FALSE /\ (\A q \in renames : q.state = "sent") =>
       \A k \in QueryKeys :
         /\ k \notin invalidated => inQuery[k] = TitleFor(k)
         /\ inAnswer[k] # "unread" => inAnswer[k] = TitleFor(k)

MenuChoice ==
  /\ deleteCascade = "with_cards" => chosenNow = TRUE
  /\ \A q \in deletions : q.cascade = "with_cards" => q.chosen = TRUE

MenuInv == MenuShape /\ OneRename /\ NamesRead /\ MenuChoice

LEMMA MenuInitially == MenuInit => MenuInv
PROOF
  <1> SUFFICES ASSUME MenuInit  PROVE MenuInv
    OBVIOUS
  <1>1. MenuShape  BY DEF MenuInit, MenuShape, Deletes, QueryKeys
  <1>2. OneRename /\ MenuChoice  BY DEF MenuInit, OneRename, MenuChoice
  <1>3. NamesRead  BY DEF MenuInit, NamesRead, TitleFor
  <1>. QED  BY <1>1, <1>2, <1>3 DEF MenuInv

LEMMA MenuRenameAsked ==
  ASSUME MenuInv, NEW place \in {"menu", "page"}, NEW title \in Titles,
         RenameAsked(place, title)
  PROVE  MenuInv'
PROOF
  <1>1. PICK r \in Renames : /\ r = [from |-> place, title |-> title, state |-> "sent"]
                             /\ r.from = place /\ r.state = "sent"
    <2>1. [from |-> place, title |-> title, state |-> "sent"] \in Renames  BY DEF Renames
    <2>. QED  BY <2>1
  <1>2. renames' = renames \cup {r}  BY <1>1 DEF RenameAsked
  <1>3. PICK b \in BOOLEAN : b = (fromPage \/ place = "page")  OBVIOUS
  <1>4. fromPage' = b /\ (b = FALSE => fromPage = FALSE /\ place = "menu")
    BY <1>3 DEF RenameAsked, MenuInv, MenuShape
  <1>5. UNCHANGED <<tplTitle, catTitle, queries, menuDialogs, deletions, unheard>>
    BY DEF RenameAsked
  <1>6. MenuShape' /\ MenuChoice'
    BY <1>1, <1>2, <1>4, <1>5 DEF MenuInv, MenuShape, MenuChoice, queries, menuDialogs
  <1>7. OneRename'
    <2> SUFFICES ASSUME fromPage' = FALSE  PROVE renames' = {r} /\ r.from = "menu"
      BY DEF OneRename
    <2>1. \A q \in renames : q.from # place  BY DEF RenameAsked
    <2>2. \A q \in renames : q.from = "menu"  BY <1>4 DEF MenuInv, OneRename
    <2>. QED  BY <1>1, <1>2, <1>4, <2>1, <2>2
  <1>8. NamesRead'
    <2>1. \A k \in QueryKeys : TitleFor(k)' = TitleFor(k)  BY <1>5 DEF TitleFor
    <2>2. (\A q \in renames' : q.state = "sent") => \A q \in renames : q.state = "sent"
      BY <1>2
    <2>. QED  BY <1>4, <1>5, <2>1, <2>2 DEF MenuInv, NamesRead, queries
  <1>. QED  BY <1>6, <1>7, <1>8 DEF MenuInv

LEMMA MenuRenameRuns ==
  ASSUME MenuInv, NEW q \in renames, RenameRuns(q) \/ CategorySynced(q)
  PROVE  MenuInv'
PROOF
  <1>1. q \in Renames  BY DEF MenuInv, MenuShape
  <1>2. PICK r \in Renames : /\ renames' = (renames \ {q}) \cup {r}
                             /\ r.from = q.from /\ r.state # "sent"
    <2>1. PICK state \in {"renamed", "synced"} : renames' = Advanced(q, state)
      BY DEF RenameRuns, CategorySynced
    <2>2. /\ [q EXCEPT !.state = state] \in Renames
          /\ [q EXCEPT !.state = state].from = q.from /\ [q EXCEPT !.state = state].state = state
      BY <1>1 DEF Renames
    <2>. QED  BY <2>1, <2>2 DEF Advanced
  <1>3. UNCHANGED <<queries, menuDialogs, deletions, fromPage, unheard>>
        /\ tplTitle' \in Titles /\ catTitle' \in Titles
    BY <1>1 DEF RenameRuns, CategorySynced, MenuInv, MenuShape, Renames
  <1>4. MenuShape' /\ MenuChoice'
    BY <1>2, <1>3 DEF MenuInv, MenuShape, MenuChoice, queries, menuDialogs
  <1>5. OneRename'
    BY <1>2, <1>3 DEF MenuInv, OneRename
  <1>6. NamesRead'
    BY <1>2, <1>3 DEF MenuInv, NamesRead, queries
  <1>. QED  BY <1>4, <1>5, <1>6 DEF MenuInv

LEMMA Invalidated ==
  ASSUME MenuInv, NEW ks \in SUBSET QueryKeys, Invalidate(ks),
         UNCHANGED <<tplTitle, catTitle>>
  PROVE  /\ inQuery' \in [QueryKeys -> Titles]
         /\ inAnswer' \in [QueryKeys -> Titles \cup {"unread"}]
         /\ \A k \in QueryKeys : TitleFor(k)' = TitleFor(k)
         /\ \A k \in ks : k \in invalidated' /\ inAnswer'[k] = "unread"
         /\ \A k \in QueryKeys : inAnswer'[k] # "unread" => k \in invalidated'
         /\ \A k \in QueryKeys \ ks :
              /\ k \in invalidated' <=> k \in invalidated
              /\ inAnswer'[k] = inAnswer[k] /\ inQuery'[k] = inQuery[k]
  BY DEF Invalidate, TitleFor, MenuInv, MenuShape, NamesRead

LEMMA MenuRenameAnswered ==
  ASSUME MenuInv, NEW q \in renames, RenameSucceeds(q) \/ RenameErrs(q)
  PROVE  MenuInv'
PROOF
  <1>1. renames' = renames \ {q}
        /\ UNCHANGED <<tplTitle, catTitle, deleteCascade, chosenNow, renameValue, deletions,
                       fromPage>>
    BY DEF RenameSucceeds, RenameErrs, menuDialogs
  <1>2. OneRename' /\ MenuChoice'  BY <1>1 DEF MenuInv, OneRename, MenuChoice
  <1>3. CASE RenameSucceeds(q)
    <2>1. KeysOfRename(q) \in SUBSET QueryKeys  BY DEF KeysOfRename, QueryKeys
    <2>2. Invalidate(KeysOfRename(q)) /\ unheard' = unheard  BY <1>3 DEF RenameSucceeds
    <2>3. MenuShape'  BY <1>1, <2>1, <2>2, Invalidated DEF MenuInv, MenuShape
    <2>4. fromPage = FALSE => KeysOfRename(q) = QueryKeys
      BY DEF MenuInv, OneRename, KeysOfRename
    <2>5. NamesRead'  BY <1>1, <2>1, <2>2, <2>4, Invalidated DEF NamesRead
    <2>. QED  BY <1>2, <2>3, <2>5 DEF MenuInv
  <1>4. CASE RenameErrs(q)
    <2>1. PICK b \in BOOLEAN : b = (unheard \/ q.state # "sent")  OBVIOUS
    <2>2. unheard' = b /\ UNCHANGED queries  BY <1>4, <2>1 DEF RenameErrs
    <2>3. MenuShape'  BY <1>1, <2>2 DEF MenuInv, MenuShape, queries
    <2>4. ASSUME fromPage = FALSE, b = FALSE
          PROVE  unheard = FALSE /\ \A p \in renames : p.state = "sent"
      <3>1. unheard = FALSE /\ q.state = "sent"  BY <2>1, <2>4 DEF MenuInv, MenuShape
      <3>. QED  BY <2>4, <3>1 DEF MenuInv, OneRename
    <2>5. \A k \in QueryKeys : TitleFor(k)' = TitleFor(k)  BY <1>1 DEF TitleFor
    <2>6. NamesRead'  BY <1>1, <2>2, <2>4, <2>5 DEF MenuInv, NamesRead, queries
    <2>. QED  BY <1>2, <2>3, <2>6 DEF MenuInv
  <1>. QED  BY <1>3, <1>4

LEMMA MenuDialogsKept ==
  ASSUME MenuInv,
         MenuRenameOpened \/ MenuRenameTyped \/ MenuDeleteLeft
           \/ MenuDeleteOpened \/ MenuCascadeSelected \/ UNCHANGED menuVars
  PROVE  MenuInv'
PROOF
  <1>1. UNCHANGED <<tplTitle, catTitle, inQuery, invalidated, inAnswer, renames, deletions,
                    fromPage, unheard>>
    BY DEF MenuRenameOpened, MenuRenameTyped, MenuDeleteLeft, MenuDeleteOpened,
           MenuCascadeSelected, menuVars, queries
  <1>2. OneRename' /\ NamesRead'  BY <1>1 DEF MenuInv, OneRename, NamesRead, TitleFor
  <1>3. inQuery["templates"] \in Titles  BY DEF MenuInv, MenuShape, QueryKeys
  <1>4. renameValue' \in Titles
    BY <1>3 DEF MenuRenameOpened, MenuRenameTyped, MenuDeleteLeft, MenuDeleteOpened,
           MenuCascadeSelected, menuVars, MenuInv, MenuShape
  <1>5. PICK b \in BOOLEAN : b = (deleteCascade' = "with_cards")  OBVIOUS
  <1>6. /\ deleteCascade' \in Deletes /\ chosenNow' \in BOOLEAN
        /\ deleteCascade' = "with_cards" => chosenNow' = TRUE
    <2>1. CASE MenuDeleteOpened
      BY <2>1 DEF MenuDeleteOpened, CascadeReset, Deletes
    <2>2. CASE MenuCascadeSelected
      BY <1>5, <2>2 DEF MenuCascadeSelected
    <2>3. CASE UNCHANGED <<deleteCascade, chosenNow>>
      BY <2>3 DEF MenuInv, MenuShape, MenuChoice
    <2>. QED
      BY <2>1, <2>2, <2>3 DEF MenuRenameOpened, MenuRenameTyped, MenuDeleteLeft, menuVars
  <1>7. MenuShape' /\ MenuChoice'
    BY <1>1, <1>4, <1>6 DEF MenuInv, MenuShape, MenuChoice
  <1>. QED  BY <1>2, <1>7 DEF MenuInv

LEMMA MenuQueriesKept ==
  ASSUME MenuInv, NEW k \in QueryKeys, QueryRead(k) \/ QueryLands(k)
  PROVE  MenuInv'
PROOF
  <1>1. UNCHANGED <<tplTitle, catTitle, menuDialogs, renames, deletions, fromPage, unheard>>
    BY DEF QueryRead, QueryLands
  <1>2. OneRename' /\ MenuChoice'
    BY <1>1 DEF MenuInv, OneRename, MenuChoice, menuDialogs
  <1>3. \A m \in QueryKeys : TitleFor(m)' = TitleFor(m) /\ TitleFor(m) \in Titles
    BY <1>1 DEF TitleFor, MenuInv, MenuShape
  <1>4. CASE QueryRead(k)
    <2>1. /\ inAnswer' \in [QueryKeys -> Titles \cup {"unread"}]
          /\ k \in invalidated /\ inAnswer'[k] = TitleFor(k)
          /\ \A m \in QueryKeys \ {k} : inAnswer'[m] = inAnswer[m]
      BY <1>3, <1>4 DEF QueryRead, MenuInv, MenuShape
    <2>2. UNCHANGED <<inQuery, invalidated>>  BY <1>4 DEF QueryRead
    <2>3. MenuShape'  BY <1>1, <2>1, <2>2 DEF MenuInv, MenuShape, menuDialogs
    <2>4. NamesRead'  BY <1>1, <1>3, <2>1, <2>2 DEF MenuInv, NamesRead
    <2>. QED  BY <1>2, <2>3, <2>4 DEF MenuInv
  <1>5. CASE QueryLands(k)
    <2>1. inAnswer[k] \in Titles /\ inAnswer[k] # "unread" /\ invalidated' = invalidated \ {k}
      BY <1>5 DEF QueryLands, MenuInv, MenuShape
    <2>2. /\ inAnswer' \in [QueryKeys -> Titles \cup {"unread"}]
          /\ inQuery' \in [QueryKeys -> Titles]
          /\ inAnswer'[k] = "unread" /\ inQuery'[k] = inAnswer[k]
          /\ \A m \in QueryKeys \ {k} : inAnswer'[m] = inAnswer[m] /\ inQuery'[m] = inQuery[m]
      BY <1>5, <2>1 DEF QueryLands, MenuInv, MenuShape
    <2>3. MenuShape'  BY <1>1, <2>2 DEF MenuInv, MenuShape, menuDialogs
    <2>4. NamesRead'  BY <1>1, <1>3, <2>1, <2>2 DEF MenuInv, NamesRead
    <2>. QED  BY <1>2, <2>3, <2>4 DEF MenuInv
  <1>. QED  BY <1>4, <1>5

LEMMA MenuDeletionsKept ==
  ASSUME MenuInv, MenuDeleteConfirmed \/ MenuDeleteRuns \/ MenuDeleteAnswered
  PROVE  MenuInv'
PROOF
  <1>1. UNCHANGED <<tplTitle, catTitle, renameValue, deleteCascade, chosenNow, renames, fromPage,
                    unheard>>
    BY DEF MenuDeleteConfirmed, MenuDeleteRuns, MenuDeleteAnswered, menuDialogs
  <1>2. OneRename'  BY <1>1 DEF MenuInv, OneRename
  <1>3. \A q \in deletions' : q \in Deletions /\ (q.cascade = "with_cards" => q.chosen = TRUE)
    <2>1. CASE MenuDeleteConfirmed
      <3>1. PICK b \in BOOLEAN : b = chosenNow  BY DEF MenuInv, MenuShape
      <3>2. deletions' = {[cascade |-> deleteCascade, chosen |-> b, done |-> FALSE]}
        BY <2>1, <3>1 DEF MenuDeleteConfirmed
      <3>3. /\ [cascade |-> deleteCascade, chosen |-> b, done |-> FALSE] \in Deletions
            /\ deleteCascade = "with_cards" => b = TRUE
        BY <3>1 DEF MenuInv, MenuShape, MenuChoice, Deletions
      <3>4. ASSUME NEW q \in deletions'
            PROVE  q = [cascade |-> deleteCascade, chosen |-> b, done |-> FALSE]
        BY <3>2
      <3>5. [cascade |-> deleteCascade, chosen |-> b, done |-> FALSE].cascade = deleteCascade
            /\ [cascade |-> deleteCascade, chosen |-> b, done |-> FALSE].chosen = b
        OBVIOUS
      <3>. QED  BY <3>3, <3>4, <3>5
    <2>2. CASE MenuDeleteRuns
      <3>1. \A d \in deletions : d \in Deletions /\ (d.cascade = "with_cards" => d.chosen = TRUE)
        BY DEF MenuInv, MenuShape, MenuChoice
      <3>. QED  BY <2>2, <3>1 DEF MenuDeleteRuns, Deletions
    <2>3. CASE MenuDeleteAnswered  BY <2>3 DEF MenuDeleteAnswered
    <2>. QED  BY <2>1, <2>2, <2>3
  <1>4. MenuChoice'  BY <1>1, <1>3 DEF MenuInv, MenuChoice
  <1>5. CASE UNCHANGED <<inQuery, invalidated, inAnswer>>
    BY <1>1, <1>2, <1>3, <1>4, <1>5 DEF MenuInv, MenuShape, NamesRead, TitleFor
  <1>6. CASE Invalidate({"templates", "cards"})
    <2>1. {"templates", "cards"} \in SUBSET QueryKeys  BY DEF QueryKeys
    <2>2. MenuShape'  BY <1>1, <1>3, <1>6, <2>1, Invalidated DEF MenuInv, MenuShape
    <2>3. NamesRead'  BY <1>1, <1>6, <2>1, Invalidated DEF MenuInv, NamesRead
    <2>. QED  BY <1>2, <1>4, <2>2, <2>3 DEF MenuInv
  <1>. QED
    BY <1>5, <1>6 DEF MenuDeleteConfirmed, MenuDeleteRuns, MenuDeleteAnswered, queries

LEMMA MenuKept == MenuInv /\ [MenuNext]_menuVars => MenuInv'
PROOF
  <1> SUFFICES ASSUME MenuInv, [MenuNext]_menuVars  PROVE MenuInv'
    OBVIOUS
  <1>1. CASE MenuRenameSaved
    BY <1>1, MenuRenameAsked DEF MenuRenameSaved, MenuInv, MenuShape
  <1>2. CASE PageRenameSaved  BY <1>2, MenuRenameAsked DEF PageRenameSaved
  <1>3. ASSUME NEW q \in renames,
               RenameRuns(q) \/ CategorySynced(q) \/ RenameSucceeds(q) \/ RenameErrs(q)
        PROVE  MenuInv'
    BY <1>3, MenuRenameRuns, MenuRenameAnswered
  <1>. QED
    BY <1>1, <1>2, <1>3, MenuDialogsKept, MenuQueriesKept, MenuDeletionsKept DEF MenuNext

(* While renames come from the menu, the queries show the names there are. *)
LEMMA MenuShows == MenuInv => MenuNamesShown
PROOF
  <1> SUFFICES ASSUME MenuInv, ~fromPage, renames = {}, ~unheard
               PROVE  \A k \in QueryKeys \ invalidated : inQuery[k] = TitleFor(k)
    BY DEF MenuNamesShown, NamesShown
  <1>1. fromPage = FALSE /\ unheard = FALSE  BY DEF MenuInv, MenuShape
  <1>. QED  BY <1>1 DEF MenuInv, NamesRead

(* The menu deletes cards by choice.                                       *)
LEMMA MenuByChoice == MenuInv => MenuCardsGoByChoice
  BY DEF MenuInv, MenuChoice, MenuCardsGoByChoice

HIDE MenuAssumption

-----------------------------------------------------------------------------
(* The contacts of the regions                                             *)

USE RegionAssumption

(* What is loaded, typed, read or sent for a region is of that region.     *)
OfItsOwn(rows) == \A r \in Regions : rows[r].contacts \in {"none", r}

RegionInv ==
  /\ selected \in Regions /\ contacts \in {"none", selected}
  /\ DOMAIN regionRows = Regions /\ regionRows = [r \in Regions |-> regionRows[r]]
  /\ OfItsOwn(regionRows)
  /\ \A rows \in loadedRows \cup rowsRead : OfItsOwn(rows)
  /\ \A c \in upserting :
       c = [region |-> c.region, contacts |-> c.contacts, done |-> c.done]
       /\ c.region \in Regions /\ c.contacts \in {"none", c.region}
  /\ \A c \in removing :
       c = [region |-> c.region, contacts |-> c.contacts, done |-> c.done]

LEMMA ContactsOfRegion ==
  ASSUME NEW S, \A rows \in S : OfItsOwn(rows), NEW r \in Regions
  PROVE  ContactsOf(S, r) \in {"none", r}
PROOF
  <1>1. \A row \in CurrentRow(S, r) : \E rows \in S : row = rows[r]
    BY DEF CurrentRow
  <1>2. CASE CurrentRow(S, r) = {}  BY <1>2 DEF ContactsOf
  <1>3. CASE CurrentRow(S, r) # {}
    <2>1. PICK row \in CurrentRow(S, r) : row = CHOOSE q \in CurrentRow(S, r) : TRUE
      BY <1>3
    <2>2. row.contacts \in {"none", r}  BY <1>1 DEF OfItsOwn
    <2>. QED  BY <2>1, <2>2, <1>3 DEF ContactsOf
  <1>. QED  BY <1>2, <1>3

LEMMA EffectOfRegion ==
  ASSUME RegionInv, NEW S, \A rows \in S : OfItsOwn(rows), NEW r \in Regions,
         EffectOnRegion(S, r)
  PROVE  contacts' \in {"none", r}
  BY ContactsOfRegion DEF RegionInv, EffectOnRegion

LEMMA RegionInitially == RegionInit => RegionInv
  BY DEF RegionInit, RegionInv, OfItsOwn, NoRow

LEMMA DoneKeeps ==
  ASSUME NEW S, \A c \in S : c = [region |-> c.region, contacts |-> c.contacts, done |-> c.done]
  PROVE  \A d \in Done(S) :
           /\ d = [region |-> d.region, contacts |-> d.contacts, done |-> d.done]
           /\ \E c \in S : d.region = c.region /\ d.contacts = c.contacts
PROOF
  <1> SUFFICES ASSUME NEW d \in Done(S)
               PROVE  /\ d = [region |-> d.region, contacts |-> d.contacts, done |-> d.done]
                      /\ \E c \in S : d.region = c.region /\ d.contacts = c.contacts
    OBVIOUS
  <1>1. PICK c \in S : d = [c EXCEPT !.done = TRUE]  BY DEF Done
  <1>2. c = [region |-> c.region, contacts |-> c.contacts, done |-> c.done]  OBVIOUS
  <1>3. d = [region |-> c.region, contacts |-> c.contacts, done |-> TRUE]
    BY <1>1, <1>2
  <1>. QED  BY <1>3

LEMMA RegionKept == RegionInv /\ [RegionNext]_regionVars => RegionInv'
PROOF
  <1> SUFFICES ASSUME RegionInv, [RegionNext]_regionVars  PROVE RegionInv'
    OBVIOUS
  <1>1. CASE RowsReadByServer
    BY <1>1 DEF RowsReadByServer, RegionInv, OfItsOwn
  <1>2. CASE RowsLand
    <2>1. contacts' \in {"none", selected}
      BY <1>2, EffectOfRegion DEF RowsLand, RegionInv
    <2>. QED  BY <1>2, <2>1 DEF RowsLand, RegionInv, OfItsOwn
  <1>3. CASE RowsFail \/ RegionRemoveClicked \/ UNCHANGED regionVars
    BY <1>3 DEF RowsFail, RegionRemoveClicked, regionVars, RegionInv, OfItsOwn
  <1>4. CASE RegionChosen
    <2>1. selected' \in Regions /\ contacts' \in {"none", selected'}
      BY <1>4, EffectOfRegion DEF RegionChosen, RegionInv
    <2>. QED  BY <1>4, <2>1 DEF RegionChosen, RegionInv, OfItsOwn
  <1>5. CASE ContactsEdited  BY <1>5 DEF ContactsEdited, RegionInv, OfItsOwn
  <1>6. CASE UpsertClicked  BY <1>6 DEF UpsertClicked, RegionInv, OfItsOwn
  <1>7. CASE UpsertRuns
    <2>1. PICK c \in upserting :
            regionRows' = [regionRows EXCEPT
                             ![c.region] = [contacts |-> c.contacts, version |-> upserts + 2]]
      BY <1>7 DEF UpsertRuns
    <2>2. c.region \in Regions /\ c.contacts \in {"none", c.region}  BY DEF RegionInv
    <2>3. /\ regionRows' = [r \in Regions |-> regionRows'[r]] /\ DOMAIN regionRows' = Regions
          /\ regionRows'[c.region].contacts = c.contacts
          /\ \A r \in Regions \ {c.region} : regionRows'[r] = regionRows[r]
      BY <2>1, <2>2 DEF RegionInv
    <2>4. OfItsOwn(regionRows')  BY <2>2, <2>3 DEF OfItsOwn, RegionInv
    <2>5. upserting' = Done(upserting)
          /\ UNCHANGED <<loadedRows, rowsRead, selected, contacts, removing>>
      BY <1>7 DEF UpsertRuns
    <2>6. \A d \in upserting' :
            /\ d = [region |-> d.region, contacts |-> d.contacts, done |-> d.done]
            /\ d.region \in Regions /\ d.contacts \in {"none", d.region}
      BY <2>5, DoneKeeps DEF RegionInv
    <2>. QED  BY <2>3, <2>4, <2>5, <2>6 DEF RegionInv, OfItsOwn
  <1>8. CASE RemoveRuns
    <2>1. PICK c \in removing : regionRows' = [regionRows EXCEPT ![c.region] = NoRow]
      BY <1>8 DEF RemoveRuns
    <2>2. /\ regionRows' = [r \in Regions |-> regionRows'[r]] /\ DOMAIN regionRows' = Regions
          /\ \A r \in Regions : regionRows'[r] \in {regionRows[r], NoRow}
      BY <2>1 DEF RegionInv
    <2>3. OfItsOwn(regionRows')  BY <2>2 DEF OfItsOwn, RegionInv, NoRow
    <2>4. removing' = Done(removing)
          /\ UNCHANGED <<loadedRows, rowsRead, selected, contacts, upserting>>
      BY <1>8 DEF RemoveRuns
    <2>5. \A d \in removing' :
            d = [region |-> d.region, contacts |-> d.contacts, done |-> d.done]
      BY <2>4, DoneKeeps DEF RegionInv
    <2>. QED  BY <2>2, <2>3, <2>4, <2>5 DEF RegionInv, OfItsOwn
  <1>9. CASE UpsertAnswered
    BY <1>9 DEF UpsertAnswered, RowsInvalidated, RegionInv, OfItsOwn
  <1>10. CASE RemoveAnswered
    <2>1. selected' \in Regions /\ contacts' \in {"none", selected'}
      BY <1>10, EffectOfRegion DEF RemoveAnswered, RegionInv
    <2>. QED  BY <1>10, <2>1 DEF RemoveAnswered, RowsInvalidated, RegionInv, OfItsOwn
  <1>. QED
    BY <1>1, <1>2, <1>3, <1>4, <1>5, <1>6, <1>7, <1>8, <1>9, <1>10 DEF RegionNext

(* Contacts are shown and stored for their own region.                     *)
LEMMA RegionsHome == RegionInv => ContactsStayHome
  BY DEF RegionInv, OfItsOwn, ContactsStayHome

HIDE RegionAssumption

-----------------------------------------------------------------------------
(* The login page                                                          *)

USE LoginAssumption

LoginShape ==
  /\ \A q \in attempts :
       q = [step |-> q.step, person |-> q.person, keep |-> q.keep, orphan |-> q.orphan]
       /\ q.orphan \in BOOLEAN
  /\ isLoading \in BOOLEAN /\ orphaned \in BOOLEAN /\ remember \in BOOLEAN

(* Until the page is left in the middle of a request there is one request  *)
(* at most, that of the last account asked for, and nobody is signed in    *)
(* while the page is open.                                                 *)
OneAttempt ==
  /\ loginAt = "admin" \/ person = NoPerson
  /\ orphaned = FALSE =>
       /\ \A q \in attempts : q.person = askedFor /\ q.orphan = FALSE /\ isLoading = TRUE
       /\ \A p, q \in attempts : p = q
       /\ person \in {NoPerson, askedFor}
       /\ loginStep # "credentials" => challengeOf = askedFor

LoginInv == LoginShape /\ OneAttempt

LEMMA LoginInitially == LoginInit => LoginInv
  BY DEF LoginInit, LoginInv, LoginShape, OneAttempt

LEMMA OrphansAre ==
  ASSUME NEW S, \A q \in S : q = [step |-> q.step, person |-> q.person, keep |-> q.keep,
                                  orphan |-> q.orphan]
  PROVE  \A p \in Orphans(S) :
           /\ p = [step |-> p.step, person |-> p.person, keep |-> p.keep, orphan |-> p.orphan]
           /\ p.orphan = TRUE
           /\ \E q \in S : p.person = q.person /\ p.keep = q.keep /\ p.step = q.step
PROOF
  <1> SUFFICES ASSUME NEW p \in Orphans(S)
               PROVE  /\ p = [step |-> p.step, person |-> p.person, keep |-> p.keep,
                              orphan |-> p.orphan]
                      /\ p.orphan = TRUE
                      /\ \E q \in S : p.person = q.person /\ p.keep = q.keep /\ p.step = q.step
    OBVIOUS
  <1>1. PICK q \in S : p = [q EXCEPT !.orphan = TRUE]  BY DEF Orphans
  <1>2. q = [step |-> q.step, person |-> q.person, keep |-> q.keep, orphan |-> q.orphan]
    OBVIOUS
  <1>3. p = [step |-> q.step, person |-> q.person, keep |-> q.keep, orphan |-> TRUE]
    BY <1>1, <1>2
  <1>. QED  BY <1>3

LEMMA LoginSends ==
  ASSUME LoginInv, NEW p, Sending(p), UNCHANGED orphaned, UNCHANGED remember
  PROVE  /\ LoginShape' /\ loginAt = "login"
         /\ orphaned = FALSE =>
              \A q \in attempts' : q.person = p /\ q.orphan = FALSE /\ isLoading' = TRUE
         /\ orphaned = FALSE => \A q, r \in attempts' : q = r
PROOF
  <1>1. PICK b \in BOOLEAN : b = remember  BY DEF LoginInv, LoginShape
  <1>2. PICK x : x = [step |-> loginStep, person |-> p, keep |-> b, orphan |-> FALSE]
    OBVIOUS
  <1>3. /\ x = [step |-> x.step, person |-> x.person, keep |-> x.keep, orphan |-> x.orphan]
        /\ x.person = p /\ x.orphan = FALSE
    BY <1>2
  <1>4. attempts' = attempts \cup {x} /\ isLoading' = TRUE /\ loginAt = "login" /\ ~isLoading
    BY <1>1, <1>2 DEF Sending, MaySubmitLogin
  <1>5. LoginShape'  BY <1>3, <1>4 DEF LoginInv, LoginShape
  <1>6. orphaned = FALSE => attempts = {}  BY <1>4 DEF LoginInv, OneAttempt
  <1>. QED  BY <1>3, <1>4, <1>5, <1>6

LEMMA LoginKept == LoginInv /\ [LoginNext]_loginVars => LoginInv'
PROOF
  <1> SUFFICES ASSUME LoginInv, [LoginNext]_loginVars  PROVE LoginInv'
    OBVIOUS
  <1>1. CASE CredentialsSent
    <2>1. PICK p \in Persons : Sending(p) /\ askedFor' = p  BY <1>1 DEF CredentialsSent
    <2>2. UNCHANGED <<loginAt, loginStep, challengeOf, remember, person, orphaned>>
          /\ loginStep = "credentials"
      BY <1>1 DEF CredentialsSent
    <2>. QED  BY <2>1, <2>2, LoginSends DEF LoginInv, OneAttempt
  <1>2. CASE CodeSent
    <2>1. Sending(challengeOf) /\ loginStep # "credentials"
          /\ UNCHANGED <<loginAt, loginStep, challengeOf, remember, person, askedFor, orphaned>>
      BY <1>2 DEF CodeSent
    <2>. QED  BY <2>1, LoginSends DEF LoginInv, OneAttempt
  <1>3. CASE RememberToggled
    <2>1. PICK b \in BOOLEAN : b = (~remember)  OBVIOUS
    <2>2. remember' = b
          /\ UNCHANGED <<loginAt, loginStep, challengeOf, isLoading, attempts, person, askedFor,
                         orphaned>>
      BY <1>3, <2>1 DEF RememberToggled
    <2>. QED  BY <2>2 DEF LoginInv, LoginShape, OneAttempt
  <1>4. CASE StepChanged \/ PageReopened \/ UNCHANGED loginVars
    BY <1>4 DEF StepChanged, PageReopened, loginVars, LoginInv, LoginShape, OneAttempt
  <1>5. CASE PageLeft
    <2>1. PICK b \in BOOLEAN : b = (orphaned \/ attempts # {})  OBVIOUS
    <2>2. attempts' = Orphans(attempts) /\ orphaned' = b /\ Mounted /\ loginAt = "login"
          /\ UNCHANGED <<person, askedFor>>
      BY <1>5, <2>1 DEF PageLeft
    <2>3. b = FALSE => orphaned = FALSE /\ attempts = {}
      BY <2>1 DEF LoginInv, LoginShape
    <2>4. attempts = {} => attempts' = {}  BY <2>2 DEF Orphans
    <2>5. LoginShape'
      BY <2>2, OrphansAre DEF LoginInv, LoginShape, Mounted
    <2>. QED  BY <2>2, <2>3, <2>4, <2>5 DEF LoginInv, OneAttempt, Mounted
  <1>6. ASSUME NEW q \in attempts, Refused(q) \/ ChallengeReceived(q)  PROVE LoginInv'
    <2>1. attempts' = attempts \ {q} /\ isLoading' \in {isLoading, FALSE}
          /\ UNCHANGED <<loginAt, remember, person, askedFor, orphaned>>
      BY <1>6 DEF Refused, ChallengeReceived, Finally
    <2>2. LoginShape'  BY <2>1 DEF LoginInv, LoginShape
    <2>3. orphaned = FALSE => attempts' = {}  BY <2>1 DEF LoginInv, OneAttempt
    <2>4. orphaned = FALSE => (loginStep' # "credentials" => challengeOf' = askedFor)
      BY <1>6 DEF Refused, ChallengeReceived, LoginInv, OneAttempt
    <2>. QED  BY <2>1, <2>2, <2>3, <2>4 DEF LoginInv, OneAttempt
  <1>7. ASSUME NEW q \in attempts, TokensReceived(q)  PROVE LoginInv'
    <2>1. attempts' = Orphans(attempts \ {q}) /\ person' = q.person /\ loginAt' = "admin"
          /\ Mounted /\ UNCHANGED <<askedFor, orphaned>>
      BY <1>7 DEF TokensReceived
    <2>2. LoginShape'  BY <2>1, OrphansAre DEF LoginInv, LoginShape, Mounted
    <2>3. orphaned = FALSE => attempts \ {q} = {} /\ q.person = askedFor
      BY DEF LoginInv, OneAttempt
    <2>4. orphaned = FALSE => attempts' = {}  BY <2>1, <2>3 DEF Orphans
    <2>. QED  BY <2>1, <2>2, <2>3, <2>4 DEF LoginInv, OneAttempt, Mounted
  <1>. QED  BY <1>1, <1>2, <1>3, <1>4, <1>5, <1>6, <1>7 DEF LoginNext

(* Where the session is kept changes only with tokens, to what was chosen  *)
(* for the attempt that got them.                                          *)
LEMMA StorageKept == LoginInv /\ [LoginNext]_loginVars => FailureKeepsStorage
PROOF
  <1> SUFFICES ASSUME LoginInv, LoginNext, keptIn' # keptIn
               PROVE  \E q \in attempts : q \notin attempts' /\ person' = q.person
                        /\ keptIn' = q.keep /\ loginAt' = "admin"
    BY DEF FailureKeepsStorage, loginVars
  <1>1. PICK q \in attempts : TokensReceived(q)
    BY DEF LoginNext, CredentialsSent, CodeSent, Sending, KeptUntilAnswer, RememberToggled,
           StepChanged, PageLeft, PageReopened, Refused, ChallengeReceived
  <1>2. attempts' = Orphans(attempts \ {q}) /\ person' = q.person /\ keptIn' = q.keep
        /\ loginAt' = "admin"
    BY <1>1 DEF TokensReceived
  <1>3. CASE q \notin attempts'  BY <1>2, <1>3
  <1>4. CASE q \in attempts'
    <2>1. PICK r \in attempts \ {q} : q = [r EXCEPT !.orphan = TRUE]
      BY <1>2, <1>4 DEF Orphans
    <2>2. r = [step |-> r.step, person |-> r.person, keep |-> r.keep, orphan |-> r.orphan]
      BY DEF LoginInv, LoginShape
    <2>3. q = [step |-> r.step, person |-> r.person, keep |-> r.keep, orphan |-> TRUE]
      BY <2>1, <2>2
    <2>4. r.person = q.person /\ r.keep = q.keep  BY <2>3
    <2>5. r.orphan # TRUE  BY <2>2, <2>3
    <2>6. \A p \in attempts' : p.orphan = TRUE
      BY <1>2, OrphansAre DEF LoginInv, LoginShape
    <2>. QED  BY <1>2, <2>4, <2>5, <2>6
  <1>. QED  BY <1>3, <1>4

(* Who is signed in is who asked to be.                                    *)
LEMMA LoginAsAsked == LoginInv => SignedInAsAsked
  BY DEF LoginInv, LoginShape, OneAttempt, SignedInAsAsked

HIDE LoginAssumption

-----------------------------------------------------------------------------
(* The address of a new card                                               *)

USE SlugAssumption

(* Checks that are not dropped are of the slug of 350 ms ago; without one, *)
(* an open dialog that is told "free" was told so of that slug.            *)
SlugInv ==
  /\ slugOpen \in BOOLEAN
  /\ \A c \in checks : c.dropped \in BOOLEAN /\ (c.dropped = FALSE => c.slug = debounced)
  /\ slugOpen = TRUE /\ available = "true" /\ (\A c \in checks : c.dropped = TRUE) =>
       answered = debounced /\ debounced \in Free

LEMMA SlugInitially == SlugInit => SlugInv
  BY DEF SlugInit, SlugInv

LEMMA EffectChecks ==
  ASSUME SlugInv, NEW open \in BOOLEAN, NEW v, Effect(open, v), UNCHANGED answered
  PROVE  SlugInv'
PROOF
  <1>1. \A c \in Superseded : c.dropped = TRUE  BY DEF Superseded
  <1>2. slugOpen' = open /\ debounced' = v  BY DEF Effect
  <1>3. CASE available' # "true" /\ checks' = Superseded
    BY <1>1, <1>2, <1>3 DEF SlugInv
  <1>4. CASE checks' = Superseded \cup {[slug |-> v, dropped |-> FALSE]}
    <2>1. /\ [slug |-> v, dropped |-> FALSE] \in checks'
          /\ [slug |-> v, dropped |-> FALSE].dropped = FALSE
          /\ [slug |-> v, dropped |-> FALSE].slug = v
      BY <1>4
    <2>. QED  BY <1>1, <1>2, <1>4, <2>1 DEF SlugInv
  <1>. QED  BY <1>3, <1>4 DEF Effect

LEMMA SlugKept == SlugInv /\ [SlugNext]_slugVars => SlugInv'
PROOF
  <1> SUFFICES ASSUME SlugInv, [SlugNext]_slugVars  PROVE SlugInv'
    OBVIOUS
  <1>1. CASE OpenSlugDialog \/ CloseSlugDialog
    BY <1>1, EffectChecks DEF OpenSlugDialog, CloseSlugDialog
  <1>2. CASE DebounceEnds
    BY <1>2, EffectChecks DEF DebounceEnds, SlugInv
  <1>3. CASE Type \/ UNCHANGED slugVars  BY <1>3 DEF Type, slugVars, SlugInv
  <1>4. ASSUME NEW c \in checks, CheckAnswered(c)  PROVE SlugInv'
    <2>1. checks' = checks \ {c} /\ UNCHANGED <<slugOpen, debounced>>
      BY <1>4 DEF CheckAnswered
    <2>2. CASE c.dropped = TRUE
      BY <1>4, <2>1, <2>2 DEF CheckAnswered, SlugInv
    <2>3. CASE c.dropped = FALSE
      <3>1. answered' = c.slug /\ available' \in {IF c.slug \in Free THEN "true" ELSE "false", "null"}
        BY <1>4, <2>3 DEF CheckAnswered
      <3>2. c.slug = debounced  BY <2>3 DEF SlugInv
      <3>. QED  BY <2>1, <3>1, <3>2 DEF SlugInv
    <2>. QED  BY <2>2, <2>3 DEF SlugInv
  <1>. QED  BY <1>1, <1>2, <1>3, <1>4 DEF SlugNext

(* The button is there only for a slug answered to be free.                *)
LEMMA SlugButton == SlugInv => ButtonMeansFree
  BY DEF SlugInv, ButtonMeansFree, CanSubmit

HIDE SlugAssumption

-----------------------------------------------------------------------------
(* The dialog of an import                                                 *)

USE WizardAssumption

WizardShape ==
  /\ {deaf, mixed} \subseteq BOOLEAN /\ wizStep \in {"upload", "processing", "done", "error"}
  /\ jobs = [j \in Jobs |-> jobs[j]] /\ had = [j \in Jobs |-> had[j]] /\ uploads \subseteq Jobs
  /\ \A j \in Jobs : jobs[j] \in Status
  /\ \A j \in {wizJob, timer} : j \in Jobs \cup {NoJob}
  /\ wizStep # "upload" => wizJob \in Jobs
  /\ \A p \in polls : p = [job |-> p.job, read |-> p.read] /\ p.job \in Jobs
                     /\ p.read \in Status \ {"pending"}

(* A job that is shown, asked for or answered exists, one that is yet to   *)
(* be created does not; an end that was read is one the job has had, and   *)
(* SUCCEEDED is left for FAILED only.                                      *)
JobsAreReal ==
  /\ \A j \in uploads : jobs[j] = "none"
  /\ \A j \in {wizJob, timer} : j # NoJob => jobs[j] # "none"
  /\ \A p \in polls : jobs[p.job] # "none" /\ (p.read \in Ended => p.read \in had[p.job])
  /\ \A j \in Jobs : jobs[j] # "none" => jobs[j] \in had[j]
  /\ \A j \in Jobs : "succeeded" \in had[j] => jobs[j] \in {"succeeded", "failed"}

WizardInv == WizardShape /\ JobsAreReal /\ ProgressIsWatched /\ OutcomeIsReal

LEMMA WizardInitially == WizardInit => WizardInv
  BY DEF WizardInit, WizardInv, WizardShape, JobsAreReal, ProgressIsWatched, OutcomeIsReal, Status

(* Steps that leave the jobs, and the wizard at its start.                 *)
LEMMA WizardReset ==
  ASSUME WizardInv, Reset, UNCHANGED jobTable, uploads' \subseteq uploads, polls' \subseteq polls
  PROVE  WizardInv'
PROOF
  <1>1. /\ wizStep' = "upload" /\ wizJob' = NoJob /\ timer' \in {timer, NoJob}
        /\ deaf' = FALSE /\ mixed' = FALSE /\ UNCHANGED <<jobs, had>>
    BY DEF Reset, Show, Watch, jobTable
  <1>2. WizardShape'  BY <1>1 DEF WizardInv, WizardShape
  <1>3. JobsAreReal'  BY <1>1 DEF WizardInv, WizardShape, JobsAreReal
  <1>. QED  BY <1>1, <1>2, <1>3 DEF WizardInv, ProgressIsWatched, OutcomeIsReal

(* What a new status of a job does to the jobs.                            *)
LEMMA Becoming ==
  ASSUME WizardInv, NEW j \in Jobs, NEW s \in Status \ {"none"}, Becomes(j, s)
  PROVE  /\ jobs' = [k \in Jobs |-> jobs'[k]] /\ had' = [k \in Jobs |-> had'[k]]
         /\ jobs'[j] = s /\ had'[j] = had[j] \cup {s}
         /\ \A k \in Jobs \ {j} : jobs'[k] = jobs[k] /\ had'[k] = had[k]
PROOF
  <1>1. jobs = [k \in Jobs |-> jobs[k]] /\ had = [k \in Jobs |-> had[k]]
    BY DEF WizardInv, WizardShape
  <1>. QED  BY <1>1 DEF Becomes

(* Steps in which a job changes its status, or comes to be, unseen.        *)
LEMMA JobsAdvance ==
  ASSUME WizardInv, NEW j \in Jobs, NEW s \in Status \ {"none"}, Becomes(j, s),
         jobs[j] = "failed" => s = "failed", jobs[j] = "succeeded" => s = "failed",
         s = "succeeded" => jobs[j] # "none",
         uploads' \subseteq uploads, j \notin uploads',
         UNCHANGED <<wizStep, wizJob, timer, polls, deaf, mixed>>
  PROVE  WizardInv'
PROOF
  <1>1. /\ jobs' = [k \in Jobs |-> jobs'[k]] /\ had' = [k \in Jobs |-> had'[k]]
        /\ jobs'[j] = s /\ had'[j] = had[j] \cup {s}
        /\ \A k \in Jobs \ {j} : jobs'[k] = jobs[k] /\ had'[k] = had[k]
    BY Becoming
  <1>2. WizardShape'  BY <1>1 DEF WizardInv, WizardShape
  <1>3. \A k \in Jobs : jobs[k] # "none" => jobs'[k] # "none"  BY <1>1
  <1>4. \A k \in Jobs : had[k] \subseteq had'[k]  BY <1>1
  <1>5. \A k \in Jobs : jobs'[k] # "none" => jobs'[k] \in had'[k]
    BY <1>1 DEF WizardInv, JobsAreReal
  <1>6. \A k \in Jobs : "succeeded" \in had'[k] => jobs'[k] \in {"succeeded", "failed"}
    BY <1>1 DEF WizardInv, JobsAreReal
  <1>7. \A k \in uploads' : jobs'[k] = "none"
    BY <1>1 DEF WizardInv, WizardShape, JobsAreReal
  <1>8. JobsAreReal'
    BY <1>3, <1>4, <1>5, <1>6, <1>7 DEF WizardInv, WizardShape, JobsAreReal
  <1>9. ProgressIsWatched'  BY DEF WizardInv, ProgressIsWatched
  <1>10. OutcomeIsReal'
    BY <1>4, <1>6 DEF WizardInv, WizardShape, OutcomeIsReal
  <1>. QED  BY <1>2, <1>8, <1>9, <1>10 DEF WizardInv

LEMMA WizardUploads ==
  ASSUME WizardInv, NEW j \in Jobs, UploadAnswered(j)
  PROVE  WizardInv'
PROOF
  <1>1. j \in uploads /\ uploads' = uploads \ {j} /\ jobs[j] = "none" /\ polls' = polls
    BY DEF UploadAnswered, WizardInv, JobsAreReal
  <1>a. "pending" \in Status \ {"none"}  BY DEF Status
  <1>2. CASE /\ Becomes(j, "pending") \/ UNCHANGED jobTable
             /\ UNCHANGED <<wizStep, wizJob, timer, excuses>>
    <2>1. CASE Becomes(j, "pending")
      BY <1>1, <1>a, <1>2, <2>1, JobsAdvance DEF excuses
    <2>2. CASE UNCHANGED jobTable
      BY <1>1, <1>2, <2>2 DEF excuses, jobTable, WizardInv, WizardShape, JobsAreReal,
         ProgressIsWatched, OutcomeIsReal
    <2>. QED  BY <1>2, <2>1, <2>2
  <1>3. CASE Becomes(j, "pending") /\ Show("processing", j)
    <2>1. /\ jobs' = [k \in Jobs |-> jobs'[k]] /\ had' = [k \in Jobs |-> had'[k]]
          /\ jobs'[j] = "pending" /\ had'[j] = had[j] \cup {"pending"}
          /\ \A k \in Jobs \ {j} : jobs'[k] = jobs[k] /\ had'[k] = had[k]
      BY <1>a, <1>3, Becoming
    <2>2. wizJob # j  BY <1>1 DEF WizardInv, JobsAreReal, WizardShape
    <2>3. /\ wizStep' = "processing" /\ wizJob' = j /\ timer' = j
          /\ deaf' = FALSE /\ mixed' = FALSE
      BY <1>3, <2>2 DEF Show, Watch
    <2>4. WizardShape'  BY <1>1, <1>a, <2>1, <2>3 DEF WizardInv, WizardShape
    <2>5. \A k \in Jobs : had[k] \subseteq had'[k] /\ (jobs[k] # "none" => jobs'[k] # "none")
      BY <2>1
    <2>6. \A k \in Jobs : /\ jobs'[k] # "none" => jobs'[k] \in had'[k]
                          /\ "succeeded" \in had'[k] => jobs'[k] \in {"succeeded", "failed"}
      BY <1>1, <2>1 DEF WizardInv, JobsAreReal
    <2>7. \A k \in uploads' : jobs'[k] = "none"
      BY <1>1, <2>1 DEF WizardInv, WizardShape, JobsAreReal
    <2>8. JobsAreReal'
      BY <1>1, <2>1, <2>3, <2>5, <2>6, <2>7 DEF WizardInv, WizardShape, JobsAreReal
    <2>. QED  BY <2>3, <2>4, <2>8 DEF WizardInv, ProgressIsWatched, OutcomeIsReal
  <1>. QED  BY <1>2, <1>3 DEF UploadAnswered

LEMMA WizardPolls ==
  ASSUME WizardInv, NEW p \in polls, PollRead(p) \/ PollAnswered(p) \/ PollFailed(p)
  PROVE  WizardInv'
PROOF
  <1>0. p = [job |-> p.job, read |-> p.read] /\ p.job \in Jobs
        /\ p.read \in Status \ {"pending"}
        /\ jobs[p.job] # "none" /\ (p.read \in Ended => p.read \in had[p.job])
    BY DEF WizardInv, WizardShape, JobsAreReal
  <1>1. CASE PollRead(p)
    <2>1. PICK r : r = [job |-> p.job, read |-> Told(jobs[p.job])]  OBVIOUS
    <2>2. r = [job |-> r.job, read |-> r.read] /\ r.job = p.job /\ r.read = Told(jobs[p.job])
      BY <2>1
    <2>3. polls' = (polls \ {p}) \cup {r}
      BY <1>0, <1>1, <2>1 DEF PollRead
    <2>4. UNCHANGED <<wizStep, wizJob, timer, uploads, jobs, had, deaf, mixed>>
      BY <1>1 DEF PollRead, jobTable, excuses
    <2>5. r.read \in Status \ {"pending"} /\ (r.read \in Ended => r.read \in had[r.job])
      BY <1>0, <2>2 DEF Told, Ended, Status, WizardInv, WizardShape, JobsAreReal
    <2>6. WizardShape'  BY <1>0, <2>2, <2>3, <2>4, <2>5 DEF WizardInv, WizardShape
    <2>7. JobsAreReal'  BY <1>0, <2>2, <2>3, <2>4, <2>5 DEF WizardInv, JobsAreReal
    <2>. QED  BY <2>4, <2>6, <2>7 DEF WizardInv, ProgressIsWatched, OutcomeIsReal
  <1>2. CASE PollFailed(p)
    <2>1. PICK b \in BOOLEAN : b = (deaf \/ timer # NoJob)  OBVIOUS
    <2>2. deaf' = b /\ timer' = NoJob /\ polls' \subseteq polls
          /\ UNCHANGED <<wizStep, wizJob, uploads, jobs, had, mixed>>
      BY <1>2, <2>1 DEF PollFailed, jobTable
    <2>3. b = FALSE => timer = NoJob /\ ~deaf  BY <2>1
    <2>. QED
      BY <2>2, <2>3 DEF WizardInv, WizardShape, JobsAreReal, ProgressIsWatched, OutcomeIsReal
  <1>3. CASE PollAnswered(p)
    <2>1. PICK b \in BOOLEAN : b = (deaf /\ wizStep' = wizStep /\ p.job = wizJob)  OBVIOUS
    <2>2. PICK m \in BOOLEAN : m = (p.read = "running" /\ (mixed \/ Mixes(p)))  OBVIOUS
    <2>3. /\ deaf' = b /\ mixed' = m /\ polls' = polls \ {p} /\ p.read # "none"
          /\ wizStep' = StepAfter(p.read) /\ wizJob' = p.job
          /\ timer' = IF p.read \in Ended THEN NoJob ELSE Watch(wizStep', p.job)
          /\ UNCHANGED <<uploads, jobs, had>>
      BY <1>3, <2>1, <2>2 DEF PollAnswered, jobTable
    <2>4. CASE p.read = "running"
      <3>1. wizStep' = wizStep /\ timer' = Watch(wizStep, p.job)
        BY <2>3, <2>4 DEF StepAfter, Ended
      <3>2. /\ timer' \in {timer, p.job, NoJob}
            /\ p.job = wizJob => timer' = timer
            /\ p.job # wizJob /\ wizStep = "processing" => timer' = p.job
        BY <3>1 DEF Watch
      <3>3. WizardShape'  BY <1>0, <2>3, <3>1, <3>2 DEF WizardInv, WizardShape
      <3>4. JobsAreReal'  BY <1>0, <2>3, <3>2 DEF WizardInv, WizardShape, JobsAreReal
      <3>5. b = FALSE => ~deaf \/ p.job # wizJob
        BY <2>1, <3>1
      <3>6. ProgressIsWatched'
        BY <2>3, <3>1, <3>2, <3>5 DEF WizardInv, ProgressIsWatched
      <3>7. m = FALSE => ~mixed /\ (wizStep \in {"done", "error"} => p.job = wizJob)
        BY <2>2, <2>4 DEF Mixes
      <3>8. OutcomeIsReal'
        BY <2>3, <3>1, <3>7 DEF WizardInv, OutcomeIsReal
      <3>. QED  BY <3>3, <3>4, <3>6, <3>8 DEF WizardInv
    <2>5. CASE p.read \in Ended
      <3>1. /\ timer' = NoJob /\ wizStep' \in {"done", "error"}
            /\ wizStep' = "done" => p.read = "succeeded"
            /\ wizStep' = "error" => p.read \in {"failed", "cancelled"}
        BY <2>3, <2>5 DEF StepAfter, Ended
      <3>2. WizardShape'  BY <1>0, <2>3, <3>1 DEF WizardInv, WizardShape
      <3>3. JobsAreReal'  BY <1>0, <2>3, <3>1 DEF WizardInv, WizardShape, JobsAreReal
      <3>4. ProgressIsWatched'  BY <3>1 DEF ProgressIsWatched
      <3>5. p.read \in had[p.job] /\ ("succeeded" \in had[p.job] => jobs[p.job] \in {"succeeded", "failed"})
        BY <1>0, <2>5 DEF WizardInv, JobsAreReal
      <3>6. OutcomeIsReal'
        BY <2>3, <3>1, <3>5 DEF OutcomeIsReal
      <3>. QED  BY <3>2, <3>3, <3>4, <3>6 DEF WizardInv
    <2>. QED  BY <1>0, <2>3, <2>4, <2>5 DEF Status
  <1>. QED  BY <1>1, <1>2, <1>3

LEMMA WizardKept == WizardInv /\ [WizardNext]_wizVars => WizardInv'
PROOF
  <1> SUFFICES ASSUME WizardInv, [WizardNext]_wizVars  PROVE WizardInv'
    OBVIOUS
  <1>1. CASE OpenWizard \/ FileDropped \/ TemplatePicked \/ UNCHANGED wizVars
    BY <1>1 DEF OpenWizard, FileDropped, TemplatePicked, wizVars, jobVars, jobTable, excuses,
                WizardInv, WizardShape, JobsAreReal, ProgressIsWatched, OutcomeIsReal
  <1>2. CASE TryAgain \/ CancelClicked \/ CloseWizard
    BY <1>2, WizardReset DEF TryAgain, CancelClicked, CloseWizard, jobVars
  <1>3. CASE PollSent
    <2>0. PICK r : r = [job |-> timer, read |-> "none"]  OBVIOUS
    <2>1. /\ r = [job |-> timer, read |-> "none"]
          /\ r = [job |-> r.job, read |-> r.read] /\ r.job = timer /\ r.read = "none"
      BY <2>0
    <2>2. polls' = polls \cup {r} /\ timer # NoJob
          /\ UNCHANGED <<wizStep, wizJob, timer, uploads, jobs, had, deaf, mixed>>
      BY <1>3, <2>1 DEF PollSent, jobTable, excuses
    <2>3. WizardShape'  BY <2>1, <2>2 DEF WizardInv, WizardShape, Status
    <2>4. JobsAreReal'  BY <2>1, <2>2 DEF WizardInv, WizardShape, JobsAreReal, Ended
    <2>. QED  BY <2>2, <2>3, <2>4 DEF WizardInv, ProgressIsWatched, OutcomeIsReal
  <1>4. ASSUME NEW p \in polls, PollRead(p) \/ PollAnswered(p) \/ PollFailed(p)
        PROVE  WizardInv'
    BY <1>4, WizardPolls
  <1>5. ASSUME NEW j \in Jobs, Upload(j)  PROVE WizardInv'
    BY <1>5 DEF Upload, jobTable, excuses, WizardInv, WizardShape, JobsAreReal, ProgressIsWatched,
       OutcomeIsReal
  <1>6. ASSUME NEW j \in Jobs, UploadAnswered(j)  PROVE WizardInv'
    BY <1>6, WizardUploads
  <1>7. ASSUME NEW j \in Jobs, CancelRuns(j) \/ JobMoves(j)  PROVE WizardInv'
    <2>1. UNCHANGED <<wizStep, wizJob, timer, uploads, polls, deaf, mixed>>
      BY <1>7 DEF CancelRuns, JobMoves, excuses
    <2>2. CASE UNCHANGED jobTable
      BY <2>1, <2>2 DEF jobTable, WizardInv, WizardShape, JobsAreReal, ProgressIsWatched,
         OutcomeIsReal
    <2>3. CASE ~UNCHANGED jobTable
      <3>1. PICK s \in Status \ {"none"} :
              /\ Becomes(j, s) /\ jobs[j] # "none" /\ jobs[j] # "failed"
              /\ jobs[j] = "succeeded" => s = "failed"
        BY <1>7, <2>3 DEF CancelRuns, JobMoves, MayBecome, Ended, Status
      <3>2. j \notin uploads  BY <3>1 DEF WizardInv, JobsAreReal
      <3>. QED  BY <2>1, <3>1, <3>2, JobsAdvance
    <2>. QED  BY <2>2, <2>3
  <1>. QED  BY <1>1, <1>2, <1>3, <1>4, <1>5, <1>6, <1>7 DEF WizardNext

HIDE WizardAssumption

-----------------------------------------------------------------------------
(* Messages on cards                                                       *)

USE MessagesAssumption

MessagesShape ==
  /\ notes = [h \in Holders |-> notes[h]] /\ valid = [h \in Holders |-> valid[h]]
  /\ known = [h \in Holders |-> known[h]]
  /\ shown \in Writers /\ picture \in {Nobody, shown}
  /\ \A c \in calls :
       /\ c = [kind |-> c.kind, of |-> c.of, note |-> c.note, mine |-> c.mine, step |-> c.step]
       /\ c.of \in Holders /\ c.kind \in {"publish", "remove"}
       /\ c.kind = "publish" =>
            /\ c.note = [id |-> c.note.id, from |-> {c.of}, stops |-> c.note.stops]
            /\ c.step \notin {"list", "look", "restore"}
       /\ c.step = "invalidate" => c.kind = "publish"

Removing(c) == c.step \in {"list", "look", "restore"}

(* On a card on which no requests crossed, a publication half-way has its  *)
(* message there and no removal beside it; a removal about to restore it   *)
(* has no message against it.                                              *)
HalvesOf(h) ==
  h \notin crossed =>
    \A c \in calls : c.of = h =>
      /\ c.step = "invalidate" =>
           /\ \E n \in notes[h] : n.stops
           /\ \A d \in calls : d.of = h => ~Removing(d)
      /\ c.step \in {"look", "restore"} => \A n \in notes[h] : ~n.stops

(* Where no request failed half-way either, a card and its messages are    *)
(* out of step only while the request that is to mend it is on its way.    *)
Bare(h) == notes[h] = {} /\ ~valid[h]
Loud(h) == valid[h] /\ \E n \in notes[h] : n.stops

MendedOf(h) ==
  h \notin cut \cup crossed =>
    /\ Bare(h) => \E c \in calls : c.of = h /\ Removing(c)
    /\ Loud(h) => \E c \in calls : c.of = h /\ c.step = "invalidate"

InStep == \A h \in Holders : HalvesOf(h) /\ MendedOf(h)

MessagesInv == MessagesShape /\ OwnWords /\ InStep

LEMMA MessagesInitially == MessagesInit => MessagesInv
  BY DEF MessagesInit, MessagesInv, MessagesShape, OwnWords, InStep, HalvesOf, MendedOf, Bare,
         Loud, Writers

(* A request at a step that is not half-way comes or goes.                 *)
LEMMA InStepStays ==
  ASSUME InStep, UNCHANGED <<notes, valid, cut, crossed>>,
         \A c \in calls : c \in calls' \/ ~Halfway(c),
         \A c \in calls' : c \in calls \/ ~Halfway(c)
  PROVE  InStep'
PROOF
  <1> SUFFICES ASSUME NEW h \in Holders  PROVE HalvesOf(h)' /\ MendedOf(h)'
    BY DEF InStep
  <1>1. \A c \in calls' : c.step \in {"invalidate", "list", "look", "restore"} => c \in calls
    BY DEF Halfway
  <1>2. \A c \in calls : c.step \in {"invalidate", "list", "look", "restore"} => c \in calls'
    BY DEF Halfway
  <1>3. HalvesOf(h) /\ MendedOf(h)  BY DEF InStep
  <1>4. HalvesOf(h)'  BY <1>1, <1>3 DEF HalvesOf, Removing
  <1>5. (Bare(h) <=> Bare(h)') /\ (Loud(h) <=> Loud(h)')  BY DEF Bare, Loud
  <1>6. MendedOf(h)'  BY <1>2, <1>3, <1>5 DEF MendedOf, Removing
  <1>. QED  BY <1>4, <1>6

LEMMA MovesTo ==
  ASSUME MessagesInv, NEW c \in calls, NEW step, Moves(c, step)
  PROVE  \E d : /\ calls' = (calls \ {c}) \cup {d}
                /\ d.of = c.of /\ d.kind = c.kind /\ d.note = c.note /\ d.step = step
                /\ d = [kind |-> d.kind, of |-> d.of, note |-> d.note, mine |-> d.mine,
                        step |-> d.step]
PROOF
  <1>1. c = [kind |-> c.kind, of |-> c.of, note |-> c.note, mine |-> c.mine, step |-> c.step]
    BY DEF MessagesInv, MessagesShape
  <1>2. PICK d : d = [c EXCEPT !.step = step]  OBVIOUS
  <1>3. d = [kind |-> c.kind, of |-> c.of, note |-> c.note, mine |-> c.mine, step |-> step]
    BY <1>1, <1>2
  <1>4. /\ d.of = c.of /\ d.kind = c.kind /\ d.note = c.note /\ d.step = step
        /\ d.mine = c.mine
    BY <1>3
  <1>5. calls' = (calls \ {c}) \cup {d}  BY <1>2 DEF Moves
  <1>. QED  BY <1>3, <1>4, <1>5

(* The steps of the dialog and its queries.                                *)
LEMMA MessagesDialog ==
  ASSUME MessagesInv,
         \/ \E h \in Holders : DialogOpened(h)
         \/ MessageDialogClosed \/ PictureChosen \/ PictureCleared \/ KnownGrewOld
         \/ UNCHANGED msgVars
  PROVE  MessagesInv'
PROOF
  <1>1. UNCHANGED <<notes, valid, calls, known, cut, crossed>>
    BY DEF DialogOpened, MessageDialogClosed, PictureChosen, PictureCleared, KnownGrewOld,
           msgVars, serverVars, cacheVars, pastVars
  <1>2. shown' \in Writers /\ picture' \in {Nobody, shown'}
    BY DEF DialogOpened, MessageDialogClosed, PictureChosen, PictureCleared, KnownGrewOld,
           msgVars, dialogVars, ResetForm, MessagesInv, MessagesShape, Writers
  <1>3. MessagesShape'  BY <1>1, <1>2 DEF MessagesInv, MessagesShape
  <1>4. OwnWords' /\ InStep'  BY <1>1, InStepStays DEF MessagesInv, OwnWords
  <1>. QED  BY <1>3, <1>4 DEF MessagesInv

(* A request is sent, by this dialog or by another page.                   *)
LEMMA MessagesSent ==
  ASSUME MessagesInv,
         NEW kind \in {"publish", "remove"}, NEW h \in Holders, NEW note, NEW mine,
         Sent(kind, h, note, mine),
         kind = "publish" => note = [id |-> note.id, from |-> {h}, stops |-> note.stops],
         UNCHANGED <<serverVars, dialogVars, cacheVars, pastVars>>
  PROVE  MessagesInv'
PROOF
  <1>1. PICK c : c = [kind |-> kind, of |-> h, note |-> note, mine |-> mine, step |-> "first"]
    OBVIOUS
  <1>2. c.kind = kind /\ c.of = h /\ c.note = note /\ c.mine = mine /\ c.step = "first"
    BY <1>1
  <1>3. calls' = calls \cup {c}  BY <1>1 DEF Sent
  <1>4. UNCHANGED <<notes, valid, shown, picture, known, cut, crossed>>
    BY DEF serverVars, dialogVars, cacheVars, pastVars
  <1>5. MessagesShape'  BY <1>1, <1>2, <1>3, <1>4 DEF MessagesInv, MessagesShape
  <1>6. InStep'  BY <1>2, <1>3, <1>4, InStepStays DEF MessagesInv, Halfway
  <1>7. OwnWords'  BY <1>4 DEF MessagesInv, OwnWords
  <1>. QED  BY <1>5, <1>6, <1>7 DEF MessagesInv

LEMMA DraftIs ==
  ASSUME NEW from, NEW stops
  PROVE  LET n == Draft(from, stops) IN n = [id |-> n.id, from |-> from, stops |-> n.stops]
PROOF
  <1>1. PICK n : n = [id |-> 1, from |-> from, stops |-> stops]  OBVIOUS
  <1>2. n = [id |-> n.id, from |-> from, stops |-> n.stops]  BY <1>1
  <1>. QED  BY <1>1, <1>2 DEF Draft

LEMMA MessagesPressed ==
  ASSUME MessagesInv,
         \/ (\E stops \in BOOLEAN : PublishPressed(stops)) \/ RemovePressed
         \/ \E h \in Holders : OtherSends(h)
  PROVE  MessagesInv'
PROOF
  <1>1. ASSUME NEW stops \in BOOLEAN, PublishPressed(stops)  PROVE MessagesInv'
    <2>1. shown \in Holders /\ {shown, picture} \cap Holders = {shown}
      BY <1>1 DEF PublishPressed, MessagesInv, MessagesShape, Writers
    <2>2. PICK n : n = Draft({shown}, stops)  OBVIOUS
    <2>3. n = [id |-> n.id, from |-> {shown}, stops |-> n.stops]  BY <2>2, DraftIs
    <2>4. Sent("publish", shown, n, TRUE)  BY <1>1, <2>1, <2>2 DEF PublishPressed
    <2>. QED  BY <1>1, <2>1, <2>3, <2>4, MessagesSent DEF PublishPressed
  <1>2. ASSUME RemovePressed  PROVE MessagesInv'
    <2>1. shown \in Holders  BY <1>2 DEF RemovePressed, MessagesInv, MessagesShape, Writers
    <2>. QED  BY <1>2, <2>1, MessagesSent DEF RemovePressed
  <1>3. ASSUME NEW h \in Holders, OtherSends(h)  PROVE MessagesInv'
    <2>1. ASSUME NEW stops \in BOOLEAN, Sent("publish", h, Draft({h}, stops), FALSE)
          PROVE  MessagesInv'
      <3>1. PICK n : n = Draft({h}, stops)  OBVIOUS
      <3>2. n = [id |-> n.id, from |-> {h}, stops |-> n.stops]  BY <3>1, DraftIs
      <3>. QED  BY <1>3, <2>1, <3>1, <3>2, MessagesSent DEF OtherSends
    <2>2. ASSUME NEW n \in notes[h], Sent("remove", h, n, FALSE)  PROVE MessagesInv'
      BY <1>3, <2>2, MessagesSent DEF OtherSends
    <2>. QED  BY <1>3, <2>1, <2>2 DEF OtherSends
  <1>. QED  BY <1>1, <1>2, <1>3

(* A step of a request on the server disturbs its own card alone.          *)
LEMMA ServedElsewhere ==
  ASSUME MessagesInv, NEW c \in calls, NEW d, d.of = c.of, calls' = (calls \ {c}) \cup {d},
         NEW h \in Holders, h # c.of, notes'[h] = notes[h], valid'[h] = valid[h],
         h \in cut <=> h \in cut', h \in crossed <=> h \in crossed'
  PROVE  HalvesOf(h)' /\ MendedOf(h)'
PROOF
  <1>1. HalvesOf(h) /\ MendedOf(h)  BY DEF MessagesInv, InStep
  <1>2. \A e : e.of = h => (e \in calls <=> e \in calls')  OBVIOUS
  <1>3. HalvesOf(h)'  BY <1>1, <1>2 DEF HalvesOf, Removing
  <1>4. (Bare(h)' => Bare(h)) /\ (Loud(h)' => Loud(h))  BY DEF Bare, Loud
  <1>5. MendedOf(h)'  BY <1>1, <1>2, <1>4 DEF MendedOf, Removing
  <1>. QED  BY <1>3, <1>5

(* On the card itself: what each step has to show.                         *)
LEMMA ServedHere ==
  ASSUME MessagesInv, NEW c \in calls, NEW step, Moves(c, step),
         UNCHANGED <<dialogVars, cacheVars>>,
         notes' = [h \in Holders |-> notes'[h]], valid' = [h \in Holders |-> valid'[h]],
         \A h \in Holders \ {c.of} : /\ notes'[h] = notes[h] /\ valid'[h] = valid[h]
                                     /\ h \in cut <=> h \in cut'
                                     /\ h \in crossed <=> h \in crossed',
         \A n \in notes'[c.of] : n.from = {c.of},
         c.kind = "publish" => step \notin {"list", "look", "restore"},
         step = "invalidate" => c.kind = "publish",
         NEW d, calls' = (calls \ {c}) \cup {d}, d.of = c.of, d.step = step, d.kind = c.kind,
         d.note = c.note,
         d = [kind |-> d.kind, of |-> d.of, note |-> d.note, mine |-> d.mine, step |-> d.step],
         HalvesOf(c.of)' /\ MendedOf(c.of)'
  PROVE  MessagesInv'
PROOF
  <1>1. UNCHANGED <<shown, picture, known>>  BY DEF dialogVars, cacheVars
  <1>2. MessagesShape'  BY <1>1 DEF MessagesInv, MessagesShape
  <1>3. OwnWords'  BY DEF MessagesInv, OwnWords
  <1>4. ASSUME NEW h \in Holders  PROVE HalvesOf(h)' /\ MendedOf(h)'
    <2>1. CASE h # c.of  BY <2>1, ServedElsewhere
    <2>2. CASE h = c.of  BY <2>2
    <2>. QED  BY <2>1, <2>2
  <1>. QED  BY <1>2, <1>3, <1>4 DEF MessagesInv, InStep

(* What holds of the card and the request of a step before it.             *)
LEMMA AboutCall ==
  ASSUME MessagesInv, NEW c \in calls
  PROVE  /\ c.of \in Holders
         /\ notes = [h \in Holders |-> notes[h]] /\ valid = [h \in Holders |-> valid[h]]
         /\ c.kind = "publish" =>
              /\ c.note = [id |-> c.note.id, from |-> {c.of}, stops |-> c.note.stops]
              /\ c.step \notin {"list", "look", "restore"}
         /\ c.step = "invalidate" => c.kind = "publish"
         /\ HalvesOf(c.of) /\ MendedOf(c.of)
         /\ \A n \in notes[c.of] : n.from = {c.of}
         /\ \A e \in calls : Removing(e) => e.kind = "remove" /\ Halfway(e)
         /\ \A e \in calls : e.step = "invalidate" => e.kind = "publish" /\ Halfway(e)
PROOF
  <1>1. MessagesShape /\ OwnWords /\ InStep /\ c.of \in Holders
    BY DEF MessagesInv, MessagesShape
  <1>2. /\ notes = [h \in Holders |-> notes[h]] /\ valid = [h \in Holders |-> valid[h]]
        /\ c.kind = "publish" =>
             /\ c.note = [id |-> c.note.id, from |-> {c.of}, stops |-> c.note.stops]
             /\ c.step \notin {"list", "look", "restore"}
        /\ c.step = "invalidate" => c.kind = "publish"
    BY <1>1 DEF MessagesShape
  <1>3. HalvesOf(c.of) /\ MendedOf(c.of)  BY <1>1 DEF InStep
  <1>4. \A n \in notes[c.of] : n.from = {c.of}  BY <1>1 DEF OwnWords
  <1>5. /\ \A e \in calls : e.kind \in {"publish", "remove"}
        /\ \A e \in calls : Removing(e) => e.kind # "publish" /\ Halfway(e)
        /\ \A e \in calls : e.step = "invalidate" => e.kind = "publish" /\ Halfway(e)
    BY <1>1 DEF MessagesShape, Removing, Halfway
  <1>. QED  BY <1>1, <1>2, <1>3, <1>4, <1>5

LEMMA MessageCreatedKeeps ==
  ASSUME MessagesInv, NEW c \in calls, MessageCreated(c)
  PROVE  MessagesInv'
PROOF
  <1>0. c.kind = "publish" /\ c.step = "first"  BY DEF MessageCreated
  <1>1. PICK step : Moves(c, step) /\ step = (IF c.note.stops THEN "invalidate" ELSE "done")
    BY DEF MessageCreated
  <1>2. PICK d : /\ calls' = (calls \ {c}) \cup {d}
                 /\ d.of = c.of /\ d.kind = c.kind /\ d.note = c.note /\ d.step = step
                 /\ d = [kind |-> d.kind, of |-> d.of, note |-> d.note, mine |-> d.mine,
                         step |-> d.step]
    BY <1>1, MovesTo
  <1>3. PICK id : notes' = [notes EXCEPT ![c.of] = @ \cup {[c.note EXCEPT !.id = id]}]
    BY DEF MessageCreated
  <1>4. PICK n : n = [c.note EXCEPT !.id = id]  OBVIOUS
  <1>5. n = [id |-> id, from |-> {c.of}, stops |-> c.note.stops]
    <2>1. c.note = [id |-> c.note.id, from |-> {c.of}, stops |-> c.note.stops]
      BY <1>0, AboutCall
    <2>. QED  BY <1>4, <2>1
  <1>6. n.from = {c.of} /\ n.stops = c.note.stops  BY <1>5
  <1>7. notes' = [notes EXCEPT ![c.of] = @ \cup {n}]  BY <1>3, <1>4
  <1>8. /\ notes' = [h \in Holders |-> notes'[h]] /\ notes'[c.of] = notes[c.of] \cup {n}
        /\ \A h \in Holders \ {c.of} : notes'[h] = notes[h]
    BY <1>7, AboutCall
  <1>9. UNCHANGED <<valid, cut, dialogVars, cacheVars>>  BY DEF MessageCreated
  <1>10. /\ \A h \in Holders \ {c.of} : h \in crossed <=> h \in crossed'
         /\ crossed \subseteq crossed'
    BY DEF MessageCreated, MetBy
  <1>11. HalvesOf(c.of)' /\ MendedOf(c.of)'
    <2>1. CASE ~c.note.stops
      <3>1. step = "done" /\ ~n.stops /\ crossed' = crossed
        BY <1>1, <1>6, <2>1 DEF MessageCreated
      <3>2. \A e : e.step # "done" /\ e.step # "first" => (e \in calls <=> e \in calls')
        BY <1>0, <1>2, <3>1
      <3>3. \A m \in notes'[c.of] : m.stops => m \in notes[c.of]  BY <1>8, <3>1
      <3>4. HalvesOf(c.of)'
        BY <1>8, <3>1, <3>2, <3>3, AboutCall DEF HalvesOf, Removing
      <3>5. (Bare(c.of)' => Bare(c.of)) /\ (Loud(c.of)' => Loud(c.of))
        BY <1>8, <1>9, <3>3 DEF Bare, Loud
      <3>6. MendedOf(c.of)  BY AboutCall
      <3>7. MendedOf(c.of)'  BY <1>9, <3>1, <3>2, <3>5, <3>6 DEF MendedOf, Removing
      <3>. QED  BY <3>4, <3>7
    <2>2. CASE c.note.stops
      <3>1. step = "invalidate" /\ n.stops /\ crossed' = crossed \cup MetBy(c)
        BY <1>1, <1>6, <2>2 DEF MessageCreated
      <3>2. c.of \in crossed' \/ \A e \in calls : e.of = c.of => ~Removing(e)
        BY <1>0, <3>1, AboutCall DEF MetBy
      <3>3. CASE c.of \in crossed'  BY <3>3 DEF HalvesOf, MendedOf
      <3>4. CASE c.of \notin crossed'
        <4>1. \A e \in calls' : e.of = c.of => ~Removing(e)
          BY <1>2, <3>1, <3>2, <3>4 DEF Removing
        <4>2. HalvesOf(c.of)'  BY <1>8, <3>1, <4>1 DEF HalvesOf, Removing
        <4>3. MendedOf(c.of)'  BY <1>2, <1>8, <3>1 DEF MendedOf, Bare
        <4>. QED  BY <4>2, <4>3
      <3>. QED  BY <3>3, <3>4
    <2>. QED  BY <2>1, <2>2
  <1>12. \A m \in notes'[c.of] : m.from = {c.of}  BY <1>6, <1>8, AboutCall
  <1>13. valid' = [h \in Holders |-> valid'[h]]  BY <1>9, AboutCall
  <1>14. step \notin {"list", "look", "restore"}  BY <1>1
  <1>. QED  BY <1>0, <1>1, <1>2, <1>8, <1>9, <1>10, <1>11, <1>12, <1>13, <1>14, ServedHere

LEMMA CardInvalidatedKeeps ==
  ASSUME MessagesInv, NEW c \in calls, CardInvalidated(c)
  PROVE  MessagesInv'
PROOF
  <1>0. c.step = "invalidate" /\ c.kind = "publish" /\ Moves(c, "done")
    BY AboutCall DEF CardInvalidated
  <1>1. PICK d : /\ calls' = (calls \ {c}) \cup {d}
                 /\ d.of = c.of /\ d.kind = c.kind /\ d.note = c.note /\ d.step = "done"
                 /\ d = [kind |-> d.kind, of |-> d.of, note |-> d.note, mine |-> d.mine,
                         step |-> d.step]
    BY <1>0, MovesTo
  <1>2. /\ valid' = [h \in Holders |-> valid'[h]] /\ ~valid'[c.of]
        /\ \A h \in Holders \ {c.of} : valid'[h] = valid[h]
    BY AboutCall DEF CardInvalidated
  <1>3. UNCHANGED <<notes, cut, crossed, dialogVars, cacheVars>>
    BY DEF CardInvalidated, pastVars
  <1>4. \A e : e \in calls' /\ e.step # "done" => e \in calls  BY <1>1
  <1>5. HalvesOf(c.of)'  BY <1>3, <1>4, AboutCall DEF HalvesOf, Removing
  <1>6. MendedOf(c.of)'
    <2>1. ~Loud(c.of)'  BY <1>2 DEF Loud
    <2>2. c.of \notin crossed' => ~Bare(c.of)'  BY <1>0, <1>3, AboutCall DEF Bare, HalvesOf
    <2>. QED  BY <2>1, <2>2 DEF MendedOf
  <1>7. \A m \in notes'[c.of] : m.from = {c.of}  BY <1>3, AboutCall
  <1>8. notes' = [h \in Holders |-> notes'[h]]  BY <1>3, AboutCall
  <1>. QED  BY <1>0, <1>1, <1>2, <1>3, <1>5, <1>6, <1>7, <1>8, ServedHere

LEMMA MessageRemovedKeeps ==
  ASSUME MessagesInv, NEW c \in calls, MessageRemoved(c)
  PROVE  MessagesInv'
PROOF
  <1>0. c.kind = "remove" /\ c.step = "first"  BY DEF MessageRemoved
  <1>1. PICK step : /\ Moves(c, step)
                    /\ step = (IF c.note \in notes[c.of] THEN "list" ELSE "failed")
    BY DEF MessageRemoved
  <1>2. PICK d : /\ calls' = (calls \ {c}) \cup {d}
                 /\ d.of = c.of /\ d.kind = c.kind /\ d.note = c.note /\ d.step = step
                 /\ d = [kind |-> d.kind, of |-> d.of, note |-> d.note, mine |-> d.mine,
                         step |-> d.step]
    BY <1>1, MovesTo
  <1>3. UNCHANGED <<valid, cut, dialogVars, cacheVars>>  BY DEF MessageRemoved
  <1>4. /\ notes' = [h \in Holders |-> notes'[h]]
        /\ \A h \in Holders \ {c.of} :
             notes'[h] = notes[h] /\ (h \in crossed <=> h \in crossed')
        /\ notes'[c.of] \subseteq notes[c.of] /\ crossed \subseteq crossed'
    BY AboutCall DEF MessageRemoved, MetBy
  <1>5. HalvesOf(c.of)' /\ MendedOf(c.of)'
    <2>1. CASE c.note \notin notes[c.of]
      <3>1. step = "failed" /\ UNCHANGED <<notes, crossed>>
        BY <1>1, <2>1 DEF MessageRemoved
      <3>2. \A e : e.step # "failed" /\ e.step # "first" => (e \in calls <=> e \in calls')
        BY <1>0, <1>2, <3>1
      <3>3. HalvesOf(c.of)'  BY <3>1, <3>2, AboutCall DEF HalvesOf, Removing
      <3>4. (Bare(c.of)' => Bare(c.of)) /\ (Loud(c.of)' => Loud(c.of))
        BY <1>3, <3>1 DEF Bare, Loud
      <3>5. MendedOf(c.of)  BY AboutCall
      <3>6. MendedOf(c.of)'  BY <1>3, <3>1, <3>2, <3>4, <3>5 DEF MendedOf, Removing
      <3>. QED  BY <3>3, <3>6
    <2>2. CASE c.note \in notes[c.of]
      <3>1. step = "list" /\ crossed' = crossed \cup MetBy(c)
        BY <1>1, <2>2 DEF MessageRemoved
      <3>2. c.of \in crossed' \/ \A e \in calls : e.of = c.of => e.step # "invalidate"
        BY <1>0, <3>1, AboutCall DEF MetBy
      <3>3. CASE c.of \in crossed'  BY <3>3 DEF HalvesOf, MendedOf
      <3>4. CASE c.of \notin crossed'
        <4>1. \A e \in calls' : e.of = c.of => e.step # "invalidate"
          BY <1>2, <3>1, <3>2, <3>4
        <4>2. \A e : e.step # "list" /\ e.step # "first" => (e \in calls <=> e \in calls')
          BY <1>0, <1>2, <3>1
        <4>3. HalvesOf(c.of)'
          BY <1>4, <3>4, <4>1, <4>2, AboutCall DEF HalvesOf
        <4>4. MendedOf(c.of)'
          <5>1. d \in calls' /\ d.of = c.of /\ Removing(d)  BY <1>2, <3>1 DEF Removing
          <5>2. Loud(c.of)' => Loud(c.of)  BY <1>3, <1>4 DEF Loud
          <5>3. MendedOf(c.of)  BY AboutCall
          <5>4. ~(\E e \in calls : e.of = c.of /\ e.step = "invalidate")  BY <3>2, <3>4
          <5>5. c.of \notin crossed  BY <1>4, <3>4
          <5>6. c.of \notin cut' => ~Loud(c.of)'  BY <1>3, <5>2, <5>3, <5>4, <5>5 DEF MendedOf
          <5>. QED  BY <5>1, <5>6 DEF MendedOf
        <4>. QED  BY <4>3, <4>4
      <3>. QED  BY <3>3, <3>4
    <2>. QED  BY <2>1, <2>2
  <1>6. \A m \in notes'[c.of] : m.from = {c.of}  BY <1>4, AboutCall
  <1>7. valid' = [h \in Holders |-> valid'[h]]  BY <1>3, AboutCall
  <1>8. Moves(c, step) /\ step # "invalidate" /\ c.kind # "publish"  BY <1>0, <1>1
  <1>9. valid' = valid /\ cut' = cut /\ UNCHANGED <<dialogVars, cacheVars>>  BY <1>3
  <1>. QED  BY <1>2, <1>4, <1>5, <1>6, <1>7, <1>8, <1>9, ServedHere

(* The steps of a removal that write no message.                           *)
LEMMA RemovalKeeps ==
  ASSUME MessagesInv, NEW c \in calls, RestListed(c) \/ CardRead(c) \/ CardRestored(c)
  PROVE  MessagesInv'
PROOF
  <1>0. Removing(c) /\ c.kind = "remove"
    BY AboutCall DEF RestListed, CardRead, CardRestored, Removing
  <1>1. PICK step : /\ Moves(c, step) /\ step \in {"look", "restore", "done"}
                    /\ RestListed(c) => step = IF NothingLeft(c.of) THEN "look" ELSE "done"
                    /\ CardRead(c) => step = IF valid[c.of] THEN "done" ELSE "restore"
                    /\ CardRestored(c) => step = "done"
    <2>1. CASE RestListed(c)
      <3>1. c.step = "list"  BY <2>1 DEF RestListed
      <3>2. ~CardRead(c) /\ ~CardRestored(c)  BY <3>1 DEF CardRead, CardRestored
      <3>. QED  BY <2>1, <3>2 DEF RestListed
    <2>2. CASE CardRead(c)
      <3>1. c.step = "look"  BY <2>2 DEF CardRead
      <3>2. ~RestListed(c) /\ ~CardRestored(c)  BY <3>1 DEF RestListed, CardRestored
      <3>. QED  BY <2>2, <3>2 DEF CardRead
    <2>3. CASE CardRestored(c)
      <3>1. c.step = "restore"  BY <2>3 DEF CardRestored
      <3>2. ~RestListed(c) /\ ~CardRead(c)  BY <3>1 DEF RestListed, CardRead
      <3>. QED  BY <2>3, <3>2 DEF CardRestored
    <2>. QED  BY <2>1, <2>2, <2>3
  <1>2. PICK d : /\ calls' = (calls \ {c}) \cup {d}
                 /\ d.of = c.of /\ d.kind = c.kind /\ d.note = c.note /\ d.step = step
                 /\ d = [kind |-> d.kind, of |-> d.of, note |-> d.note, mine |-> d.mine,
                         step |-> d.step]
    BY <1>1, MovesTo
  <1>3. /\ UNCHANGED <<notes, crossed, dialogVars, cacheVars>>
        /\ valid' = [h \in Holders |-> valid'[h]]
        /\ \A h \in Holders \ {c.of} : valid'[h] = valid[h] /\ (h \in cut <=> h \in cut')
    BY AboutCall DEF RestListed, CardRead, CardRestored, serverVars, pastVars
  <1>4. \A e : e \in calls' /\ e # d => e \in calls  BY <1>2
  <1>5. HalvesOf(c.of)'
    <2>1. CASE c.of \in crossed  BY <1>3, <2>1 DEF HalvesOf
    <2>2. CASE c.of \notin crossed
      <3>1. \A e \in calls' : e.of = c.of => e.step # "invalidate"
        BY <1>0, <1>1, <1>2, <2>2, AboutCall DEF HalvesOf
      <3>2. step \in {"look", "restore"} => \A n \in notes[c.of] : ~n.stops
        BY <1>1, <2>2, AboutCall DEF HalvesOf, NothingLeft, RestListed, CardRead, CardRestored
      <3>3. ASSUME NEW e \in calls', e.of = c.of, e.step \in {"look", "restore"}
            PROVE  \A n \in notes'[c.of] : ~n.stops
        <4>1. CASE e = d  BY <1>2, <1>3, <3>2, <3>3, <4>1
        <4>2. CASE e # d  BY <1>3, <1>4, <2>2, <3>3, <4>2, AboutCall DEF HalvesOf
        <4>. QED  BY <4>1, <4>2
      <3>. QED  BY <3>1, <3>3 DEF HalvesOf
    <2>. QED  BY <2>1, <2>2
  <1>6. MendedOf(c.of)'
    <2>1. CASE c.of \in crossed  BY <1>3, <2>1 DEF MendedOf
    <2>2. CASE c.of \notin crossed
      <3>1. CASE CardRestored(c)
        <4>1. ~Bare(c.of)'
          <5>1. valid'[c.of] = TRUE  BY <3>1, AboutCall DEF CardRestored
          <5>. QED  BY <5>1 DEF Bare
        <4>2. \A n \in notes'[c.of] : ~n.stops
          BY <1>3, <2>2, <3>1, AboutCall DEF HalvesOf, CardRestored
        <4>3. ~Loud(c.of)'  BY <4>2 DEF Loud
        <4>. QED  BY <4>1, <4>3 DEF MendedOf
      <3>2. CASE ~CardRestored(c)
        <4>1. UNCHANGED <<valid, cut>>
          BY <3>2 DEF RestListed, CardRead, serverVars, pastVars
        <4>2. \A e \in calls : e.step = "invalidate" => e \in calls'
          BY <1>0, <1>2 DEF Removing
        <4>3. ASSUME Bare(c.of)
              PROVE  \E e \in calls' : e.of = c.of /\ Removing(e)
          <5>1. step \in {"look", "restore"}
            BY <1>1, <3>2, <4>3 DEF NothingLeft, Bare
          <5>. QED  BY <1>2, <5>1 DEF Removing
        <4>4. (Bare(c.of)' => Bare(c.of)) /\ (Loud(c.of)' => Loud(c.of))
          BY <1>3, <4>1 DEF Bare, Loud
        <4>5. MendedOf(c.of)  BY AboutCall
        <4>. QED  BY <1>3, <4>1, <4>2, <4>3, <4>4, <4>5 DEF MendedOf
      <3>. QED  BY <3>1, <3>2
    <2>. QED  BY <2>1, <2>2
  <1>7. \A m \in notes'[c.of] : m.from = {c.of}  BY <1>3, AboutCall
  <1>8. notes' = [h \in Holders |-> notes'[h]]  BY <1>3, AboutCall
  <1>9. step # "invalidate" /\ (c.kind = "publish" => step \notin {"list", "look", "restore"})
    BY <1>0, <1>1
  <1>. QED  BY <1>1, <1>2, <1>3, <1>5, <1>6, <1>7, <1>8, <1>9, ServedHere

LEMMA CallFailedKeeps ==
  ASSUME MessagesInv, NEW c \in calls, CallFailed(c)
  PROVE  MessagesInv'
PROOF
  <1>1. Moves(c, "failed") /\ UNCHANGED <<notes, valid, dialogVars, cacheVars, crossed>>
    BY DEF CallFailed, serverVars
  <1>2. PICK d : /\ calls' = (calls \ {c}) \cup {d}
                 /\ d.of = c.of /\ d.kind = c.kind /\ d.note = c.note /\ d.step = "failed"
                 /\ d = [kind |-> d.kind, of |-> d.of, note |-> d.note, mine |-> d.mine,
                         step |-> d.step]
    BY <1>1, MovesTo
  <1>3. /\ \A h \in Holders \ {c.of} : h \in cut <=> h \in cut'
        /\ cut \subseteq cut' /\ (Halfway(c) => c.of \in cut')
    BY AboutCall DEF CallFailed
  <1>4. HalvesOf(c.of)'  BY <1>1, <1>2, AboutCall DEF HalvesOf, Removing
  <1>5. MendedOf(c.of)'
    <2>1. CASE Halfway(c)  BY <1>3, <2>1 DEF MendedOf
    <2>2. CASE ~Halfway(c)
      <3>1. \A e \in calls : Removing(e) \/ e.step = "invalidate" => e \in calls'
        BY <1>2, <2>2 DEF Halfway, Removing
      <3>2. (Bare(c.of)' => Bare(c.of)) /\ (Loud(c.of)' => Loud(c.of))
        BY <1>1 DEF Bare, Loud
      <3>3. MendedOf(c.of)  BY AboutCall
      <3>. QED  BY <1>1, <1>3, <3>1, <3>2, <3>3 DEF MendedOf
    <2>. QED  BY <2>1, <2>2
  <1>6. \A m \in notes'[c.of] : m.from = {c.of}  BY <1>1, AboutCall
  <1>7. /\ notes' = [h \in Holders |-> notes'[h]] /\ valid' = [h \in Holders |-> valid'[h]]
        /\ \A h \in Holders : notes'[h] = notes[h] /\ valid'[h] = valid[h]
                              /\ (h \in crossed <=> h \in crossed')
    BY <1>1, AboutCall
  <1>. QED  BY <1>1, <1>2, <1>3, <1>4, <1>5, <1>6, <1>7, ServedHere

(* The steps of a request on the server.                                   *)
LEMMA MessagesServed ==
  ASSUME MessagesInv, NEW c \in calls, ServerStep(c)
  PROVE  MessagesInv'
  BY MessageCreatedKeeps, CardInvalidatedKeeps, MessageRemovedKeeps, RemovalKeeps,
     CallFailedKeeps DEF ServerStep

(* The answers of requests and queries.                                    *)
LEMMA MessagesHeard ==
  ASSUME MessagesInv,
         \/ \E c \in calls : CallAnswered(c)
         \/ \E h \in Holders : MessagesAnswered(h) \/ MessagesFailed(h)
  PROVE  MessagesInv'
PROOF
  <1>1. ASSUME NEW c \in calls, CallAnswered(c)  PROVE MessagesInv'
    <2>1. calls' = calls \ {c} /\ UNCHANGED <<notes, valid, known, cut, crossed>>
      BY <1>1 DEF CallAnswered, serverVars, pastVars
    <2>2. ~Halfway(c)  BY <1>1 DEF CallAnswered, Halfway
    <2>3. shown' \in Writers /\ picture' \in {Nobody, shown'}
      BY <1>1 DEF CallAnswered, ResetForm, dialogVars, MessagesInv, MessagesShape, Writers
    <2>4. MessagesShape'  BY <2>1, <2>3 DEF MessagesInv, MessagesShape
    <2>5. OwnWords'  BY <2>1 DEF MessagesInv, OwnWords
    <2>6. InStep'  BY <2>1, <2>2, InStepStays DEF MessagesInv
    <2>. QED  BY <2>4, <2>5, <2>6 DEF MessagesInv
  <1>2. ASSUME NEW h \in Holders, MessagesAnswered(h) \/ MessagesFailed(h)
        PROVE  MessagesInv'
    <2>1. UNCHANGED <<notes, valid, calls, shown, picture, cut, crossed>>
      BY <1>2 DEF MessagesAnswered, MessagesFailed, serverVars, dialogVars, pastVars
    <2>2. known' = [k \in Holders |-> known'[k]]
      BY <1>2 DEF MessagesAnswered, MessagesFailed, MessagesInv, MessagesShape
    <2>3. MessagesShape'  BY <2>1, <2>2 DEF MessagesInv, MessagesShape
    <2>4. OwnWords' /\ InStep'  BY <2>1, InStepStays DEF MessagesInv, OwnWords
    <2>. QED  BY <2>3, <2>4 DEF MessagesInv
  <1>. QED  BY <1>1, <1>2

LEMMA MessagesKept == MessagesInv /\ [MessagesNext]_msgVars => MessagesInv'
  BY MessagesDialog, MessagesPressed, MessagesServed, MessagesHeard DEF MessagesNext

(* The words are a card's own, and its validity follows its messages.      *)
LEMMA MessagesShow == MessagesInv => OwnWords /\ ValidityFollowsMessages
  BY DEF MessagesInv, InStep, MendedOf, Bare, Loud, ValidityFollowsMessages, Halfway, Removing

HIDE MessagesAssumption

-----------------------------------------------------------------------------
(* The rows of contact blocks                                              *)

USE RowsAssumption

Ids  == Nat \X Nat
Blks == [block : Nat \ {0}, astray : BOOLEAN, id : Ids]

LEMMA SubSeqIs ==
  ASSUME NEW S, NEW s \in Seq(S), NEW m \in 1..(Len(s) + 1), NEW n \in 0..Len(s), m <= n + 1
  PROVE  /\ SubSeq(s, m, n) \in Seq(S) /\ Len(SubSeq(s, m, n)) = n - m + 1
         /\ \A k \in 1..(n - m + 1) : SubSeq(s, m, n)[k] = s[m + k - 1]
  BY SubSeqProperties

LEMMA RemoveAtIs ==
  ASSUME NEW S, NEW s \in Seq(S), NEW i \in 1..Len(s)
  PROVE  /\ RemoveAt(s, i) \in Seq(S) /\ Len(RemoveAt(s, i)) = Len(s) - 1
         /\ \A k \in 1..(Len(s) - 1) : RemoveAt(s, i)[k] = s[IF k < i THEN k ELSE k + 1]
PROOF
  <1>0. PICK n \in Nat : n = Len(s)  BY LenProperties
  <1>1. PICK a : a = SubSeq(s, 1, i - 1)  OBVIOUS
  <1>2. PICK b : b = SubSeq(s, i + 1, n)  OBVIOUS
  <1>3. a \in Seq(S) /\ Len(a) = i - 1 /\ \A k \in 1..(i - 1) : a[k] = s[k]
    <2>1. 1 \in 1..(Len(s) + 1) /\ i - 1 \in 0..Len(s) /\ 1 <= (i - 1) + 1  BY <1>0
    <2>2. /\ SubSeq(s, 1, i - 1) \in Seq(S) /\ Len(SubSeq(s, 1, i - 1)) = (i - 1) - 1 + 1
          /\ \A k \in 1..((i - 1) - 1 + 1) : SubSeq(s, 1, i - 1)[k] = s[1 + k - 1]
      BY <2>1, SubSeqIs
    <2>3. a \in Seq(S)  BY <1>1, <2>2
    <2>4. Len(a) = i - 1  BY <1>0, <1>1, <2>2
    <2>5. ASSUME NEW k \in 1..(i - 1)  PROVE a[k] = s[k]
      <3>1. k \in 1..((i - 1) - 1 + 1) /\ 1 + k - 1 = k  BY <1>0
      <3>. QED  BY <1>1, <2>2, <3>1
    <2>. QED  BY <2>3, <2>4, <2>5
  <1>4. b \in Seq(S) /\ Len(b) = n - i /\ \A k \in 1..(n - i) : b[k] = s[i + k]
    <2>1. i + 1 \in 1..(Len(s) + 1) /\ n \in 0..Len(s) /\ i + 1 <= n + 1  BY <1>0
    <2>2. /\ SubSeq(s, i + 1, n) \in Seq(S) /\ Len(SubSeq(s, i + 1, n)) = n - (i + 1) + 1
          /\ \A k \in 1..(n - (i + 1) + 1) : SubSeq(s, i + 1, n)[k] = s[(i + 1) + k - 1]
      BY <2>1, SubSeqIs
    <2>3. b \in Seq(S)  BY <1>2, <2>2
    <2>4. Len(b) = n - i  BY <1>0, <1>2, <2>2
    <2>5. ASSUME NEW k \in 1..(n - i)  PROVE b[k] = s[i + k]
      <3>1. k \in 1..(n - (i + 1) + 1) /\ (i + 1) + k - 1 = i + k  BY <1>0
      <3>. QED  BY <1>2, <2>2, <3>1
    <2>. QED  BY <2>3, <2>4, <2>5
  <1>5. /\ a \o b \in Seq(S) /\ Len(a \o b) = Len(a) + Len(b)
        /\ \A k \in 1..(Len(a) + Len(b)) :
             (a \o b)[k] = IF k <= Len(a) THEN a[k] ELSE b[k - Len(a)]
    BY <1>3, <1>4, ConcatProperties
  <1>6. RemoveAt(s, i) = a \o b  BY <1>0, <1>1, <1>2 DEF RemoveAt
  <1>7. Len(RemoveAt(s, i)) = Len(s) - 1
    <2>1. Len(a) = i - 1 /\ Len(b) = n - i /\ Len(a \o b) = Len(a) + Len(b)
      BY <1>3, <1>4, <1>5
    <2>2. Len(a \o b) = n - 1  BY <1>0, <2>1
    <2>. QED  BY <1>0, <1>6, <2>2
  <1>8. ASSUME NEW k \in 1..(Len(s) - 1)
        PROVE  RemoveAt(s, i)[k] = s[IF k < i THEN k ELSE k + 1]
    <2>0. k \in 1..(Len(a) + Len(b))  BY <1>0, <1>3, <1>4
    <2>1. CASE k < i
      <3>1. k <= Len(a) /\ k \in 1..(i - 1)  BY <1>0, <1>3, <2>1
      <3>. QED  BY <1>3, <1>5, <1>6, <2>0, <2>1, <3>1
    <2>2. CASE ~(k < i)
      <3>1. ~(k <= Len(a)) /\ k - Len(a) = k - i + 1 /\ k - i + 1 \in 1..(n - i)
        BY <1>0, <1>3, <2>2
      <3>2. i + (k - i + 1) = k + 1  BY <1>0
      <3>3. b[k - i + 1] = s[i + (k - i + 1)]  BY <1>4, <3>1
      <3>4. (a \o b)[k] = b[k - i + 1]  BY <1>5, <2>0, <3>1
      <3>5. (a \o b)[k] = s[k + 1]  BY <3>2, <3>3, <3>4
      <3>. QED  BY <1>6, <2>2, <3>5
    <2>. QED  BY <2>1, <2>2
  <1>. QED  BY <1>5, <1>6, <1>7, <1>8

LEMMA InsertAtIs ==
  ASSUME NEW S, NEW s \in Seq(S), NEW i \in 1..(Len(s) + 1), NEW e \in S
  PROVE  /\ InsertAt(s, i, e) \in Seq(S) /\ Len(InsertAt(s, i, e)) = Len(s) + 1
         /\ \A k \in 1..(Len(s) + 1) :
              InsertAt(s, i, e)[k] = IF k < i THEN s[k] ELSE IF k = i THEN e ELSE s[k - 1]
PROOF
  <1>0. PICK n \in Nat : n = Len(s)  BY LenProperties
  <1>1. PICK a : a = SubSeq(s, 1, i - 1)  OBVIOUS
  <1>2. PICK b : b = SubSeq(s, i, n)  OBVIOUS
  <1>3. a \in Seq(S) /\ Len(a) = i - 1 /\ \A k \in 1..(i - 1) : a[k] = s[k]
    <2>1. 1 \in 1..(Len(s) + 1) /\ i - 1 \in 0..Len(s) /\ 1 <= (i - 1) + 1  BY <1>0
    <2>2. /\ SubSeq(s, 1, i - 1) \in Seq(S) /\ Len(SubSeq(s, 1, i - 1)) = (i - 1) - 1 + 1
          /\ \A k \in 1..((i - 1) - 1 + 1) : SubSeq(s, 1, i - 1)[k] = s[1 + k - 1]
      BY <2>1, SubSeqIs
    <2>3. a \in Seq(S)  BY <1>1, <2>2
    <2>4. Len(a) = i - 1  BY <1>0, <1>1, <2>2
    <2>5. ASSUME NEW k \in 1..(i - 1)  PROVE a[k] = s[k]
      <3>1. k \in 1..((i - 1) - 1 + 1) /\ 1 + k - 1 = k  BY <1>0
      <3>. QED  BY <1>1, <2>2, <3>1
    <2>. QED  BY <2>3, <2>4, <2>5
  <1>4. b \in Seq(S) /\ Len(b) = n - i + 1 /\ \A k \in 1..(n - i + 1) : b[k] = s[i + k - 1]
    <2>1. i \in 1..(Len(s) + 1) /\ n \in 0..Len(s) /\ i <= n + 1  BY <1>0
    <2>2. /\ SubSeq(s, i, n) \in Seq(S) /\ Len(SubSeq(s, i, n)) = n - i + 1
          /\ \A k \in 1..(n - i + 1) : SubSeq(s, i, n)[k] = s[i + k - 1]
      BY <2>1, SubSeqIs
    <2>. QED  BY <1>2, <2>2
  <1>5. <<e>> \in Seq(S) /\ Len(<<e>>) = 1 /\ <<e>>[1] = e  OBVIOUS
  <1>6. PICK m : m = <<e>>  OBVIOUS
  <1>7. m \in Seq(S) /\ Len(m) = 1 /\ m[1] = e  BY <1>5, <1>6
  <1>8. PICK c : c = a \o m  OBVIOUS
  <1>9. /\ c \in Seq(S) /\ Len(c) = Len(a) + Len(m)
        /\ \A k \in 1..(Len(a) + Len(m)) :
              c[k] = IF k <= Len(a) THEN a[k] ELSE m[k - Len(a)]
    BY <1>3, <1>7, <1>8, ConcatProperties
  <1>10. /\ c \o b \in Seq(S) /\ Len(c \o b) = Len(c) + Len(b)
         /\ \A k \in 1..(Len(c) + Len(b)) :
              (c \o b)[k] = IF k <= Len(c) THEN c[k] ELSE b[k - Len(c)]
    <2>1. b \in Seq(S) /\ c \in Seq(S)  BY <1>4, <1>9
    <2>. QED  BY <2>1, ConcatProperties
  <1>11. InsertAt(s, i, e) = c \o b  BY <1>0, <1>1, <1>2, <1>6, <1>8 DEF InsertAt
  <1>12. Len(c) = i  BY <1>0, <1>3, <1>7, <1>9
  <1>13. Len(c \o b) = n + 1  BY <1>0, <1>4, <1>10, <1>12
  <1>14. ASSUME NEW k \in 1..(Len(s) + 1)
         PROVE  (c \o b)[k] = IF k < i THEN s[k] ELSE IF k = i THEN e ELSE s[k - 1]
    <2>0. k \in 1..(Len(c) + Len(b))  BY <1>0, <1>4, <1>12
    <2>1. CASE k < i
      <3>1. k <= Len(a) /\ k <= Len(c) /\ k \in 1..(i - 1) /\ k \in 1..(Len(a) + Len(m))
        BY <1>0, <1>3, <1>7, <1>12, <2>1
      <3>2. c[k] = s[k]  BY <1>3, <1>9, <3>1
      <3>3. (c \o b)[k] = c[k]  BY <1>10, <2>0, <3>1
      <3>. QED  BY <2>1, <3>2, <3>3
    <2>2. CASE k = i
      <3>1. ~(k <= Len(a)) /\ k <= Len(c) /\ k - Len(a) = 1 /\ k \in 1..(Len(a) + Len(m))
        BY <1>0, <1>3, <1>7, <1>12, <2>2
      <3>2. c[k] = e  BY <1>7, <1>9, <3>1
      <3>3. (c \o b)[k] = c[k]  BY <1>10, <2>0, <3>1
      <3>. QED  BY <1>0, <2>2, <3>2, <3>3
    <2>3. CASE k > i
      <3>1. ~(k <= Len(c)) /\ k - Len(c) = k - i /\ k - i \in 1..(n - i + 1)
        BY <1>0, <1>12, <2>3
      <3>2. i + (k - i) - 1 = k - 1  BY <1>0
      <3>3. b[k - i] = s[i + (k - i) - 1]  BY <1>4, <3>1
      <3>4. (c \o b)[k] = b[k - i]  BY <1>10, <2>0, <3>1
      <3>5. (c \o b)[k] = s[k - 1]  BY <3>2, <3>3, <3>4
      <3>6. ~(k < i) /\ k # i  BY <1>0, <2>3
      <3>. QED  BY <3>5, <3>6
    <2>4. k < i \/ k = i \/ k > i  BY <1>0
    <2>. QED  BY <2>1, <2>2, <2>3, <2>4
  <1>. QED  BY <1>0, <1>10, <1>11, <1>13, <1>14

LEMMA LeastOf ==
  ASSUME NEW I \in SUBSET Nat, I # {}
  PROVE  Min(I) \in I
PROOF
  <1>1. PICK x \in I : \A y \in I : ~(<<y, x>> \in OpToRel(<, Nat))
    BY WFMin, NatLessThanWellFounded
  <1>2. \A y \in I : ~(y < x)
    <2>1. \A y \in I : y < x => <<y, x>> \in OpToRel(<, Nat)
      BY Zenon DEF OpToRel
    <2>. QED  BY <1>1, <2>1
  <1>3. \A y \in I : x <= y  BY <1>2
  <1>. QED  BY <1>3 DEF Min

(* The row that an id means.                                               *)
LEMMA FoundAt ==
  ASSUME NEW S, NEW s \in Seq(S), NEW k \in DOMAIN s
  PROVE  SelectInSeq(s, LAMBDA id : id = s[k]) \in 1..Len(s)
PROOF
  <1>1. PICK I : I = {i \in 1..Len(s) : s[i] = s[k]}  OBVIOUS
  <1>2. k \in I /\ I \subseteq Nat /\ I \subseteq 1..Len(s)  BY <1>1
  <1>3. Min(I) \in I  BY <1>2, LeastOf
  <1>4. SelectInSeq(s, LAMBDA id : id = s[k]) = IF I # {} THEN Min(I) ELSE 0
    BY <1>1 DEF SelectInSeq
  <1>. QED  BY <1>2, <1>3, <1>4

(* Which row was at the place k before one was taken out, or moved.        *)
LeftFrom(k, f) == IF k < f THEN k ELSE k + 1
MovedFrom(k, f, t) ==
  IF k < t THEN LeftFrom(k, f) ELSE IF k = t THEN f ELSE LeftFrom(k - 1, f)

LEMMA MovedIs ==
  ASSUME NEW S, NEW s \in Seq(S), NEW f \in 1..Len(s), NEW t \in 1..Len(s)
  PROVE  /\ arrayMove(s, f, t) \in Seq(S) /\ Len(arrayMove(s, f, t)) = Len(s)
         /\ \A k \in 1..Len(s) : arrayMove(s, f, t)[k] = s[MovedFrom(k, f, t)]
PROOF
  <1>0. PICK n \in Nat : n = Len(s)  BY LenProperties
  <1>1. PICK r : r = RemoveAt(s, f)  OBVIOUS
  <1>2. /\ r \in Seq(S) /\ Len(r) = Len(s) - 1
        /\ \A k \in 1..(Len(s) - 1) : r[k] = s[LeftFrom(k, f)]
    BY <1>1, RemoveAtIs DEF LeftFrom
  <1>3. PICK e \in S : e = s[f]  BY <1>0
  <1>4. t \in 1..(Len(r) + 1)  BY <1>0, <1>2
  <1>5. PICK q : q = InsertAt(r, t, e)  OBVIOUS
  <1>6. /\ q \in Seq(S) /\ Len(q) = Len(r) + 1
        /\ \A k \in 1..(Len(r) + 1) :
             q[k] = IF k < t THEN r[k] ELSE IF k = t THEN e ELSE r[k - 1]
    <2>1. r \in Seq(S)  BY <1>2
    <2>2. /\ InsertAt(r, t, e) \in Seq(S) /\ Len(InsertAt(r, t, e)) = Len(r) + 1
          /\ \A k \in 1..(Len(r) + 1) :
               InsertAt(r, t, e)[k] = IF k < t THEN r[k] ELSE IF k = t THEN e ELSE r[k - 1]
      <3>. HIDE <1>0, <1>1, <1>2, <1>3, <1>5
      <3>. QED  BY <1>4, <2>1, InsertAtIs
    <2>. QED  BY <1>5, <2>2
  <1>7. arrayMove(s, f, t) = q  BY <1>1, <1>3, <1>5 DEF arrayMove
  <1>8. Len(q) = n  BY <1>0, <1>2, <1>6
  <1>9. ASSUME NEW k \in 1..n  PROVE q[k] = s[MovedFrom(k, f, t)]
    <2>0. k \in 1..(Len(r) + 1)  BY <1>0, <1>2
    <2>1. CASE k < t
      <3>1. k \in 1..(Len(s) - 1)  BY <1>0, <2>1
      <3>2. q[k] = r[k]  BY <1>6, <2>0, <2>1
      <3>. QED  BY <1>2, <2>1, <3>1, <3>2 DEF MovedFrom
    <2>2. CASE k = t
      <3>1. ~(k < t)  BY <1>0, <2>2
      <3>2. q[k] = e  BY <1>6, <2>0, <2>2, <3>1
      <3>. QED  BY <1>3, <2>2, <3>1, <3>2 DEF MovedFrom
    <2>3. CASE k > t
      <3>1. ~(k < t) /\ k # t /\ k - 1 \in 1..(Len(s) - 1)  BY <1>0, <2>3
      <3>2. q[k] = r[k - 1]  BY <1>6, <2>0, <3>1
      <3>. QED  BY <1>2, <3>1, <3>2 DEF MovedFrom
    <2>. QED  BY <1>0, <2>1, <2>2, <2>3
  <1>. QED  BY <1>0, <1>6, <1>7, <1>8, <1>9

LEMMA LeftFromIs ==
  ASSUME NEW n \in Nat, NEW f \in 1..n
  PROVE  /\ \A k \in 1..(n - 1) : LeftFrom(k, f) \in 1..n
         /\ \A k, m \in 1..(n - 1) : LeftFrom(k, f) = LeftFrom(m, f) => k = m
  BY DEF LeftFrom

LEMMA MovedFromIs ==
  ASSUME NEW n \in Nat, NEW f \in 1..n, NEW t \in 1..n
  PROVE  /\ \A k \in 1..n : MovedFrom(k, f, t) \in 1..n
         /\ \A k, m \in 1..n : MovedFrom(k, f, t) = MovedFrom(m, f, t) => k = m
  BY DEF MovedFrom, LeftFrom

(* The two lists of one length, the ids of the blocks in the ids' places;  *)
(* the ids of rows that were added are below the next one until a row was  *)
(* taken out, those of the effect have the number of their load.           *)
ListsShape ==
  /\ blocks \in Seq(Blks) /\ rowIds \in Seq(Ids) /\ Len(rowIds) = Len(blocks)
  /\ idCounter \in Nat /\ reloads \in Nat
  /\ shrunk \in BOOLEAN /\ readded \in BOOLEAN

ListsMatch == \A i \in 1..Len(blocks) : rowIds[i] = blocks[i].id

ListsLoads == \A i \in 1..Len(blocks) : rowIds[i][1] <= reloads

ListsBelow ==
  shrunk = FALSE =>
    \A i \in 1..Len(blocks) : rowIds[i][1] = 0 => rowIds[i][2] < idCounter + Len(blocks)

ListsDistinct ==
  readded = FALSE => \A i, j \in 1..Len(blocks) : rowIds[i] = rowIds[j] => i = j

ListsInv == ListsShape /\ ListsMatch /\ ListsLoads /\ ListsBelow /\ ListsDistinct

LEMMA BlockIs ==
  ASSUME NEW b \in Nat \ {0}, NEW id \in Ids
  PROVE  Block(b, id) \in Blks /\ Block(b, id).astray = FALSE /\ Block(b, id).id = id
         /\ Block(b, id).block = b
  BY DEF Block, Blks

LEMMA FreshIs ==
  ASSUME NEW k \in Nat, NEW ns \in Fresh(k)
  PROVE  \A i \in 1..k : ns[i] \in Nat \ {0}
PROOF
  <1>1. PICK free \in SUBSET Numbers : ns \in [1..k -> free]  BY Zenon DEF Fresh
  <1>2. ASSUME NEW i \in 1..k  PROVE ns[i] \in Nat \ {0}
    <2>1. ns[i] \in free  BY <1>1
    <2>2. ns[i] \in 1..MaxBlocks  BY <2>1 DEF Numbers
    <2>3. MaxBlocks \in Nat  BY RowsAssumption
    <2>. QED  BY <2>2, <2>3
  <1>. QED  BY <1>2

LEMMA ListsInitially == RowsInit => ListsInv
PROOF
  <1>. SUFFICES ASSUME RowsInit PROVE ListsInv  OBVIOUS
  <1>1. CASE blocks = <<>>
    <2>1. rowIds = <<>>
      <3>1. DOMAIN blocks = {}  BY <1>1
      <3>2. rowIds = [i \in {} |-> blocks[i].id]  BY <3>1 DEF RowsInit
      <3>. QED  BY <3>2
    <2>2. blocks \in Seq(Blks) /\ rowIds \in Seq(Ids) /\ Len(blocks) = 0 /\ Len(rowIds) = 0
      BY <1>1, <2>1
    <2>3. idCounter = 0 /\ reloads = 0 /\ shrunk = FALSE /\ readded = FALSE  BY DEF RowsInit
    <2>4. ListsShape  BY <2>2, <2>3 DEF ListsShape
    <2>. QED  BY <2>2, <2>4
      DEF ListsInv, ListsMatch, ListsLoads, ListsBelow, ListsDistinct
  <1>2. CASE blocks = <<Block(1, <<0, 0>>), Block(2, <<0, 1>>)>>
    <2>1. PICK b : b = Block(1, <<0, 0>>)  OBVIOUS
    <2>2. PICK c : c = Block(2, <<0, 1>>)  OBVIOUS
    <2>3. b \in Blks /\ c \in Blks /\ b.id = <<0, 0>> /\ c.id = <<0, 1>>
      <3>1. <<0, 0>> \in Ids /\ <<0, 1>> \in Ids  BY DEF Ids
      <3>2. PICK z \in Ids : z = <<0, 0>>  BY <3>1
      <3>3. PICK y \in Ids : y = <<0, 1>>  BY <3>1
      <3>4. b = Block(1, z) /\ c = Block(2, y)  BY <2>1, <2>2, <3>2, <3>3
      <3>5. b \in Blks /\ b.id = z  BY <3>4 DEF Block, Blks
      <3>6. c \in Blks /\ c.id = y  BY <3>4 DEF Block, Blks
      <3>. QED  BY <3>2, <3>3, <3>5, <3>6
    <2>4. blocks = <<b, c>>  BY <1>2, <2>1, <2>2
    <2>5. blocks \in Seq(Blks) /\ Len(blocks) = 2 /\ DOMAIN blocks = 1..2
          /\ blocks[1] = b /\ blocks[2] = c
      BY <2>3, <2>4
    <2>6. rowIds = [i \in 1..2 |-> blocks[i].id]  BY <2>5 DEF RowsInit
    <2>7. rowIds[1] = <<0, 0>> /\ rowIds[2] = <<0, 1>>  BY <2>3, <2>5, <2>6
    <2>8. rowIds \in Seq(Ids) /\ Len(rowIds) = 2
      <3>1. \A i \in 1..2 : blocks[i].id \in Ids  BY <2>3, <2>5 DEF Ids
      <3>2. rowIds \in [1..2 -> Ids]  BY <2>6, <3>1
      <3>. QED  BY <3>2
    <2>9. idCounter = 0 /\ reloads = 0 /\ shrunk = FALSE /\ readded = FALSE  BY DEF RowsInit
    <2>10. ListsShape  BY <2>5, <2>8, <2>9 DEF ListsShape
    <2>11. ListsMatch  BY <2>3, <2>5, <2>7 DEF ListsMatch
    <2>12. ListsLoads  BY <2>5, <2>7, <2>9 DEF ListsLoads
    <2>13. ListsBelow  BY <2>5, <2>7, <2>9 DEF ListsBelow
    <2>14. ListsDistinct  BY <2>5, <2>7 DEF ListsDistinct
    <2>. QED  BY <2>10, <2>11, <2>12, <2>13, <2>14 DEF ListsInv
  <1>. QED  BY <1>1, <1>2 DEF RowsInit

(* Rows of before at other places, by one choice of places for both lists. *)
LEMMA ListsSelected ==
  ASSUME ListsInv, NEW n \in Nat, NEW at \in [1..n -> 1..Len(blocks)],
         \A k, m \in 1..n : at[k] = at[m] => k = m,
         blocks' \in Seq(Blks), Len(blocks') = n, \A k \in 1..n : blocks'[k] = blocks[at[k]],
         rowIds' \in Seq(Ids), Len(rowIds') = n, \A k \in 1..n : rowIds'[k] = rowIds[at[k]],
         idCounter' = idCounter, reloads' = reloads, readded' = readded,
         shrunk' = TRUE \/ (shrunk' = shrunk /\ n = Len(blocks))
  PROVE  ListsInv'
PROOF
  <1>0. ListsShape /\ ListsMatch /\ ListsLoads /\ ListsBelow /\ ListsDistinct  BY DEF ListsInv
  <1>1. ListsShape'  BY <1>0 DEF ListsShape
  <1>2. ListsMatch'  BY <1>0 DEF ListsMatch
  <1>3. ListsLoads'  BY <1>0 DEF ListsLoads
  <1>4. ListsBelow'
    <2>1. CASE shrunk' = TRUE  BY <2>1 DEF ListsBelow
    <2>2. CASE shrunk' = shrunk /\ n = Len(blocks)
      <3>1. Len(blocks') = Len(blocks) /\ at \in [1..n -> 1..n]  BY <2>2
      <3>2. ASSUME shrunk = FALSE, NEW k \in 1..n, rowIds'[k][1] = 0
            PROVE  rowIds'[k][2] < idCounter + n
        BY <1>0, <2>2, <3>2 DEF ListsBelow
      <3>. QED  BY <2>2, <3>1, <3>2 DEF ListsBelow
    <2>. QED  BY <2>1, <2>2
  <1>5. ListsDistinct'  BY <1>0 DEF ListsDistinct
  <1>. QED  BY <1>1, <1>2, <1>3, <1>4, <1>5 DEF ListsInv

LEMMA RemoveSelects ==
  ASSUME ListsInv, NEW i \in DOMAIN blocks, removeAt(i)
  PROVE  /\ ListsInv'
         /\ \E at \in [1..Len(blocks') -> 1..Len(blocks)] :
              \A k \in 1..Len(blocks') : blocks'[k] = blocks[at[k]]
PROOF
  <1>0. /\ blocks \in Seq(Blks) /\ rowIds \in Seq(Ids) /\ Len(rowIds) = Len(blocks)
    BY DEF ListsInv, ListsShape
  <1>1. PICK n \in Nat : n = Len(blocks)  BY <1>0, LenProperties
  <1>2. i \in 1..n  BY <1>0, <1>1, LenProperties
  <1>3. blocks' = RemoveAt(blocks, i) /\ rowIds' = RemoveAt(rowIds, i)
    BY DEF removeAt, IdsWithout
  <1>4. shrunk' = TRUE /\ idCounter' = idCounter /\ reloads' = reloads /\ readded' = readded
    BY DEF removeAt
  <1>5. PICK at \in [1..(n - 1) -> 1..n] : \A k \in 1..(n - 1) : at[k] = LeftFrom(k, i)
    <2>1. [k \in 1..(n - 1) |-> LeftFrom(k, i)] \in [1..(n - 1) -> 1..n]
      BY <1>2, LeftFromIs
    <2>. QED  BY <2>1
  <1>6. \A k, m \in 1..(n - 1) : at[k] = at[m] => k = m  BY <1>2, <1>5, LeftFromIs
  <1>7. /\ blocks' \in Seq(Blks) /\ Len(blocks') = n - 1
        /\ \A k \in 1..(n - 1) : blocks'[k] = blocks[at[k]]
    <2>1. PICK q : q = RemoveAt(blocks, i)  OBVIOUS
    <2>2. /\ q \in Seq(Blks) /\ Len(q) = Len(blocks) - 1
          /\ \A k \in 1..(Len(blocks) - 1) : q[k] = blocks[LeftFrom(k, i)]
      BY <1>0, <1>1, <1>2, <2>1, RemoveAtIs DEF LeftFrom
    <2>. QED  BY <1>1, <1>3, <1>5, <2>1, <2>2
  <1>8. /\ rowIds' \in Seq(Ids) /\ Len(rowIds') = n - 1
        /\ \A k \in 1..(n - 1) : rowIds'[k] = rowIds[at[k]]
    <2>1. PICK q : q = RemoveAt(rowIds, i)  OBVIOUS
    <2>2. /\ q \in Seq(Ids) /\ Len(q) = Len(rowIds) - 1
          /\ \A k \in 1..(Len(rowIds) - 1) : q[k] = rowIds[LeftFrom(k, i)]
      BY <1>0, <1>1, <1>2, <2>1, RemoveAtIs DEF LeftFrom
    <2>. QED  BY <1>0, <1>1, <1>3, <1>5, <2>1, <2>2
  <1>9. n - 1 \in Nat  BY <1>2
  <1>10. ListsInv'  BY <1>1, <1>4, <1>5, <1>6, <1>7, <1>8, <1>9, ListsSelected
  <1>. QED  BY <1>1, <1>5, <1>7, <1>10

LEMMA DragSelects ==
  ASSUME ListsInv, NEW i \in DOMAIN blocks, NEW j \in DOMAIN blocks, handleDragEnd(i, j)
  PROVE  /\ ListsInv'
         /\ \E at \in [1..Len(blocks') -> 1..Len(blocks)] :
              \A k \in 1..Len(blocks') : blocks'[k] = blocks[at[k]]
PROOF
  <1>0. /\ blocks \in Seq(Blks) /\ rowIds \in Seq(Ids) /\ Len(rowIds) = Len(blocks)
    BY DEF ListsInv, ListsShape
  <1>1. PICK n \in Nat : n = Len(blocks)  BY <1>0, LenProperties
  <1>2. i \in DOMAIN rowIds /\ j \in DOMAIN rowIds
    BY <1>0, LenProperties
  <1>3. PICK f : f = SelectInSeq(rowIds, LAMBDA id : id = rowIds[i])  OBVIOUS
  <1>4. PICK t : t = SelectInSeq(rowIds, LAMBDA id : id = rowIds[j])  OBVIOUS
  <1>5. f \in 1..n  BY <1>0, <1>1, <1>2, <1>3, FoundAt
  <1>6. t \in 1..n  BY <1>0, <1>1, <1>2, <1>4, FoundAt
  <1>7. blocks' = arrayMove(blocks, f, t) /\ rowIds' = arrayMove(rowIds, f, t)
    BY <1>3, <1>4 DEF handleDragEnd
  <1>8. shrunk' = shrunk /\ idCounter' = idCounter /\ reloads' = reloads /\ readded' = readded
    BY DEF handleDragEnd
  <1>9. PICK at \in [1..n -> 1..n] : \A k \in 1..n : at[k] = MovedFrom(k, f, t)
    <2>1. [k \in 1..n |-> MovedFrom(k, f, t)] \in [1..n -> 1..n]
      BY <1>5, <1>6, MovedFromIs
    <2>. QED  BY <2>1
  <1>10. \A k, m \in 1..n : at[k] = at[m] => k = m  BY <1>5, <1>6, <1>9, MovedFromIs
  <1>11. /\ blocks' \in Seq(Blks) /\ Len(blocks') = n
         /\ \A k \in 1..n : blocks'[k] = blocks[at[k]]
    BY <1>0, <1>1, <1>5, <1>6, <1>7, <1>9, MovedIs
  <1>12. /\ rowIds' \in Seq(Ids) /\ Len(rowIds') = n
         /\ \A k \in 1..n : rowIds'[k] = rowIds[at[k]]
    BY <1>0, <1>1, <1>5, <1>6, <1>7, <1>9, MovedIs
  <1>13. ListsInv'
    <2>. HIDE <1>0, <1>3, <1>4, <1>5, <1>6, <1>7
    <2>1. at \in [1..n -> 1..Len(blocks)]  BY <1>1
    <2>. QED  BY <1>1, <1>8, <1>10, <1>11, <1>12, <2>1, ListsSelected
  <1>. QED  BY <1>1, <1>9, <1>11, <1>13

LEMMA AddKeeps ==
  ASSUME ListsInv, addContact
  PROVE  /\ ListsInv' /\ Len(blocks') = Len(blocks) + 1
         /\ \A k \in 1..Len(blocks) : blocks'[k] = blocks[k]
         /\ blocks'[Len(blocks) + 1].astray = FALSE
PROOF
  <1>0. ListsShape /\ ListsMatch /\ ListsLoads /\ ListsBelow /\ ListsDistinct  BY DEF ListsInv
  <1>1. PICK n \in Nat : n = Len(blocks)  BY <1>0, LenProperties DEF ListsShape
  <1>2. PICK id \in Ids : id = NewId /\ id[1] = 0 /\ id[2] = idCounter + n
    <2>1. NewId = <<0, idCounter + n>> /\ idCounter + n \in Nat
      BY <1>0, <1>1 DEF NewId, ListsShape
    <2>. QED  BY <2>1 DEF Ids
  <1>3. PICK ns \in Fresh(1) : blocks' = Append(blocks, Block(ns[1], NewId))
    BY DEF addContact
  <1>4. ns[1] \in Nat \ {0}  BY FreshIs
  <1>5. PICK b : b = Block(ns[1], id)  OBVIOUS
  <1>6. b \in Blks /\ b.id = id /\ b.astray = FALSE  BY <1>4, <1>5 DEF Block, Blks
  <1>7. blocks' = Append(blocks, b) /\ rowIds' = Append(rowIds, id)
    BY <1>2, <1>3, <1>5 DEF addContact
  <1>8. idCounter' = idCounter + 1 /\ reloads' = reloads /\ shrunk' = shrunk
    BY DEF addContact
  <1>9. readded' = (readded \/ shrunk)  BY DEF addContact
  <1>10. /\ blocks' \in Seq(Blks) /\ Len(blocks') = n + 1
         /\ \A k \in 1..n : blocks'[k] = blocks[k]
         /\ blocks'[n + 1] = b
    <2>1. blocks \in Seq(Blks)  BY <1>0 DEF ListsShape
    <2>. QED  BY <1>1, <1>6, <1>7, <2>1, AppendProperties
  <1>11. /\ rowIds' \in Seq(Ids) /\ Len(rowIds') = n + 1
         /\ \A k \in 1..n : rowIds'[k] = rowIds[k]
         /\ rowIds'[n + 1] = id
    <2>1. rowIds \in Seq(Ids) /\ Len(rowIds) = n  BY <1>0, <1>1 DEF ListsShape
    <2>. QED  BY <1>2, <1>7, <2>1, AppendProperties
  <1>12. \A k \in 1..(n + 1) : k \in 1..n \/ k = n + 1  BY <1>1
  <1>13. ListsShape'
    <2>1. readded' \in BOOLEAN  BY <1>0, <1>9, Zenon DEF ListsShape
    <2>. QED  BY <1>0, <1>8, <1>10, <1>11, <2>1 DEF ListsShape
  <1>14. ListsMatch'  BY <1>0, <1>1, <1>6, <1>10, <1>11, <1>12 DEF ListsMatch
  <1>15. ListsLoads'  BY <1>0, <1>1, <1>2, <1>8, <1>10, <1>11, <1>12 DEF ListsLoads, ListsShape
  <1>16. ListsBelow'
    <2>1. SUFFICES ASSUME shrunk = FALSE, NEW k \in 1..(n + 1), rowIds'[k][1] = 0
                   PROVE  rowIds'[k][2] < idCounter + 1 + (n + 1)
      BY <1>8, <1>10 DEF ListsBelow
    <2>2. CASE k = n + 1  BY <1>0, <1>1, <1>2, <1>11, <2>2 DEF ListsShape
    <2>3. CASE k \in 1..n
      <3>1. rowIds'[k] = rowIds[k] /\ rowIds[k] \in Ids
        BY <1>0, <1>1, <1>11, <2>3 DEF ListsShape
      <3>2. rowIds[k][2] < idCounter + n  BY <1>0, <1>1, <2>1, <2>3, <3>1 DEF ListsBelow
      <3>. QED  BY <1>0, <1>1, <3>1, <3>2 DEF ListsShape, Ids
    <2>. QED  BY <1>12, <2>2, <2>3
  <1>17. ListsDistinct'
    <2>1. SUFFICES ASSUME readded' = FALSE, NEW i \in 1..(n + 1), NEW j \in 1..(n + 1),
                          rowIds'[i] = rowIds'[j]
                   PROVE  i = j
      BY <1>10 DEF ListsDistinct
    <2>2. readded = FALSE /\ shrunk = FALSE
      <3>1. ~(readded \/ shrunk)  BY <1>9, <2>1
      <3>. QED  BY <1>0, <3>1, Zenon DEF ListsShape
    <2>3. ASSUME NEW k \in 1..n  PROVE rowIds[k] # id
      BY <1>0, <1>1, <1>2, <2>2 DEF ListsBelow, ListsShape
    <2>4. CASE i \in 1..n /\ j \in 1..n
      BY <1>0, <1>1, <1>11, <2>1, <2>2, <2>4 DEF ListsDistinct
    <2>5. CASE i = n + 1 \/ j = n + 1  BY <1>11, <1>12, <2>1, <2>3, <2>5
    <2>. QED  BY <1>12, <2>4, <2>5
  <1>. QED  BY <1>1, <1>6, <1>10, <1>13, <1>14, <1>15, <1>16, <1>17 DEF ListsInv

LEMMA ReplacedKeeps ==
  ASSUME ListsInv, Replaced
  PROVE  /\ ListsInv'
         /\ \A i \in 1..Len(blocks') : blocks'[i].astray = FALSE
PROOF
  <1>0. ListsShape /\ ListsMatch /\ ListsLoads /\ ListsBelow /\ ListsDistinct  BY DEF ListsInv
  <1>1. PICK n \in Nat : n = Len(blocks)  BY <1>0, LenProperties DEF ListsShape
  <1>2. PICK m \in Nat : m = reloads + 1  BY <1>0 DEF ListsShape
  <1>a. PICK k \in 0..2 :
          /\ rowIds' = [i \in 1..k |-> IF i <= Len(rowIds) THEN rowIds[i] ELSE <<m, i>>]
          /\ \E ns \in Fresh(k) :
               blocks' = [i \in 1..k |->
                            Block(ns[i], IF i <= Len(rowIds) THEN rowIds[i] ELSE <<m, i>>)]
          /\ shrunk' = (shrunk \/ k < Len(blocks))
    BY <1>2 DEF Replaced
  <1>b. PICK ids : ids = [i \in 1..k |-> IF i <= Len(rowIds) THEN rowIds[i] ELSE <<m, i>>]
    OBVIOUS
  <1>3. /\ k \in 0..2
        /\ ids = [i \in 1..k |-> IF i <= Len(rowIds) THEN rowIds[i] ELSE <<m, i>>]
        /\ rowIds' = ids
        /\ \E ns \in Fresh(k) :
             blocks' = [i \in 1..k |->
                          Block(ns[i], IF i <= Len(rowIds) THEN rowIds[i] ELSE <<m, i>>)]
        /\ shrunk' = (shrunk \/ k < Len(blocks))
    BY <1>a, <1>b
  <1>4. reloads' = m /\ idCounter' = idCounter /\ readded' = readded
    BY <1>2 DEF Replaced
  <1>5. k \in Nat  BY <1>3
  <1>6. ASSUME NEW i \in 1..k
        PROVE  /\ ids[i] \in Ids
               /\ i \in 1..n => ids[i] = rowIds[i]
               /\ i \notin 1..n => ids[i] = <<m, i>>
    <2>1. Len(rowIds) = n /\ rowIds \in Seq(Ids)  BY <1>0, <1>1 DEF ListsShape
    <2>2. CASE i \in 1..n
      <3>1. ids[i] = rowIds[i]  BY <1>1, <1>3, <2>1, <2>2
      <3>2. rowIds[i] \in Ids  BY <2>1, <2>2, ElementOfSeq
      <3>. QED  BY <2>2, <3>1, <3>2
    <2>3. CASE i \notin 1..n
      <3>1. ids[i] = <<m, i>>  BY <1>1, <1>3, <1>5, <2>1, <2>3
      <3>. QED  BY <1>5, <2>3, <3>1 DEF Ids
    <2>. QED  BY <2>2, <2>3
  <1>7. PICK ns \in Fresh(k) : blocks' = [i \in 1..k |-> Block(ns[i], ids[i])]
    <2>1. PICK ns \in Fresh(k) :
            blocks' = [i \in 1..k |->
                         Block(ns[i], IF i <= Len(rowIds) THEN rowIds[i] ELSE <<m, i>>)]
      BY <1>3
    <2>2. \A i \in 1..k : ids[i] = IF i <= Len(rowIds) THEN rowIds[i] ELSE <<m, i>>
      BY <1>3
    <2>. QED  BY <2>1, <2>2
  <1>8. ASSUME NEW i \in 1..k
        PROVE  blocks'[i] \in Blks /\ blocks'[i].id = ids[i] /\ blocks'[i].astray = FALSE
    <2>1. ns[i] \in Nat \ {0}  BY <1>5, FreshIs
    <2>2. ids[i] \in Ids  BY <1>6
    <2>3. blocks'[i] = Block(ns[i], ids[i])  BY <1>7
    <2>. QED  BY <2>1, <2>2, <2>3 DEF Block, Blks
  <1>9. blocks' \in Seq(Blks) /\ Len(blocks') = k
    <2>1. PICK bs : bs = blocks'  OBVIOUS
    <2>2. bs \in [1..k -> Blks]
      <3>1. bs = [i \in 1..k |-> bs[i]]  BY <1>7, <2>1
      <3>2. \A i \in 1..k : bs[i] \in Blks  BY <1>8, <2>1
      <3>. QED  BY <3>1, <3>2
    <2>. QED  BY <1>5, <2>1, <2>2
  <1>10. rowIds' \in Seq(Ids) /\ Len(rowIds') = k
    <2>1. ids \in [1..k -> Ids]  BY <1>3, <1>6
    <2>2. rowIds' = ids  BY <1>3
    <2>. QED  BY <1>5, <2>1, <2>2
  <1>11. rowIds' = ids  BY <1>3
  <1>12. shrunk' \in BOOLEAN /\ (shrunk' = FALSE => shrunk = FALSE /\ ~(k < n))
    BY <1>0, <1>1, <1>3, Zenon DEF ListsShape
  <1>13. ListsShape'  BY <1>0, <1>2, <1>4, <1>9, <1>10, <1>12 DEF ListsShape
  <1>14. ListsMatch'  BY <1>8, <1>9, <1>11 DEF ListsMatch
  <1>15. ASSUME NEW i \in 1..k  PROVE i \notin 1..n => ids[i][1] = m /\ ids[i][2] = i
    BY <1>6
  <1>16. ListsLoads'
    <2>1. SUFFICES ASSUME NEW i \in 1..k  PROVE ids[i][1] <= m
      BY <1>4, <1>9, <1>11 DEF ListsLoads
    <2>2. CASE i \in 1..n
      <3>1. ids[i] = rowIds[i] /\ rowIds[i][1] <= reloads /\ ids[i] \in Ids
        BY <1>0, <1>1, <1>6, <2>2 DEF ListsLoads
      <3>. QED  BY <1>0, <1>2, <3>1 DEF ListsShape, Ids
    <2>3. CASE i \notin 1..n  BY <1>15, <2>3
    <2>. QED  BY <2>2, <2>3
  <1>17. ListsBelow'
    <2>1. SUFFICES ASSUME shrunk' = FALSE, NEW i \in 1..k, ids[i][1] = 0
                   PROVE  ids[i][2] < idCounter + k
      BY <1>4, <1>9, <1>11 DEF ListsBelow
    <2>2. shrunk = FALSE /\ n <= k  BY <1>1, <1>5, <1>12, <2>1
    <2>3. i \in 1..n
      <3>1. m # 0  BY <1>0, <1>2 DEF ListsShape
      <3>. QED  BY <1>15, <2>1, <3>1
    <2>4. ids[i] = rowIds[i] /\ ids[i] \in Ids  BY <1>6, <2>3
    <2>5. rowIds[i][2] < idCounter + n  BY <1>0, <1>1, <2>1, <2>2, <2>3, <2>4 DEF ListsBelow
    <2>. QED  BY <1>0, <1>1, <1>5, <2>2, <2>4, <2>5 DEF ListsShape, Ids
  <1>18. ListsDistinct'
    <2>1. SUFFICES ASSUME readded = FALSE, NEW i \in 1..k, NEW j \in 1..k, ids[i] = ids[j]
                   PROVE  i = j
      BY <1>4, <1>9, <1>11 DEF ListsDistinct
    <2>2. ASSUME NEW x \in 1..k, x \in 1..n  PROVE ids[x][1] # m
      <3>1. ids[x] = rowIds[x] /\ rowIds[x][1] <= reloads /\ ids[x] \in Ids
        BY <1>0, <1>1, <1>6, <2>2 DEF ListsLoads
      <3>. QED  BY <1>0, <1>2, <3>1 DEF ListsShape, Ids
    <2>3. CASE i \in 1..n /\ j \in 1..n
      BY <1>0, <1>1, <1>6, <2>1, <2>3 DEF ListsDistinct
    <2>4. CASE i \notin 1..n \/ j \notin 1..n  BY <1>15, <2>1, <2>2, <2>4
    <2>. QED  BY <2>3, <2>4
  <1>. QED  BY <1>8, <1>9, <1>13, <1>14, <1>16, <1>17, <1>18 DEF ListsInv

(* A name that is set leaves the ids alone.                                *)
LEMMA AppliedKeeps ==
  ASSUME ListsInv, NEW p \in Places, NEW owner, applyPickedLabel(p, owner),
         UNCHANGED <<rowIds, idCounter, reloads, shrunk, readded>>
  PROVE  ListsInv'
PROOF
  <1>0. ListsShape /\ ListsMatch /\ ListsLoads /\ ListsBelow /\ ListsDistinct  BY DEF ListsInv
  <1>1. PICK n \in Nat : n = Len(blocks) /\ DOMAIN blocks = 1..n
    BY <1>0, LenProperties DEF ListsShape
  <1>2. PICK q \in BOOLEAN : q = (owner # OwnerOf(p))  OBVIOUS
  <1>3. blocks' = [i \in 1..n |-> IF p.kind = "row" /\ p.at = i
                                  THEN [blocks[i] EXCEPT !.astray = q] ELSE blocks[i]]
    BY <1>1, <1>2 DEF applyPickedLabel
  <1>4. ASSUME NEW i \in 1..n  PROVE blocks'[i] \in Blks /\ blocks'[i].id = blocks[i].id
    <2>1. blocks[i] \in Blks  BY <1>0, <1>1, ElementOfSeq DEF ListsShape
    <2>2. blocks'[i] = blocks[i] \/ blocks'[i] = [blocks[i] EXCEPT !.astray = q]  BY <1>3
    <2>. QED  BY <2>1, <2>2 DEF Blks
  <1>5. blocks' \in Seq(Blks) /\ Len(blocks') = n
    <2>1. PICK bs : bs = blocks'  OBVIOUS
    <2>2. bs = [i \in 1..n |-> bs[i]]  BY <1>3, <2>1
    <2>3. bs \in [1..n -> Blks]  BY <1>4, <2>1, <2>2
    <2>. QED  BY <2>1, <2>3
  <1>6. ListsShape'  BY <1>0, <1>1, <1>5 DEF ListsShape
  <1>7. ListsMatch'  BY <1>0, <1>1, <1>4, <1>5 DEF ListsMatch
  <1>8. ListsLoads'  BY <1>0, <1>1, <1>5 DEF ListsLoads
  <1>9. ListsBelow'  BY <1>0, <1>1, <1>5 DEF ListsBelow
  <1>10. ListsDistinct'  BY <1>0, <1>1, <1>5 DEF ListsDistinct
  <1>. QED  BY <1>6, <1>7, <1>8, <1>9, <1>10 DEF ListsInv

LEMMA ListsRest ==
  ASSUME ListsInv, UNCHANGED <<blocks, rowIds, idCounter, reloads, shrunk, readded>>
  PROVE  ListsInv'
  BY DEF ListsInv, ListsShape, ListsMatch, ListsLoads, ListsBelow, ListsDistinct

(* A name on its way is for the place it goes to, unless the rows have     *)
(* moved since, and then it is for whom it finds there.                    *)
Owned == [kind : {"row", "key"}, of : Nat \cup FieldKeys]
Named == [place : Places, owner : Owned, moved : BOOLEAN]

RowKept(c) ==
  c.place.kind = "row" /\ c.moved = FALSE =>
    /\ c.place.at \in 1..Len(blocks)
    /\ c.owner = [kind |-> "row", of |-> blocks[c.place.at].block]

NamesHeld ==
  /\ picker \subseteq Places /\ creating \subseteq Named
  /\ \A c \in creating :
       c.place.kind = "key" => c.owner = [kind |-> "key", of |-> c.place.at]
  /\ \A c \in creating : RowKept(c)

NamesHome == fieldsAstray = {} /\ \A i \in 1..Len(blocks) : blocks[i].astray = FALSE

NamesInv == NamesHeld /\ NamesHome

LEMMA OwnerIs ==
  ASSUME ListsInv, NEW p \in Places
  PROVE  /\ OwnerOf(p) \in Owned
         /\ p.kind = "key" => OwnerOf(p) = [kind |-> "key", of |-> p.at]
         /\ p.kind = "row" /\ p.at \in 1..Len(blocks) =>
              OwnerOf(p) = [kind |-> "row", of |-> blocks[p.at].block] /\ OwnerOf(p).of # 0
         /\ p.kind = "row" /\ p.at \notin 1..Len(blocks) => OwnerOf(p).of = 0
PROOF
  <1>1. blocks \in Seq(Blks) /\ DOMAIN blocks = 1..Len(blocks)
    BY LenProperties DEF ListsInv, ListsShape
  <1>2. CASE p.kind = "key"
    <2>1. p.at \in FieldKeys  BY <1>2 DEF Places
    <2>2. OwnerOf(p) = [kind |-> "key", of |-> p.at]  BY <1>2 DEF OwnerOf
    <2>. QED  BY <1>2, <2>1, <2>2 DEF Owned
  <1>3. CASE p.kind = "row"
    <2>1. CASE p.at \in 1..Len(blocks)
      <3>1. PICK b \in Blks : b = blocks[p.at]  BY <1>1, <2>1, ElementOfSeq
      <3>2. OwnerOf(p) = [kind |-> "row", of |-> b.block]
        BY <1>1, <1>3, <2>1, <3>1 DEF OwnerOf
      <3>3. b.block \in Nat \ {0}  BY DEF Blks
      <3>4. OwnerOf(p) \in Owned /\ OwnerOf(p).of # 0  BY <3>2, <3>3 DEF Owned
      <3>. QED  BY <1>3, <2>1, <3>1, <3>2, <3>4
    <2>2. CASE p.at \notin 1..Len(blocks)
      <3>1. OwnerOf(p) = [kind |-> "row", of |-> 0]  BY <1>1, <1>3, <2>2 DEF OwnerOf
      <3>. QED  BY <1>3, <2>2, <3>1 DEF Owned
    <2>. QED  BY <2>1, <2>2
  <1>. QED  BY <1>2, <1>3 DEF Places

LEMMA NamesInitially == RowsInit => NamesInv
PROOF
  <1>. SUFFICES ASSUME RowsInit PROVE NamesInv  OBVIOUS
  <1>1. fieldsAstray = {} /\ picker = {} /\ creating = {}  BY DEF RowsInit
  <1>2. \A i \in 1..Len(blocks) : blocks[i].astray = FALSE
    <2>1. CASE blocks = <<>>  BY <2>1
    <2>2. CASE blocks = <<Block(1, <<0, 0>>), Block(2, <<0, 1>>)>>
      <3>1. Len(blocks) = 2 /\ blocks[1] = Block(1, <<0, 0>>) /\ blocks[2] = Block(2, <<0, 1>>)
        BY <2>2
      <3>2. Block(1, <<0, 0>>).astray = FALSE /\ Block(2, <<0, 1>>).astray = FALSE  BY DEF Block
      <3>. QED  BY <3>1, <3>2
    <2>. QED  BY <2>1, <2>2 DEF RowsInit
  <1>. QED  BY <1>1, <1>2 DEF NamesInv, NamesHeld, NamesHome

LEMMA NamesShifted ==
  ASSUME NamesInv, creating' = Shifted, picker' = picker, NamesHome'
  PROVE  NamesInv'
PROOF
  <1>1. ASSUME NEW d \in creating'
        PROVE  /\ d \in Named /\ d.moved = TRUE
               /\ d.place.kind = "key" => d.owner = [kind |-> "key", of |-> d.place.at]
    <2>1. PICK c \in creating : d = [c EXCEPT !.moved = TRUE]  BY <1>1 DEF Shifted
    <2>2. c \in Named  BY DEF NamesInv, NamesHeld
    <2>3. d \in Named /\ d.moved = TRUE /\ d.place = c.place /\ d.owner = c.owner
      BY <2>1, <2>2 DEF Named
    <2>. QED  BY <2>3 DEF NamesInv, NamesHeld
  <1>2. creating' \subseteq Named  BY <1>1
  <1>3. \A d \in creating' : RowKept(d)'  BY <1>1 DEF RowKept
  <1>. QED  BY <1>1, <1>2, <1>3 DEF NamesInv, NamesHeld

LEMMA NamesRest ==
  ASSUME NamesInv, picker' \subseteq Places, UNCHANGED <<blocks, fieldsAstray, creating>>
  PROVE  NamesInv'
  BY DEF NamesInv, NamesHeld, NamesHome, RowKept

(* What is applied for the owner of the place goes home.                   *)
LEMMA AppliedHome ==
  ASSUME ListsInv, NamesInv, NEW p \in Places, applyPickedLabel(p, OwnerOf(p))
  PROVE  /\ NamesHome' /\ Len(blocks') = Len(blocks)
         /\ \A i \in 1..Len(blocks) : blocks'[i].block = blocks[i].block
PROOF
  <1>0. blocks \in Seq(Blks)  BY DEF ListsInv, ListsShape
  <1>1. PICK n \in Nat : n = Len(blocks) /\ DOMAIN blocks = 1..n  BY <1>0, LenProperties
  <1>2. blocks' = [i \in 1..n |-> IF p.kind = "row" /\ p.at = i
                                  THEN [blocks[i] EXCEPT !.astray = FALSE] ELSE blocks[i]]
    <2>1. (OwnerOf(p) # OwnerOf(p)) = FALSE  OBVIOUS
    <2>. QED  BY <1>1, <2>1 DEF applyPickedLabel
  <1>3. ASSUME NEW i \in 1..n
        PROVE  blocks'[i].astray = FALSE /\ blocks'[i].block = blocks[i].block
               /\ blocks'[i] \in Blks
    <2>1. blocks[i] \in Blks /\ blocks[i].astray = FALSE
      BY <1>0, <1>1, ElementOfSeq DEF NamesInv, NamesHome
    <2>2. blocks'[i] = blocks[i] \/ blocks'[i] = [blocks[i] EXCEPT !.astray = FALSE]  BY <1>2
    <2>. QED  BY <2>1, <2>2 DEF Blks
  <1>4. Len(blocks') = n
    <2>1. PICK bs : bs = blocks'  OBVIOUS
    <2>2. bs = [i \in 1..n |-> bs[i]]  BY <1>2, <2>1
    <2>3. bs \in [1..n -> Blks]  BY <1>3, <2>1, <2>2
    <2>. QED  BY <2>1, <2>3
  <1>5. fieldsAstray' = {}
    <2>1. fieldsAstray = {}  BY DEF NamesInv, NamesHome
    <2>. QED  BY <2>1 DEF applyPickedLabel
  <1>. QED  BY <1>1, <1>3, <1>4, <1>5 DEF NamesHome

LEMMA SelectedHome ==
  ASSUME ListsInv, NamesInv, fieldsAstray' = fieldsAstray,
         NEW at \in [1..Len(blocks') -> 1..Len(blocks)],
         \A k \in 1..Len(blocks') : blocks'[k] = blocks[at[k]]
  PROVE  NamesHome'
  BY DEF NamesInv, NamesHome

LEMMA NamesAdded ==
  ASSUME ListsInv, NamesInv, addContact  PROVE NamesInv'
PROOF
  <1>1. /\ Len(blocks') = Len(blocks) + 1
        /\ \A k \in 1..Len(blocks) : blocks'[k] = blocks[k]
        /\ blocks'[Len(blocks) + 1].astray = FALSE
    BY AddKeeps
  <1>2. PICK n \in Nat : n = Len(blocks)  BY LenProperties DEF ListsInv, ListsShape
  <1>3. UNCHANGED <<fieldsAstray, picker, creating>>  BY DEF addContact
  <1>4. NamesHome'  BY <1>1, <1>2, <1>3 DEF NamesInv, NamesHome
  <1>5. ASSUME NEW c \in creating  PROVE RowKept(c)'
    <2>1. SUFFICES ASSUME c.place.kind = "row", c.moved = FALSE
                   PROVE  /\ c.place.at \in 1..Len(blocks')
                          /\ c.owner = [kind |-> "row", of |-> blocks'[c.place.at].block]
      BY DEF RowKept
    <2>2. /\ c.place.at \in 1..Len(blocks)
          /\ c.owner = [kind |-> "row", of |-> blocks[c.place.at].block]
      BY <2>1 DEF RowKept, NamesInv, NamesHeld
    <2>. QED  BY <1>1, <1>2, <2>2
  <1>. QED  BY <1>3, <1>4, <1>5 DEF NamesInv, NamesHeld

LEMMA NamesCreated ==
  ASSUME ListsInv, NamesInv, handleCreate  PROVE NamesInv'
PROOF
  <1>1. PICK p \in picker :
          creating' = {[place |-> p, owner |-> OwnerOf(p), moved |-> OwnerOf(p).of = 0]}
    BY DEF handleCreate
  <1>2. PICK gone \in BOOLEAN : gone = (OwnerOf(p).of = 0)  OBVIOUS
  <1>3. PICK o : o = OwnerOf(p)  OBVIOUS
  <1>4. creating' = {[place |-> p, owner |-> o, moved |-> gone]}
    BY <1>1, <1>2, <1>3, Zenon
  <1>5. p \in Places  BY DEF NamesInv, NamesHeld
  <1>6. /\ o \in Owned
        /\ p.kind = "key" => o = [kind |-> "key", of |-> p.at]
        /\ p.kind = "row" /\ p.at \in 1..Len(blocks) =>
             o = [kind |-> "row", of |-> blocks[p.at].block]
        /\ p.kind = "row" /\ p.at \notin 1..Len(blocks) => gone = TRUE
    BY <1>2, <1>3, <1>5, OwnerIs
  <1>7. UNCHANGED <<blocks, fieldsAstray, picker>>  BY DEF handleCreate
  <1>8. ASSUME NEW c \in creating'
        PROVE  /\ c \in Named /\ c.place = p /\ c.owner = o /\ c.moved = gone
    BY <1>4, <1>5, <1>6 DEF Named
  <1>9. \A c \in creating' : RowKept(c)'
    BY <1>6, <1>7, <1>8 DEF RowKept
  <1>. QED  BY <1>6, <1>7, <1>8, <1>9 DEF NamesInv, NamesHeld, NamesHome

LEMMA NamesPicked ==
  ASSUME ListsInv, NamesInv, handlePick  PROVE ListsInv' /\ NamesInv'
PROOF
  <1>1. PICK p \in picker : applyPickedLabel(p, OwnerOf(p))  BY DEF handlePick
  <1>2. p \in Places  BY DEF NamesInv, NamesHeld
  <1>3. UNCHANGED <<rowIds, idCounter, reloads, creating, shrunk, readded>> /\ picker' = {}
    BY DEF handlePick
  <1>4. ListsInv'  BY <1>1, <1>2, <1>3, AppliedKeeps
  <1>5. /\ NamesHome' /\ Len(blocks') = Len(blocks)
        /\ \A i \in 1..Len(blocks) : blocks'[i].block = blocks[i].block
    BY <1>1, <1>2, AppliedHome
  <1>6. ASSUME NEW c \in creating  PROVE RowKept(c)'
    BY <1>5 DEF RowKept, NamesInv, NamesHeld
  <1>. QED  BY <1>3, <1>4, <1>5, <1>6 DEF NamesInv, NamesHeld

LEMMA NamesAnswered ==
  ASSUME ListsInv, NamesInv, CreateAnswered  PROVE ListsInv' /\ NamesInv'
PROOF
  <1>1. creating' = {} /\ UNCHANGED <<rowIds, idCounter, reloads, shrunk, readded>>
    BY DEF CreateAnswered
  <1>2. CASE UNCHANGED <<blocks, fieldsAstray, picker, draftName>>
    BY <1>1, <1>2, ListsRest DEF NamesInv, NamesHeld, NamesHome
  <1>3. ASSUME NEW c \in creating,
               applyPickedLabel(PlaceAtClick(c),
                                IF c.moved /\ c.place.kind = "row" THEN OwnerOf(c.place)
                                ELSE c.owner),
               picker' = {}
        PROVE  ListsInv' /\ NamesInv'
    <2>1. c \in Named  BY DEF NamesInv, NamesHeld
    <2>2. PICK p \in Places : p = c.place  BY <2>1 DEF Named
    <2>3. c.moved \in BOOLEAN /\ p.kind \in {"row", "key"}  BY <2>1 DEF Named, Places
    <2>4. (IF c.moved /\ c.place.kind = "row" THEN OwnerOf(c.place) ELSE c.owner) = OwnerOf(p)
      <3>1. CASE p.kind = "key"
        <4>1. c.owner = [kind |-> "key", of |-> p.at]
          BY <2>2, <3>1 DEF NamesInv, NamesHeld
        <4>2. OwnerOf(p) = [kind |-> "key", of |-> p.at]  BY <3>1, OwnerIs
        <4>3. ~(c.moved /\ c.place.kind = "row")  BY <2>2, <3>1
        <4>. QED  BY <4>1, <4>2, <4>3
      <3>2. CASE p.kind = "row" /\ c.moved = TRUE  BY <2>2, <3>2
      <3>3. CASE p.kind = "row" /\ c.moved = FALSE
        <4>1. RowKept(c)  BY DEF NamesInv, NamesHeld
        <4>2. p.at \in 1..Len(blocks) /\ c.owner = [kind |-> "row", of |-> blocks[p.at].block]
          BY <2>2, <3>3, <4>1 DEF RowKept
        <4>3. OwnerOf(p) = [kind |-> "row", of |-> blocks[p.at].block]
          BY <3>3, <4>2, OwnerIs
        <4>. QED  BY <3>3, <4>2, <4>3
      <3>. QED  BY <2>3, <3>1, <3>2, <3>3
    <2>5. applyPickedLabel(p, OwnerOf(p))  BY <1>3, <2>2, <2>4 DEF PlaceAtClick
    <2>6. ListsInv'  BY <1>1, <2>5, AppliedKeeps
    <2>7. NamesHome'  BY <2>5, AppliedHome
    <2>. QED  BY <1>1, <1>3, <2>6, <2>7 DEF NamesInv, NamesHeld
  <1>. QED  BY <1>2, <1>3 DEF CreateAnswered

LEMMA RowsKept ==
  ListsInv /\ NamesInv /\ [BlockRowsNext]_rowVars => ListsInv' /\ NamesInv'
PROOF
  <1>. SUFFICES ASSUME ListsInv, NamesInv, [BlockRowsNext]_rowVars
                PROVE  ListsInv' /\ NamesInv'
    OBVIOUS
  <1>1. CASE addContact  BY <1>1, AddKeeps, NamesAdded
  <1>2. CASE Replaced
    <2>1. ListsInv' /\ \A i \in 1..Len(blocks') : blocks'[i].astray = FALSE
      BY <1>2, ReplacedKeeps
    <2>2. fieldsAstray' = fieldsAstray /\ picker' = picker /\ creating' = Shifted
      BY <1>2 DEF Replaced
    <2>3. NamesHome'  BY <2>1, <2>2 DEF NamesInv, NamesHome
    <2>. QED  BY <2>1, <2>2, <2>3, NamesShifted
  <1>3. ASSUME NEW i \in DOMAIN blocks, removeAt(i)  PROVE ListsInv' /\ NamesInv'
    <2>1. fieldsAstray' = fieldsAstray /\ picker' = picker /\ creating' = Shifted
      BY <1>3 DEF removeAt
    <2>2. ListsInv'  BY <1>3, RemoveSelects
    <2>3. NamesHome'  BY <1>3, <2>1, RemoveSelects, SelectedHome
    <2>. QED  BY <2>1, <2>2, <2>3, NamesShifted
  <1>4. ASSUME NEW i \in DOMAIN blocks, NEW j \in DOMAIN blocks, handleDragEnd(i, j)
        PROVE  ListsInv' /\ NamesInv'
    <2>1. fieldsAstray' = fieldsAstray /\ picker' = picker /\ creating' = Shifted
      BY <1>4 DEF handleDragEnd
    <2>2. ListsInv'  BY <1>4, DragSelects
    <2>3. NamesHome'  BY <1>4, <2>1, DragSelects, SelectedHome
    <2>. QED  BY <2>1, <2>2, <2>3, NamesShifted
  <1>5. CASE openPicker
    <2>1. UNCHANGED <<blocks, rowIds, idCounter, reloads, fieldsAstray, creating, shrunk, readded>>
      BY <1>5 DEF openPicker
    <2>2. picker' \subseteq Places
      <3>1. ASSUME NEW i \in DOMAIN blocks, picker' = {[kind |-> "row", at |-> i]}
            PROVE  picker' \subseteq Places
        <4>1. i \in Nat  BY LenProperties DEF ListsInv, ListsShape
        <4>. QED  BY <3>1, <4>1 DEF Places
      <3>2. ASSUME NEW k \in FieldKeys, picker' = {[kind |-> "key", at |-> k]}
            PROVE  picker' \subseteq Places
        BY <3>2 DEF Places
      <3>. QED  BY <1>5, <3>1, <3>2 DEF openPicker
    <2>. QED  BY <2>1, <2>2, ListsRest, NamesRest
  <1>6. CASE DraftTyped \/ SheetClosed \/ UNCHANGED rowVars
    <2>1. UNCHANGED <<blocks, rowIds, idCounter, reloads, fieldsAstray, creating, shrunk, readded>>
          /\ (picker' = picker \/ picker' = {})
      BY <1>6 DEF DraftTyped, SheetClosed, rowVars
    <2>2. picker' \subseteq Places  BY <2>1 DEF NamesInv, NamesHeld
    <2>. QED  BY <2>1, <2>2, ListsRest, NamesRest
  <1>7. CASE handlePick  BY <1>7, NamesPicked
  <1>8. CASE handleCreate
    <2>1. UNCHANGED <<blocks, rowIds, idCounter, reloads, shrunk, readded>>
      BY <1>8 DEF handleCreate
    <2>. QED  BY <1>8, <2>1, ListsRest, NamesCreated
  <1>9. CASE CreateAnswered  BY <1>9, NamesAnswered
  <1>. QED  BY <1>1, <1>2, <1>3, <1>4, <1>5, <1>6, <1>7, <1>8, <1>9 DEF BlockRowsNext

(* The ids follow the blocks and are distinct as far as they are promised  *)
(* to be, and names go home.                                               *)
LEMMA RowsHome ==
  ListsInv /\ NamesInv => IdsFollowBlocks /\ IdsDistinct /\ NamesGoHome
PROOF
  <1>. SUFFICES ASSUME ListsInv, NamesInv
                PROVE  IdsFollowBlocks /\ IdsDistinct /\ NamesGoHome
    OBVIOUS
  <1>1. /\ DOMAIN blocks = 1..Len(blocks) /\ DOMAIN rowIds = 1..Len(blocks)
        /\ Len(rowIds) = Len(blocks) /\ readded \in BOOLEAN
    BY LenProperties DEF ListsInv, ListsShape
  <1>2. IdsFollowBlocks  BY <1>1 DEF IdsFollowBlocks, ListsInv, ListsMatch
  <1>3. IdsDistinct  BY <1>1 DEF IdsDistinct, ListsInv, ListsDistinct
  <1>4. NamesGoHome  BY <1>1 DEF NamesGoHome, NamesInv, NamesHome
  <1>. QED  BY <1>2, <1>3, <1>4

HIDE RowsAssumption

-----------------------------------------------------------------------------
(* The editor of a card                                                    *)

USE EditorAssumption

EditorShape ==
  /\ mode \in {"create", "edit", "left"} /\ fetch \in {"none", "sent", "answered"}
  /\ server \in [Inputs -> Int] /\ cache \in [Inputs -> Int] /\ coming \in [Inputs -> Int]
  /\ draft \in [Inputs -> Int] /\ screen \in [Inputs -> Int] /\ base \in [Inputs -> Int]
  /\ interacted \in BOOLEAN /\ quiet \in BOOLEAN /\ bypass \in BOOLEAN
  /\ success \in BOOLEAN /\ uncertain \in BOOLEAN
  /\ changes \subseteq [to : Int, prev : Int] /\ foreign \in Nat

(* A save has begun with an approval, or with what the page had been shown;*)
(* only a new card is created.                                             *)
CritSafe ==
  /\ dialog \in {"approve", "slug"} => saving = "no"
  /\ dialog = "slug" \/ saving \in {"create", "photo", "logo"} => mode = "create"
  /\ saving = "update" => draft["critical"] \in {approved, seen} \/ seen = -1

(* The flag is up for every input that is not excused.                     *)
LossSafe ==
  /\ success = TRUE => interacted = FALSE
  /\ interacted = FALSE =>
       \A f \in Inputs : screen[f] # base[f] /\ (mode = "edit" => f # "logo") => f \in excused
  /\ changes # {} => mode = "edit"

(* What is fetched, on record and shown as the logo is what is stored.     *)
LoadedTrue ==
  /\ \A f \in Inputs \ {"logo"} : base[f] = server[f]
  /\ changes = {} => screen["logo"] = server["logo"]
  /\ \A c \in changes : c.prev = server["logo"] /\ c.to = screen["logo"]
  /\ \A c, d \in changes : c = d

TrueSafe ==
  mode = "edit" /\ foreign = 0 /\ uncertain = FALSE =>
    /\ fetch = "answered" => coming = server
    /\ fetch = "none" => LoadedTrue

EditorInv == EditorShape /\ CritSafe /\ LossSafe /\ TrueSafe

LEMMA BlanksAre == NoCard \in [Inputs -> Int] /\ Blank \in [Inputs -> Int]
  BY DEF NoCard, Blank

LEMMA TextsAre == \A f \in Inputs : Texts(f) \subseteq Int
  BY DEF Texts

LEMMA EditorInitially == EditorInit => EditorInv
PROOF
  <1>. SUFFICES ASSUME EditorInit PROVE EditorInv  OBVIOUS
  <1>1. quiet \in BOOLEAN
    BY Zenon DEF EditorInit
  <1>2. server \in [Inputs -> Int] /\ cache \in [Inputs -> Int] /\ screen \in [Inputs -> Int]
    BY BlanksAre DEF EditorInit
  <1>3. EditorShape  BY <1>1, <1>2, BlanksAre DEF EditorInit, EditorShape
  <1>4. CritSafe  BY DEF EditorInit, CritSafe
  <1>5. LossSafe  BY DEF EditorInit, LossSafe
  <1>6. TrueSafe  BY DEF EditorInit, TrueSafe, LoadedTrue
  <1>. QED  BY <1>3, <1>4, <1>5, <1>6 DEF EditorInv

(* An input raises the flag, or is excused.                                *)
InputDone(f) ==
  /\ mode # "left" /\ dialog = "none" /\ success = FALSE
  /\ \E v \in Int : screen' = [screen EXCEPT ![f] = v]
  /\ interacted' \in BOOLEAN
  /\ interacted' = FALSE => interacted = FALSE /\ f \in excused'
  /\ excused \subseteq excused'
  /\ UNCHANGED <<mode, server, fetch, cache, coming, quiet, bypass, dialog, success, draft,
                 saving, changes, foreign, base, approved, seen, uncertain>>

LEMMA EditIs ==
  ASSUME EditorShape, NEW f \in Inputs,
         Edit(f, Heard, quiet) \/ Edit(f, FALSE, TRUE) \/ Edit(f, TRUE, FALSE)
  PROVE  InputDone(f)
PROOF
  <1>1. \A v : v \in Texts(f) \ {screen[f]} => v \in Int  BY TextsAre
  <1>2. CASE Edit(f, Heard, quiet)
    <2>1. PICK v \in Texts(f) \ {screen[f]} : screen' = [screen EXCEPT ![f] = v]
      BY <1>2 DEF Edit
    <2>2. interacted' = (interacted \/ ~quiet)  BY <1>2 DEF Edit, Heard
    <2>3. excused' = IF quiet THEN excused \cup {f} ELSE excused  BY <1>2 DEF Edit
    <2>4. AtHand  BY <1>2 DEF Edit
    <2>5. UNCHANGED <<mode, server, loads, quiet, bypass, dialogs, saving, changes, foreign,
                      base, approved, seen, uncertain>>
      BY <1>2 DEF Edit
    <2>6. CASE quiet = TRUE
      <3>1. interacted' = interacted /\ f \in excused' /\ excused \subseteq excused'
        BY <2>2, <2>3, <2>6 DEF EditorShape
      <3>. QED  BY <1>1, <2>1, <2>4, <2>5, <3>1
             DEF InputDone, AtHand, EditorShape, loads, dialogs
    <2>7. CASE quiet = FALSE
      <3>1. interacted' = TRUE /\ excused' = excused  BY <2>2, <2>3, <2>7
      <3>. QED  BY <1>1, <2>1, <2>4, <2>5, <3>1
             DEF InputDone, AtHand, EditorShape, loads, dialogs
    <2>. QED  BY <2>6, <2>7 DEF EditorShape
  <1>3. CASE Edit(f, FALSE, TRUE)
    <2>1. PICK v \in Texts(f) \ {screen[f]} : screen' = [screen EXCEPT ![f] = v]
      BY <1>3 DEF Edit
    <2>2. interacted' = (interacted \/ FALSE)  BY <1>3 DEF Edit
    <2>3. excused' = excused \cup {f}  BY <1>3 DEF Edit
    <2>4. interacted' = interacted  BY <2>2 DEF EditorShape
    <2>5. AtHand /\ UNCHANGED <<mode, server, loads, quiet, bypass, dialogs, saving, changes,
                                foreign, base, approved, seen, uncertain>>
      BY <1>3 DEF Edit
    <2>. QED  BY <1>1, <2>1, <2>3, <2>4, <2>5
           DEF InputDone, AtHand, EditorShape, loads, dialogs
  <1>4. CASE Edit(f, TRUE, FALSE)
    <2>1. PICK v \in Texts(f) \ {screen[f]} : screen' = [screen EXCEPT ![f] = v]
      BY <1>4 DEF Edit
    <2>2. interacted' = TRUE /\ excused' = excused  BY <1>4 DEF Edit
    <2>3. AtHand /\ UNCHANGED <<mode, server, loads, quiet, bypass, dialogs, saving, changes,
                                foreign, base, approved, seen, uncertain>>
      BY <1>4 DEF Edit
    <2>. QED  BY <1>1, <2>1, <2>2, <2>3 DEF InputDone, AtHand, EditorShape, loads, dialogs
  <1>. QED  BY <1>2, <1>3, <1>4

LEMMA InputKeeps ==
  ASSUME EditorInv, NEW f \in Inputs, InputDone(f), f = "logo" => mode = "create"
  PROVE  EditorInv'
PROOF
  <1>1. PICK v \in Int : screen' = [screen EXCEPT ![f] = v]  BY DEF InputDone
  <1>2. screen' \in [Inputs -> Int] /\ \A g \in Inputs \ {f} : screen'[g] = screen[g]
    BY <1>1 DEF EditorInv, EditorShape
  <1>3. EditorShape'  BY <1>2 DEF InputDone, EditorInv, EditorShape
  <1>4. CritSafe'  BY DEF InputDone, EditorInv, CritSafe
  <1>5. LossSafe'  BY <1>2 DEF InputDone, EditorInv, LossSafe
  <1>6. TrueSafe'
    <2>1. SUFFICES ASSUME mode = "edit", foreign = 0, uncertain = FALSE, fetch = "none"
                   PROVE  LoadedTrue'
      BY DEF InputDone, EditorInv, TrueSafe
    <2>2. f # "logo" /\ "logo" \in Inputs  BY <2>1 DEF Inputs
    <2>3. screen'["logo"] = screen["logo"]  BY <1>2, <2>2
    <2>4. LoadedTrue  BY <2>1 DEF EditorInv, TrueSafe
    <2>. QED  BY <2>3, <2>4 DEF LoadedTrue, InputDone
  <1>. QED  BY <1>3, <1>4, <1>5, <1>6 DEF EditorInv

LEMMA FilesKeep ==
  ASSUME EditorInv, LogoFilePicked \/ LogoFileCleared \/ PhotoCropped
  PROVE  EditorInv'
PROOF
  <1>1. UNCHANGED <<mode, server, fetch, cache, coming, quiet, bypass, dialog, success, draft,
                    saving, changes, foreign, base, excused, approved, seen, uncertain>>
    BY DEF LogoFilePicked, LogoFileCleared, PhotoCropped, loads, dialogs, record
  <1>2. mode = "create" /\ success = FALSE
    BY DEF LogoFilePicked, LogoFileCleared, PhotoCropped, AtHand, EditorInv, EditorShape
  <1>3. \/ screen' = screen /\ (interacted' = interacted \/ interacted' = TRUE)
        \/ screen' = [screen EXCEPT !["logo"] = 0] /\ interacted' = TRUE
    BY DEF LogoFilePicked, LogoFileCleared, PhotoCropped
  <1>4. screen' \in [Inputs -> Int]  BY <1>3 DEF EditorInv, EditorShape
  <1>5. EditorShape'  BY <1>1, <1>3, <1>4 DEF EditorInv, EditorShape
  <1>6. CritSafe'  BY <1>1 DEF EditorInv, CritSafe
  <1>7. LossSafe'  BY <1>1, <1>2, <1>3 DEF EditorInv, LossSafe
  <1>8. TrueSafe'  BY <1>1, <1>2 DEF TrueSafe
  <1>. QED  BY <1>5, <1>6, <1>7, <1>8 DEF EditorInv

LEMMA LogoChangeKeeps ==
  ASSUME EditorInv, NEW shape \in BOOLEAN, LogoChange(shape)
  PROVE  EditorInv'
PROOF
  <1>1. PICK v \in Texts("logo") \ {screen["logo"]} :
          /\ screen' = [screen EXCEPT !["logo"] = v]
          /\ changes' = changes \cup {[to |-> v, prev |-> screen["logo"]]}
    BY DEF LogoChange
  <1>2. /\ mode = "edit" /\ success = FALSE
        /\ uncertain' = (uncertain \/ changes # {} \/ fetch # "none" \/ saving # "no")
        /\ interacted' = (interacted \/ shape)
        /\ UNCHANGED <<mode, server, fetch, cache, coming, quiet, bypass, dialog, success, draft,
                       saving, foreign, base, excused, approved, seen>>
    BY DEF LogoChange, AtHand, loads, dialogs, EditorInv, EditorShape
  <1>3. v \in Int /\ "logo" \in Inputs  BY TextsAre DEF Inputs
  <1>4. screen["logo"] \in Int  BY <1>3 DEF EditorInv, EditorShape
  <1>5. /\ screen' \in [Inputs -> Int] /\ screen'["logo"] = v
        /\ \A g \in Inputs \ {"logo"} : screen'[g] = screen[g]
    BY <1>1, <1>3 DEF EditorInv, EditorShape
  <1>6. changes' \subseteq [to : Int, prev : Int]
    BY <1>1, <1>3, <1>4 DEF EditorInv, EditorShape
  <1>7. uncertain' \in BOOLEAN /\ interacted' \in BOOLEAN  BY <1>2
  <1>8. (interacted' = FALSE => interacted = FALSE)
        /\ (uncertain' = FALSE => uncertain = FALSE /\ changes = {} /\ fetch = "none")
    BY <1>2 DEF EditorInv, EditorShape
  <1>9. EditorShape'  BY <1>2, <1>5, <1>6, <1>7 DEF EditorInv, EditorShape
  <1>10. CritSafe'  BY <1>2 DEF EditorInv, CritSafe
  <1>11. LossSafe'  BY <1>2, <1>5, <1>8 DEF EditorInv, LossSafe
  <1>12. TrueSafe'
    <2>1. SUFFICES ASSUME foreign = 0, uncertain' = FALSE  PROVE LoadedTrue'
      BY <1>2, <1>8 DEF TrueSafe
    <2>2. uncertain = FALSE /\ changes = {} /\ fetch = "none"  BY <1>8, <2>1
    <2>3. LoadedTrue  BY <1>2, <2>1, <2>2 DEF EditorInv, TrueSafe
    <2>4. PICK c : c = [to |-> v, prev |-> screen["logo"]]  OBVIOUS
    <2>5. changes' = {c} /\ c.to = v /\ c.prev = screen["logo"]  BY <1>1, <2>2, <2>4
    <2>6. screen["logo"] = server["logo"]  BY <2>2, <2>3 DEF LoadedTrue
    <2>7. \A f \in Inputs \ {"logo"} : base'[f] = server'[f]  BY <1>2, <2>3 DEF LoadedTrue
    <2>. QED  BY <1>2, <1>5, <2>5, <2>6, <2>7 DEF LoadedTrue
  <1>. QED  BY <1>9, <1>10, <1>11, <1>12 DEF EditorInv

LEMMA TypingKeeps ==
  ASSUME EditorInv, Typing  PROVE EditorInv'
PROOF
  <1>0. EditorShape  BY DEF EditorInv
  <1>1. {"critical", "form", "local", "logo"} = Inputs  BY DEF Inputs
  <1>2. CASE \E f \in Inputs \ {"logo"} :
               Edit(f, Heard, quiet) \/ Edit(f, FALSE, TRUE) \/ Edit(f, TRUE, FALSE)
    <2>1. PICK f \in Inputs \ {"logo"} :
            Edit(f, Heard, quiet) \/ Edit(f, FALSE, TRUE) \/ Edit(f, TRUE, FALSE)
      BY <1>2
    <2>2. InputDone(f)  BY <1>0, <2>1, EditIs
    <2>. QED  BY <2>2, InputKeeps
  <1>3. CASE LogoOfNewCard
    <2>1. mode = "create" /\ (Edit("logo", FALSE, TRUE) \/ Edit("logo", TRUE, FALSE))
      BY <1>3 DEF LogoOfNewCard
    <2>2. InputDone("logo")  BY <1>0, <1>1, <2>1, EditIs
    <2>. QED  BY <1>1, <2>1, <2>2, InputKeeps
  <1>4. CASE LogoFilePicked \/ LogoFileCleared \/ PhotoCropped  BY <1>4, FilesKeep
  <1>5. CASE \E shape \in BOOLEAN : LogoChange(shape)  BY <1>5, LogoChangeKeeps
  <1>6. CASE BasicsSection  BY <1>1, <1>2, <1>6 DEF BasicsSection
  <1>7. CASE ContactsSection  BY <1>1, <1>2, <1>7 DEF ContactsSection
  <1>8. CASE ServiceSection  BY <1>1, <1>2, <1>8 DEF ServiceSection
  <1>9. CASE AvatarColour  BY <1>1, <1>2, <1>9 DEF AvatarColour
  <1>10. CASE AppearanceSection  BY <1>1, <1>2, <1>10 DEF AppearanceSection
  <1>11. CASE RowsSection  BY <1>1, <1>2, <1>11 DEF RowsSection
  <1>12. CASE CustomRows  BY <1>1, <1>2, <1>12 DEF CustomRows
  <1>13. CASE LabelPicked  BY <1>1, <1>2, <1>13 DEF LabelPicked
  <1>14. CASE ChairmanSection  BY <1>1, <1>2, <1>14 DEF ChairmanSection
  <1>15. CASE TemplateSection  BY <1>1, <1>2, <1>15 DEF TemplateSection
  <1>. QED  BY <1>3, <1>4, <1>5, <1>6, <1>7, <1>8, <1>9, <1>10, <1>11, <1>12, <1>13, <1>14,
               <1>15
         DEF Typing

LEMMA LogoAnswerKeeps ==
  ASSUME EditorInv, NEW c \in changes, LogoStored(c) \/ LogoFails(c)
  PROVE  EditorInv'
PROOF
  <1>0. /\ mode = "edit" /\ c.to \in Int /\ c.prev \in Int /\ "logo" \in Inputs
        /\ server \in [Inputs -> Int] /\ screen \in [Inputs -> Int]
    BY DEF EditorInv, EditorShape, LossSafe, Inputs
  <1>1. CASE LogoStored(c)
    <2>1. /\ server' = [server EXCEPT !["logo"] = c.to] /\ fetch' = "sent"
          /\ changes' = changes \ {c}
          /\ UNCHANGED <<mode, cache, coming, screen, interacted, quiet, bypass, dialog, success,
                         draft, saving, foreign, base, excused, approved, seen, uncertain>>
      BY <1>1 DEF LogoStored, flags, dialogs, record
    <2>2. server' \in [Inputs -> Int]  BY <1>0, <2>1
    <2>3. EditorShape'  BY <2>1, <2>2 DEF EditorInv, EditorShape
    <2>4. CritSafe'  BY <2>1 DEF EditorInv, CritSafe
    <2>5. LossSafe'  BY <2>1 DEF EditorInv, LossSafe
    <2>6. TrueSafe'  BY <2>1 DEF TrueSafe
    <2>. QED  BY <2>3, <2>4, <2>5, <2>6 DEF EditorInv
  <1>2. CASE LogoFails(c)
    <2>1. /\ screen' = [screen EXCEPT !["logo"] = c.prev] /\ changes' = changes \ {c}
          /\ UNCHANGED <<mode, cache, fetch, coming, interacted, quiet, bypass, dialog, success,
                         draft, saving, foreign, base, excused, approved, seen>>
      BY <1>2 DEF LogoFails, RolledBack, loads, flags, dialogs
    <2>2. \/ server' = server /\ uncertain' = uncertain
          \/ server' = [server EXCEPT !["logo"] = c.to] /\ uncertain' = TRUE
      BY <1>2 DEF LogoFails
    <2>3. server' \in [Inputs -> Int] /\ screen' \in [Inputs -> Int]
          /\ screen'["logo"] = c.prev /\ \A g \in Inputs \ {"logo"} : screen'[g] = screen[g]
      BY <1>0, <2>1, <2>2
    <2>4. uncertain' \in BOOLEAN  BY <2>2 DEF EditorInv, EditorShape
    <2>5. EditorShape'  BY <2>1, <2>3, <2>4 DEF EditorInv, EditorShape
    <2>6. CritSafe'  BY <2>1 DEF EditorInv, CritSafe
    <2>7. LossSafe'  BY <1>0, <2>1, <2>3 DEF EditorInv, LossSafe
    <2>8. TrueSafe'
      <3>1. CASE uncertain' = TRUE  BY <3>1 DEF TrueSafe
      <3>2. CASE server' = server /\ uncertain' = uncertain
        <4>1. SUFFICES ASSUME foreign = 0, uncertain = FALSE, fetch = "none", LoadedTrue
                       PROVE  LoadedTrue'
          BY <1>0, <2>1, <3>2 DEF TrueSafe, EditorInv
        <4>2. changes' = {} /\ c.prev = server["logo"]  BY <2>1, <4>1 DEF LoadedTrue
        <4>. QED  BY <2>1, <2>3, <3>2, <4>1, <4>2 DEF LoadedTrue
      <3>. QED  BY <2>2, <3>1, <3>2
    <2>. QED  BY <2>5, <2>6, <2>7, <2>8 DEF EditorInv
  <1>. QED  BY <1>1, <1>2

LEMMA QueryKeeps ==
  ASSUME EditorInv,
         \/ FetchRead \/ FetchLands \/ SameLands \/ FetchFails \/ QuietEnds \/ MessageDeleted
  PROVE  EditorInv'
PROOF
  <1>1. CASE FetchRead
    <2>1. /\ mode = "edit" /\ fetch' = "answered" /\ coming' = server
          /\ UNCHANGED <<mode, server, cache, screen, interacted, quiet, bypass, dialog, success,
                         draft, saving, changes, foreign, base, excused, approved, seen, uncertain>>
      BY <1>1 DEF FetchRead, flags, dialogs, record
    <2>2. EditorShape'  BY <2>1 DEF EditorInv, EditorShape
    <2>3. CritSafe'  BY <2>1 DEF EditorInv, CritSafe
    <2>4. LossSafe'  BY <2>1 DEF EditorInv, LossSafe
    <2>5. TrueSafe'  BY <2>1 DEF TrueSafe
    <2>. QED  BY <2>2, <2>3, <2>4, <2>5 DEF EditorInv
  <1>2. CASE FetchLands
    <2>1. /\ fetch = "answered" /\ mode = "edit" /\ cache' = coming /\ screen' = coming
          /\ base' = coming /\ coming' = NoCard /\ fetch' = "none" /\ interacted' = FALSE
          /\ quiet' = TRUE /\ excused' = {} /\ uncertain' = (uncertain \/ changes # {})
          /\ UNCHANGED <<mode, server, bypass, dialog, success, draft, saving, changes, foreign,
                         approved, seen>>
      BY <1>2 DEF FetchLands, dialogs
    <2>2. uncertain' \in BOOLEAN
          /\ (uncertain' = FALSE => uncertain = FALSE /\ changes = {})
      BY <2>1 DEF EditorInv, EditorShape
    <2>3. EditorShape'  BY <2>1, <2>2, BlanksAre DEF EditorInv, EditorShape
    <2>4. CritSafe'  BY <2>1 DEF EditorInv, CritSafe
    <2>5. LossSafe'  BY <2>1 DEF EditorInv, LossSafe
    <2>6. TrueSafe'
      <3>1. SUFFICES ASSUME foreign = 0, uncertain' = FALSE  PROVE LoadedTrue'
        BY <2>1 DEF TrueSafe
      <3>2. coming = server /\ changes = {}  BY <2>1, <2>2, <3>1 DEF EditorInv, TrueSafe
      <3>. QED  BY <2>1, <3>2 DEF LoadedTrue
    <2>. QED  BY <2>3, <2>4, <2>5, <2>6 DEF EditorInv
  <1>3. CASE FetchFails
    <2>1. /\ fetch' = "none" /\ coming' = NoCard /\ uncertain' = TRUE
          /\ UNCHANGED <<mode, server, cache, screen, interacted, quiet, bypass, dialog, success,
                         draft, saving, changes, foreign, base, excused, approved, seen>>
      BY <1>3 DEF FetchFails, flags, dialogs
    <2>2. EditorShape'  BY <2>1, BlanksAre DEF EditorInv, EditorShape
    <2>3. CritSafe'  BY <2>1 DEF EditorInv, CritSafe
    <2>4. LossSafe'  BY <2>1 DEF EditorInv, LossSafe
    <2>5. TrueSafe'  BY <2>1 DEF TrueSafe
    <2>. QED  BY <2>2, <2>3, <2>4, <2>5 DEF EditorInv
  <1>4. CASE QuietEnds
    <2>1. /\ quiet' = FALSE
          /\ UNCHANGED <<mode, server, fetch, cache, coming, screen, interacted, bypass, dialog,
                         success, draft, saving, changes, foreign, base, excused, approved, seen,
                         uncertain>>
      BY <1>4 DEF QuietEnds, loads, dialogs, record
    <2>2. EditorShape'  BY <2>1 DEF EditorInv, EditorShape
    <2>3. CritSafe'  BY <2>1 DEF EditorInv, CritSafe
    <2>4. LossSafe'  BY <2>1 DEF EditorInv, LossSafe
    <2>5. TrueSafe'  BY <2>1 DEF EditorInv, TrueSafe, LoadedTrue
    <2>. QED  BY <2>2, <2>3, <2>4, <2>5 DEF EditorInv
  <1>5. CASE MessageDeleted
    <2>1. /\ fetch' = "sent" /\ coming' = NoCard
          /\ UNCHANGED <<mode, server, cache, screen, interacted, quiet, bypass, dialog, success,
                         draft, saving, changes, foreign, base, excused, approved, seen, uncertain>>
      BY <1>5 DEF MessageDeleted, flags, dialogs, record
    <2>2. EditorShape'  BY <2>1, BlanksAre DEF EditorInv, EditorShape
    <2>3. CritSafe'  BY <2>1 DEF EditorInv, CritSafe
    <2>4. LossSafe'  BY <2>1 DEF EditorInv, LossSafe
    <2>5. TrueSafe'  BY <2>1 DEF TrueSafe
    <2>. QED  BY <2>2, <2>3, <2>4, <2>5 DEF EditorInv
  <1>6. CASE SameLands
    <2>1. /\ fetch = "answered" /\ mode = "edit" /\ coming = cache /\ base = cache
          /\ screen["logo"] = coming["logo"] /\ coming' = NoCard /\ fetch' = "none"
          /\ uncertain' = (uncertain \/ changes # {})
          /\ UNCHANGED <<mode, server, cache, screen, interacted, quiet, bypass, dialog, success,
                         draft, saving, changes, foreign, base, excused, approved, seen>>
      BY <1>6 DEF SameLands, flags, dialogs
    <2>2. uncertain' \in BOOLEAN
          /\ (uncertain' = FALSE => uncertain = FALSE /\ changes = {})
      BY <2>1 DEF EditorInv, EditorShape
    <2>3. EditorShape'  BY <2>1, <2>2, BlanksAre DEF EditorInv, EditorShape
    <2>4. CritSafe'  BY <2>1 DEF EditorInv, CritSafe
    <2>5. LossSafe'  BY <2>1 DEF EditorInv, LossSafe
    <2>6. TrueSafe'
      <3>1. SUFFICES ASSUME foreign = 0, uncertain' = FALSE  PROVE LoadedTrue'
        BY <2>1 DEF TrueSafe
      <3>2. coming = server /\ changes = {}  BY <2>1, <2>2, <3>1 DEF EditorInv, TrueSafe
      <3>. QED  BY <2>1, <3>2 DEF LoadedTrue
    <2>. QED  BY <2>3, <2>4, <2>5, <2>6 DEF EditorInv
  <1>. QED  BY <1>1, <1>2, <1>3, <1>4, <1>5, <1>6

(* Steps of the dialogs, which touch neither the screen nor the server.    *)
LEMMA AskedKeeps ==
  ASSUME EditorInv, Submit \/ Approve \/ CloseDialog \/ SlugConfirmed
  PROVE  EditorInv'
PROOF
  <1>1. UNCHANGED <<mode, server, fetch, cache, coming, screen, interacted, quiet, bypass, success,
                    changes, foreign, base, excused>>
    BY DEF Submit, Approve, CloseDialog, SlugConfirmed, loads, flags, record
  <1>2. "critical" \in Inputs  BY DEF Inputs
  <1>3. /\ draft' \in [Inputs -> Int] /\ uncertain' \in BOOLEAN
        /\ uncertain' = FALSE => uncertain = FALSE
        /\ CritSafe'
    <2>1. CASE Submit
      <3>1. /\ saving = "no" /\ draft' = screen /\ seen' = cache["critical"]
            /\ uncertain' = (uncertain \/ changes # {})
        BY <2>1 DEF Submit, MaySubmit
      <3>2. draft' \in [Inputs -> Int] /\ uncertain' \in BOOLEAN
            /\ (uncertain' = FALSE => uncertain = FALSE)
        BY <3>1 DEF EditorInv, EditorShape
      <3>3. CASE dialog' = "approve" /\ saving' = saving
        BY <1>1, <3>1, <3>2, <3>3 DEF CritSafe
      <3>4. CASE mode = "create" /\ dialog' = "slug" /\ saving' = saving
        BY <1>1, <3>1, <3>2, <3>4 DEF CritSafe
      <3>5. CASE ~NeedsApproval /\ mode = "edit" /\ saving' = "update" /\ dialog' = dialog
        <4>1. dialog = "none"  BY <2>1 DEF Submit, MaySubmit, AtHand
        <4>2. CASE cache = NoCard
          <5>1. seen' = -1  BY <1>2, <3>1, <4>2 DEF NoCard
          <5>. QED  BY <3>2, <3>5, <4>1, <5>1 DEF CritSafe
        <4>3. CASE screen["critical"] = cache["critical"]
          BY <3>1, <3>2, <3>5, <4>1, <4>3 DEF CritSafe
        <4>. QED  BY <3>5, <4>2, <4>3 DEF NeedsApproval
      <3>. QED  BY <2>1, <3>3, <3>4, <3>5 DEF Submit
    <2>2. CASE Approve
      <3>1. /\ dialog' = "none" /\ saving' = "update" /\ approved' = draft["critical"]
            /\ UNCHANGED <<draft, uncertain>>
        BY <2>2 DEF Approve
      <3>. QED  BY <3>1 DEF EditorInv, EditorShape, CritSafe
    <2>3. CASE CloseDialog
      <3>1. dialog' = "none" /\ UNCHANGED <<saving, approved, uncertain>>
        BY <2>3 DEF CloseDialog
      <3>2. CASE dialog = "quit"
        <4>1. UNCHANGED <<draft, seen>>  BY <2>3, <3>2 DEF CloseDialog
        <4>. QED  BY <1>1, <3>1, <4>1 DEF EditorInv, EditorShape, CritSafe
      <3>3. CASE dialog \in {"approve", "slug"}
        <4>1. draft' = NoCard /\ saving = "no"
          BY <2>3, <3>3 DEF CloseDialog, EditorInv, CritSafe
        <4>. QED  BY <1>1, <3>1, <4>1, BlanksAre DEF EditorInv, EditorShape, CritSafe
      <3>. QED  BY <2>3, <3>2, <3>3 DEF CloseDialog
    <2>4. CASE SlugConfirmed
      <3>1. /\ dialog = "slug" /\ dialog' = "none" /\ saving' = "create"
            /\ UNCHANGED <<draft, uncertain>>
        BY <2>4 DEF SlugConfirmed, record
      <3>. QED  BY <1>1, <3>1 DEF EditorInv, EditorShape, CritSafe
    <2>. QED  BY <2>1, <2>2, <2>3, <2>4
  <1>4. EditorShape'  BY <1>1, <1>3 DEF EditorInv, EditorShape
  <1>5. LossSafe'  BY <1>1 DEF EditorInv, LossSafe
  <1>6. TrueSafe'
    <2>1. SUFFICES ASSUME mode = "edit", foreign = 0, uncertain' = FALSE
                   PROVE  /\ fetch = "answered" => coming = server
                          /\ fetch = "none" => LoadedTrue'
      BY <1>1 DEF TrueSafe
    <2>. QED  BY <1>1, <1>3, <2>1 DEF EditorInv, TrueSafe, LoadedTrue
  <1>. QED  BY <1>3, <1>4, <1>5, <1>6 DEF EditorInv

LEMMA AppliedIs ==
  ASSUME server \in [Inputs -> Int], draft \in [Inputs -> Int]
  PROVE  /\ Applied(draft) \in [Inputs -> Int]
         /\ Applied(draft)["critical"] \in {server["critical"], draft["critical"]}
  BY DEF Applied, Inputs

LEMMA SavedKeeps ==
  ASSUME EditorInv, UpdateSucceeds \/ UpdateFails
  PROVE  EditorInv'
PROOF
  <1>0. Applied(draft) \in [Inputs -> Int]  BY AppliedIs DEF EditorInv, EditorShape
  <1>1. CASE UpdateSucceeds
    <2>1. /\ saving = "update" /\ saving' = "no" /\ server' = Applied(draft) /\ base' = draft
          /\ draft' = NoCard /\ fetch' = "sent" /\ coming' = NoCard /\ interacted' = FALSE
          /\ quiet' = TRUE /\ success' = TRUE /\ excused' = Saved
          /\ UNCHANGED <<mode, cache, screen, bypass, dialog, changes, foreign, uncertain>>
      BY <1>1 DEF UpdateSucceeds
    <2>2. EditorShape'  BY <1>0, <2>1, BlanksAre DEF EditorInv, EditorShape
    <2>3. CritSafe'  BY <2>1 DEF EditorInv, CritSafe
    <2>4. LossSafe'  BY <2>1 DEF EditorInv, LossSafe, Saved
    <2>5. TrueSafe'  BY <2>1 DEF TrueSafe
    <2>. QED  BY <2>2, <2>3, <2>4, <2>5 DEF EditorInv
  <1>2. CASE UpdateFails
    <2>1. /\ saving = "update" /\ saving' = "no" /\ draft' = NoCard
          /\ UNCHANGED <<mode, fetch, cache, coming, screen, interacted, quiet, bypass, dialog,
                         success, changes, foreign, base, excused>>
      BY <1>2 DEF UpdateFails, loads, flags
    <2>2. \/ server' = server /\ uncertain' = uncertain
          \/ server' = Applied(draft) /\ uncertain' = TRUE
      BY <1>2 DEF UpdateFails
    <2>3. EditorShape'  BY <1>0, <2>1, <2>2, BlanksAre DEF EditorInv, EditorShape
    <2>4. CritSafe'  BY <2>1 DEF EditorInv, CritSafe
    <2>5. LossSafe'  BY <2>1 DEF EditorInv, LossSafe
    <2>6. TrueSafe'
      <3>1. CASE uncertain' = TRUE  BY <3>1 DEF TrueSafe
      <3>2. CASE server' = server /\ uncertain' = uncertain
        BY <2>1, <3>2 DEF EditorInv, TrueSafe, LoadedTrue
      <3>. QED  BY <2>2, <3>1, <3>2
    <2>. QED  BY <2>3, <2>4, <2>5, <2>6 DEF EditorInv
  <1>. QED  BY <1>1, <1>2

LEMMA CreationKeeps ==
  ASSUME EditorInv, CreateFails \/ Created \/ PhotoUploaded \/ CreateDone
  PROVE  EditorInv'
PROOF
  <1>0. mode = "create" /\ changes = {}
    BY DEF CreateFails, Created, PhotoUploaded, CreateDone, EditorInv, CritSafe, LossSafe
  <1>1. CASE CreateFails \/ Created \/ PhotoUploaded
    <2>1. /\ saving \in {"create", "photo"} /\ saving' \in {"no", "photo", "logo"}
          /\ server' \in {server, draft} /\ draft' \in {draft, NoCard}
          /\ UNCHANGED <<mode, fetch, cache, coming, screen, interacted, quiet, bypass, dialog,
                         success, changes, foreign, base, excused, uncertain>>
      BY <1>1 DEF CreateFails, Created, PhotoUploaded, AfterCreate, loads, flags, dialogs, record
    <2>2. EditorShape'  BY <2>1, BlanksAre DEF EditorInv, EditorShape
    <2>3. CritSafe'  BY <1>0, <2>1 DEF EditorInv, CritSafe
    <2>4. LossSafe'  BY <2>1 DEF EditorInv, LossSafe
    <2>5. TrueSafe'  BY <1>0, <2>1 DEF TrueSafe
    <2>. QED  BY <2>2, <2>3, <2>4, <2>5 DEF EditorInv
  <1>2. CASE CreateDone
    <2>1. /\ saving = "logo" /\ saving' = "no" /\ mode' = "edit" /\ fetch' = "sent"
          /\ success' = TRUE /\ bypass' = TRUE /\ quiet' = TRUE /\ interacted' = FALSE
          /\ base' = draft /\ excused' = Saved /\ draft' = NoCard
          /\ UNCHANGED <<cache, coming, dialog, changes, foreign, uncertain>>
      BY <1>2 DEF CreateDone
    <2>2. \/ server' = server /\ screen' = screen
          \/ server' = [server EXCEPT !["logo"] = 1] /\ screen' = [screen EXCEPT !["logo"] = 1]
      BY <1>2 DEF CreateDone
    <2>3. /\ server' \in [Inputs -> Int] /\ screen' \in [Inputs -> Int]
          /\ \A g \in Inputs \ {"logo"} : screen'[g] = screen[g]
      BY <2>2 DEF EditorInv, EditorShape
    <2>4. EditorShape'  BY <2>1, <2>3, BlanksAre DEF EditorInv, EditorShape
    <2>5. CritSafe'  BY <2>1 DEF EditorInv, CritSafe
    <2>6. LossSafe'  BY <2>1, <2>3 DEF EditorInv, LossSafe, Saved
    <2>7. TrueSafe'  BY <2>1 DEF TrueSafe
    <2>. QED  BY <2>4, <2>5, <2>6, <2>7 DEF EditorInv
  <1>. QED  BY <1>1, <1>2

LEMMA ClosedIs == ASSUME Closed  PROVE EditorInv'
PROOF
  <1>1. EditorShape'  BY BlanksAre DEF Closed, EditorShape
  <1>2. CritSafe'  BY DEF Closed, CritSafe
  <1>3. LossSafe'  BY DEF Closed, LossSafe
  <1>4. TrueSafe'  BY DEF Closed, TrueSafe
  <1>. QED  BY <1>1, <1>2, <1>3, <1>4 DEF EditorInv

LEMMA LeavingKeeps ==
  ASSUME EditorInv, Leave \/ QuitAnyway \/ SuccessClosed \/ ForeignChange \/ UNCHANGED editorVars
  PROVE  EditorInv'
PROOF
  <1>1. CASE Closed  BY <1>1, ClosedIs
  <1>2. CASE /\ dialog' \in {dialog, "quit"} /\ success' \in {success, FALSE}
             /\ UNCHANGED <<mode, server, fetch, cache, coming, screen, interacted, quiet, bypass,
                            draft, saving, changes, foreign, base, excused, approved, seen,
                            uncertain>>
    <2>1. EditorShape'  BY <1>2 DEF EditorInv, EditorShape
    <2>2. CritSafe'  BY <1>2 DEF EditorInv, CritSafe
    <2>3. LossSafe'  BY <1>2 DEF EditorInv, LossSafe
    <2>4. TrueSafe'  BY <1>2 DEF EditorInv, TrueSafe, LoadedTrue
    <2>. QED  BY <2>1, <2>2, <2>3, <2>4 DEF EditorInv
  <1>3. CASE ForeignChange
    <2>1. PICK v \in Texts("critical") : server' = [server EXCEPT !["critical"] = v]
      BY <1>3 DEF ForeignChange
    <2>2. /\ foreign' = foreign + 1
          /\ UNCHANGED <<mode, fetch, cache, coming, screen, interacted, quiet, bypass, dialog,
                         success, draft, saving, changes, base, excused, approved, seen, uncertain>>
      BY <1>3 DEF ForeignChange, loads, flags, dialogs, record
    <2>3. v \in Int  BY TextsAre DEF Inputs
    <2>4. server' \in [Inputs -> Int] /\ foreign' \in Nat /\ foreign' # 0
      <3>1. server \in [Inputs -> Int] /\ foreign \in Nat  BY DEF EditorInv, EditorShape
      <3>2. server' \in [Inputs -> Int]  BY <2>1, <2>3, <3>1
      <3>3. foreign' \in Nat /\ foreign' # 0  BY <2>2, <3>1
      <3>. QED  BY <3>2, <3>3
    <2>5. EditorShape'  BY <2>2, <2>4 DEF EditorInv, EditorShape
    <2>6. CritSafe'  BY <2>2 DEF EditorInv, CritSafe
    <2>7. LossSafe'  BY <2>2 DEF EditorInv, LossSafe
    <2>8. TrueSafe'  BY <2>4 DEF TrueSafe
    <2>. QED  BY <2>5, <2>6, <2>7, <2>8 DEF EditorInv
  <1>. QED  BY <1>1, <1>2, <1>3
         DEF Leave, QuitAnyway, SuccessClosed, editorVars, loads, flags, dialogs, record

LEMMA EditorKept == EditorInv /\ [EditorNext]_editorVars => EditorInv'
  BY TypingKeeps, LogoAnswerKeeps, QueryKeeps, AskedKeeps, SavedKeeps, CreationKeeps, LeavingKeeps
  DEF EditorNext

(* The screen shows what is stored when nothing is on its way.             *)
LEMMA EditorScreen == EditorInv => ScreenIsTrue
PROOF
  <1>1. SUFFICES ASSUME EditorInv, mode = "edit", fetch = "none", changes = {}, Unsaved = {},
                        foreign = 0, ~uncertain
                 PROVE  screen = server
    BY DEF ScreenIsTrue
  <1>2. LoadedTrue  BY <1>1 DEF EditorInv, EditorShape, TrueSafe
  <1>3. \A f \in Inputs : screen[f] = server[f]
    <2>1. \A f \in Inputs \ {"logo"} : screen[f] = base[f]  BY <1>1 DEF Unsaved
    <2>. QED  BY <1>1, <1>2, <2>1 DEF LoadedTrue
  <1>. QED  BY <1>1, <1>3 DEF EditorInv, EditorShape

(* The form changes by typing, by leaving and by loads alone.              *)
LEMMA FormSteps ==
  ASSUME EditorInv, [EditorNext]_editorVars, NEW f \in Inputs \ {"logo"},
         screen'[f] # screen[f], mode' # "left"
  PROVE  edits' = edits + 1 \/ (fetch = "answered" /\ screen' = coming /\ base' = coming)
PROOF
  <1>1. screen \in [Inputs -> Int] /\ f # "logo"
    BY DEF EditorInv, EditorShape
  <1>2. CASE Typing
    BY <1>1, <1>2 DEF Typing, BasicsSection, ContactsSection, ServiceSection, AvatarColour,
       AppearanceSection, RowsSection, CustomRows, LabelPicked, ChairmanSection,
       TemplateSection, LogoOfNewCard, LogoFilePicked, LogoFileCleared, PhotoCropped,
       LogoChange, Edit
  <1>3. \A c \in changes : ~LogoStored(c)  BY DEF LogoStored
  <1>4. \A c \in changes : ~LogoFails(c)
    BY <1>1 DEF LogoFails
  <1>5. CASE FetchLands  BY <1>5 DEF FetchLands
  <1>6. ~CreateDone
    BY <1>1 DEF CreateDone
  <1>7. /\ ~FetchRead /\ ~SameLands /\ ~FetchFails /\ ~QuietEnds
        /\ ~MessageDeleted /\ ~Submit /\ ~Approve /\ ~CloseDialog /\ ~SlugConfirmed
    BY DEF FetchRead, SameLands, FetchFails, QuietEnds, MessageDeleted, Submit, Approve,
       CloseDialog, SlugConfirmed
  <1>8. /\ ~UpdateSucceeds /\ ~UpdateFails /\ ~CreateFails /\ ~Created /\ ~PhotoUploaded
        /\ ~ForeignChange /\ ~UNCHANGED editorVars
    BY DEF UpdateSucceeds, UpdateFails, CreateFails, Created, PhotoUploaded, ForeignChange,
       editorVars
  <1>9. ~Leave /\ ~QuitAnyway /\ ~SuccessClosed
    BY DEF Leave, QuitAnyway, SuccessClosed, Closed
  <1>. QED  BY <1>2, <1>3, <1>4, <1>5, <1>6, <1>7, <1>8, <1>9 DEF EditorNext

(* Leaving drops no flagged edit, and no name is changed without approval. *)
LEMMA EditorSteps ==
  ASSUME EditorInv, [EditorNext]_editorVars
  PROVE  /\ mode # "left" /\ mode' = "left" /\ dialog # "quit" =>
              bypass \/ Unsaved \subseteq excused
         /\ CriticalApproved
PROOF
  <1>1. ASSUME mode # "left", mode' = "left", dialog # "quit", ~bypass
        PROVE  Unsaved \subseteq excused
    <2>1. Leave \/ SuccessClosed
      <3>1. ~Typing
        <4>1. ASSUME Typing  PROVE mode' = mode
          BY <4>1 DEF Typing, BasicsSection, ContactsSection, ServiceSection, AvatarColour,
             AppearanceSection, RowsSection, CustomRows, LabelPicked, ChairmanSection,
             TemplateSection, LogoOfNewCard, LogoFilePicked, LogoFileCleared, PhotoCropped,
             LogoChange, Edit
        <4>. QED  BY <1>1, <4>1
      <3>2. \A c \in changes : ~LogoStored(c) /\ ~LogoFails(c)
        BY <1>1 DEF LogoStored, LogoFails
      <3>3. /\ ~FetchRead /\ ~FetchLands /\ ~SameLands /\ ~FetchFails /\ ~QuietEnds
            /\ ~MessageDeleted /\ ~Submit /\ ~Approve /\ ~CloseDialog /\ ~SlugConfirmed
        BY <1>1 DEF FetchRead, FetchLands, SameLands, FetchFails, QuietEnds, MessageDeleted, Submit,
           Approve, CloseDialog, SlugConfirmed
      <3>4. /\ ~UpdateSucceeds /\ ~UpdateFails /\ ~CreateFails /\ ~Created /\ ~PhotoUploaded
            /\ ~CreateDone /\ ~QuitAnyway /\ ~ForeignChange /\ ~UNCHANGED editorVars
        BY <1>1 DEF UpdateSucceeds, UpdateFails, CreateFails, Created, PhotoUploaded, CreateDone,
           QuitAnyway, ForeignChange, editorVars
      <3>. QED  BY <3>1, <3>2, <3>3, <3>4 DEF EditorNext
    <2>2. interacted = FALSE
      <3>1. CASE SuccessClosed
        BY <3>1 DEF SuccessClosed, EditorInv, EditorShape, LossSafe
      <3>2. CASE Leave
        <4>1. ~Blocks  BY <1>1, <3>2 DEF Leave
        <4>. QED  BY <1>1, <3>2, <4>1 DEF Leave, Blocks, EditorInv, EditorShape
      <3>. QED  BY <2>1, <3>1, <3>2
    <2>3. \A f \in Inputs : screen[f] # base[f] /\ (mode = "edit" => f # "logo") => f \in excused
      BY <2>2 DEF EditorInv, LossSafe
    <2>. QED  BY <2>3 DEF Unsaved
  <1>2. CriticalApproved
    <2>1. SUFFICES ASSUME saving = "update", saving' = "no", mode' = "edit",
                          server'["critical"] # server["critical"]
                   PROVE  server'["critical"] \in {approved, seen} \/ seen = -1
      BY DEF CriticalApproved
    <2>2. CASE UpdateSucceeds \/ UpdateFails
      <3>1. server' = server \/ server' = Applied(draft)
        BY <2>2 DEF UpdateSucceeds, UpdateFails
      <3>2. server'["critical"] = draft["critical"]
        BY <2>1, <3>1, AppliedIs DEF EditorInv, EditorShape
      <3>. QED  BY <2>1, <3>2 DEF EditorInv, CritSafe
    <2>3. CASE ~(UpdateSucceeds \/ UpdateFails)
      <3>1. ASSUME Typing  PROVE saving' = saving
        BY <3>1 DEF Typing, BasicsSection, ContactsSection, ServiceSection, AvatarColour,
           AppearanceSection, RowsSection, CustomRows, LabelPicked, ChairmanSection,
           TemplateSection, LogoOfNewCard, LogoFilePicked, LogoFileCleared, PhotoCropped,
           LogoChange, Edit
      <3>2. \A c \in changes : ~LogoStored(c) /\ ~LogoFails(c)
        BY <2>1 DEF LogoStored, LogoFails
      <3>3. /\ ~FetchRead /\ ~FetchLands /\ ~SameLands /\ ~FetchFails /\ ~QuietEnds
            /\ ~MessageDeleted /\ ~Submit /\ ~Approve /\ ~CloseDialog /\ ~SlugConfirmed
        BY <2>1 DEF FetchRead, FetchLands, SameLands, FetchFails, QuietEnds, MessageDeleted, Submit,
           MaySubmit, Approve, CloseDialog, SlugConfirmed
      <3>4. /\ ~CreateFails /\ ~Created /\ ~PhotoUploaded /\ ~CreateDone /\ ~ForeignChange
            /\ ~UNCHANGED editorVars
        BY <2>1 DEF CreateFails, Created, PhotoUploaded, CreateDone, ForeignChange, editorVars
      <3>5. ~Closed  BY <2>1 DEF Closed
      <3>6. ~Leave /\ ~QuitAnyway /\ ~SuccessClosed
        BY <2>1, <3>5 DEF Leave, QuitAnyway, SuccessClosed
      <3>. QED  BY <2>1, <2>3, <3>1, <3>2, <3>3, <3>4, <3>6 DEF EditorNext
    <2>. QED  BY <2>2, <2>3
  <1>. QED  BY <1>1, <1>2

HIDE EditorAssumption

-----------------------------------------------------------------------------
(* The editor of a template                                                *)

USE TemplateEditorAssumption

Fetches == [template : Templates, content : Contents]
Saves   == [template : Templates, content : Contents, run : BOOLEAN]

EditorTypes ==
  /\ held \in [Templates -> Contents] /\ cached \in [Templates -> Contents \cup {NoContent}]
  /\ cacheStale \subseteq Templates /\ passed \subseteq Templates
  /\ fetching \subseteq Fetches /\ storing \subseteq Saves
  /\ edited \in Templates \cup {NoTemplate} /\ layout \in Contents \cup {NoContent}
  /\ touched \in BOOLEAN /\ strayed \in BOOLEAN

(* A template is fetched once and saved once at a time.                    *)
OneEach ==
  /\ \A f, g \in fetching : f.template = g.template => f = g
  /\ \A s, r \in storing : s.template = r.template => s = r

(* Only a form that is open is touched, and saves are of the open template *)
(* unless the editor was left.                                             *)
FormOpen ==
  /\ edited = NoTemplate => touched = FALSE
  /\ touched = TRUE => layout \in Contents
  /\ edited # NoTemplate /\ touched = FALSE => layout = cached[edited]
  /\ strayed = FALSE => \A s \in storing : s.template = edited

SaveHasRun(t) == \E s \in storing : s.template = t /\ s.run = TRUE

(* What a query holds, and what it is about to hold, is what the server    *)
(* has, or a save of it has run, or the template was changed elsewhere.    *)
CacheTrue ==
  \A t \in Templates :
    t \notin cacheStale /\ t \notin passed /\ cached[t] # NoContent /\ ~SaveHasRun(t) =>
      cached[t] = held[t]

FetchTrue ==
  \A f \in fetching :
    f.content = held[f.template] \/ f.template \in passed \/ SaveHasRun(f.template)

TemplateInv == EditorTypes /\ OneEach /\ FormOpen /\ CacheTrue /\ FetchTrue

LEMMA TemplateInitially == TemplateEditorInit => TemplateInv
PROOF
  <1>. SUFFICES ASSUME TemplateEditorInit PROVE TemplateInv  OBVIOUS
  <1>1. EditorTypes  BY DEF TemplateEditorInit, EditorTypes
  <1>2. OneEach  BY DEF TemplateEditorInit, OneEach
  <1>3. FormOpen  BY DEF TemplateEditorInit, FormOpen
  <1>4. CacheTrue  BY DEF TemplateEditorInit, CacheTrue
  <1>5. FetchTrue  BY DEF TemplateEditorInit, FetchTrue
  <1>. QED  BY <1>1, <1>2, <1>3, <1>4, <1>5 DEF TemplateInv

(* Steps at the form: the page is opened, closed and typed into.           *)
LEMMA FormKeeps ==
  ASSUME TemplateInv, EditorOpened \/ EditorClosed \/ DraftEdited
  PROVE  TemplateInv'
PROOF
  <1>0. EditorTypes /\ OneEach /\ FormOpen /\ CacheTrue /\ FetchTrue  BY DEF TemplateInv
  <1>1. UNCHANGED <<held, cached, cacheStale, fetching, storing, passed>>
    BY DEF EditorOpened, EditorClosed, DraftEdited
  <1>2. EditorTypes' /\ FormOpen'
    <2>1. CASE EditorOpened
      <3>1. /\ edited = NoTemplate /\ edited' \in Templates /\ layout' = cached[edited']
            /\ touched' = FALSE /\ strayed' = strayed
        BY <2>1 DEF EditorOpened
      <3>2. layout' \in Contents \cup {NoContent}  BY <1>0, <3>1 DEF EditorTypes
      <3>3. strayed = FALSE => storing = {}
        BY <1>0, <3>1 DEF EditorTypes, FormOpen, Saves
      <3>4. EditorTypes'  BY <1>0, <1>1, <3>1, <3>2 DEF EditorTypes
      <3>5. FormOpen'  BY <1>1, <3>1, <3>3 DEF FormOpen
      <3>. QED  BY <3>4, <3>5
    <2>2. CASE EditorClosed
      <3>1. /\ edited' = NoTemplate /\ layout' = NoContent /\ touched' = FALSE
            /\ strayed' = (strayed \/ storing # {})
        BY <2>2 DEF EditorClosed
      <3>2. strayed' \in BOOLEAN /\ (strayed' = FALSE => storing = {})
        BY <3>1
      <3>3. EditorTypes'  BY <1>0, <1>1, <3>1, <3>2 DEF EditorTypes
      <3>4. FormOpen'  BY <1>1, <3>1, <3>2 DEF FormOpen
      <3>. QED  BY <3>3, <3>4
    <2>3. CASE DraftEdited
      <3>1. /\ edited # NoTemplate /\ layout' \in Contents /\ touched' = TRUE
            /\ UNCHANGED <<edited, strayed>>
        BY <2>3 DEF DraftEdited
      <3>2. EditorTypes'  BY <1>0, <1>1, <3>1 DEF EditorTypes
      <3>3. FormOpen'  BY <1>0, <1>1, <3>1 DEF FormOpen
      <3>. QED  BY <3>2, <3>3
    <2>. QED  BY <2>1, <2>2, <2>3
  <1>3. OneEach'  BY <1>0, <1>1 DEF OneEach
  <1>4. CacheTrue'  BY <1>0, <1>1 DEF CacheTrue, SaveHasRun
  <1>5. FetchTrue'  BY <1>0, <1>1 DEF FetchTrue, SaveHasRun
  <1>. QED  BY <1>2, <1>3, <1>4, <1>5 DEF TemplateInv

LEMMA AskedIsTrue ==
  ASSUME TemplateInv, TemplateAsked  PROVE TemplateInv'
PROOF
  <1>0. EditorTypes /\ OneEach /\ FormOpen /\ CacheTrue /\ FetchTrue  BY DEF TemplateInv
  <1>1. /\ edited \in Templates /\ \A f \in fetching : f.template # edited
        /\ UNCHANGED <<held, cached, cacheStale, edited, layout, touched, storing, passed, strayed>>
    BY <1>0 DEF TemplateAsked, EditorTypes
  <1>2. PICK g : g = [template |-> edited, content |-> held[edited]]  OBVIOUS
  <1>3. g \in Fetches /\ g.template = edited /\ g.content = held[edited]
    BY <1>0, <1>1, <1>2 DEF EditorTypes, Fetches
  <1>4. fetching' = fetching \cup {g}  BY <1>2 DEF TemplateAsked
  <1>5. EditorTypes'  BY <1>0, <1>1, <1>3, <1>4 DEF EditorTypes
  <1>6. OneEach'  BY <1>0, <1>1, <1>3, <1>4 DEF OneEach
  <1>7. FormOpen'  BY <1>0, <1>1 DEF FormOpen
  <1>8. CacheTrue'  BY <1>0, <1>1 DEF CacheTrue, SaveHasRun
  <1>9. FetchTrue'  BY <1>0, <1>1, <1>3, <1>4 DEF FetchTrue, SaveHasRun
  <1>. QED  BY <1>5, <1>6, <1>7, <1>8, <1>9 DEF TemplateInv

LEMMA AnsweredIsTrue ==
  ASSUME TemplateInv, NEW f \in fetching, TemplateAnswered(f)  PROVE TemplateInv'
PROOF
  <1>0. EditorTypes /\ OneEach /\ FormOpen /\ CacheTrue /\ FetchTrue  BY DEF TemplateInv
  <1>1. fetching' = fetching \ {f} /\ UNCHANGED <<held, edited, storing, strayed>>
    BY DEF TemplateAnswered
  <1>2. f.template \in Templates /\ f.content \in Contents  BY <1>0 DEF EditorTypes, Fetches
  <1>3. OneEach'  BY <1>0, <1>1 DEF OneEach
  <1>4. \A g \in fetching' : g \in fetching /\ g.template # f.template
    BY <1>0, <1>1 DEF OneEach
  <1>5. CASE UNCHANGED <<cached, cacheStale, layout, touched, passed>>
    <2>1. EditorTypes'  BY <1>0, <1>1, <1>5 DEF EditorTypes
    <2>2. FormOpen'  BY <1>0, <1>1, <1>5 DEF FormOpen
    <2>3. CacheTrue'  BY <1>0, <1>1, <1>5 DEF CacheTrue, SaveHasRun
    <2>4. FetchTrue'  BY <1>0, <1>1, <1>5 DEF FetchTrue, SaveHasRun
    <2>. QED  BY <1>3, <2>1, <2>2, <2>3, <2>4 DEF TemplateInv
  <1>6. CASE /\ cached' = [cached EXCEPT ![f.template] = f.content]
             /\ cacheStale' = cacheStale \ {f.template}
             /\ IF FormFilled(f) THEN layout' = f.content /\ touched' = FALSE
                ELSE UNCHANGED <<layout, touched>>
             /\ passed' = IF f.content = held[f.template] THEN passed \ {f.template} ELSE passed
    <2>1. /\ cached' \in [Templates -> Contents \cup {NoContent}]
          /\ cached'[f.template] = f.content
          /\ \A t \in Templates \ {f.template} : cached'[t] = cached[t]
      BY <1>0, <1>2, <1>6 DEF EditorTypes
    <2>2. /\ layout' \in Contents \cup {NoContent} /\ touched' \in BOOLEAN
          /\ cacheStale' \subseteq Templates /\ passed' \subseteq Templates
      BY <1>0, <1>2, <1>6 DEF EditorTypes
    <2>3. EditorTypes'  BY <1>0, <1>1, <2>1, <2>2 DEF EditorTypes
    <2>4. FormOpen'
      <3>1. CASE FormFilled(f)
        <4>1. layout' = f.content /\ touched' = FALSE /\ f.template = edited
          BY <1>6, <3>1 DEF FormFilled
        <4>. QED  BY <1>0, <1>1, <2>1, <4>1 DEF FormOpen
      <3>2. CASE ~FormFilled(f)
        <4>1. UNCHANGED <<layout, touched>>  BY <1>6, <3>2
        <4>2. edited # NoTemplate => edited \in Templates /\ cached'[edited] = cached[edited]
          BY <1>0, <2>1, <3>2 DEF FormFilled, EditorTypes
        <4>. QED  BY <1>0, <1>1, <4>1, <4>2 DEF FormOpen
      <3>. QED  BY <3>1, <3>2
    <2>5. CacheTrue'
      <3>1. SUFFICES ASSUME NEW t \in Templates, t \notin cacheStale', t \notin passed',
                            cached'[t] # NoContent, ~SaveHasRun(t)
                     PROVE  cached'[t] = held[t]
        BY <1>1 DEF CacheTrue, SaveHasRun
      <3>2. CASE t = f.template
        <4>1. CASE f.content = held[t]  BY <2>1, <3>2, <4>1
        <4>2. CASE f.content # held[t]
          <5>1. t \notin passed  BY <1>6, <3>1, <3>2, <4>2
          <5>. QED  BY <1>0, <3>1, <3>2, <4>2, <5>1 DEF FetchTrue
        <4>. QED  BY <4>1, <4>2
      <3>3. CASE t # f.template
        <4>1. t \notin cacheStale /\ t \notin passed  BY <1>6, <3>1, <3>3
        <4>. QED  BY <1>0, <2>1, <3>1, <3>3, <4>1 DEF CacheTrue
      <3>. QED  BY <3>2, <3>3
    <2>6. FetchTrue'
      <3>1. SUFFICES ASSUME NEW g \in fetching'
                     PROVE  \/ g.content = held[g.template] \/ g.template \in passed'
                            \/ SaveHasRun(g.template)
        BY <1>1 DEF FetchTrue, SaveHasRun
      <3>2. g \in fetching /\ g.template # f.template  BY <1>4
      <3>3. g.template \in passed => g.template \in passed'  BY <1>6, <3>2
      <3>. QED  BY <1>0, <3>2, <3>3 DEF FetchTrue
    <2>. QED  BY <1>3, <2>3, <2>4, <2>5, <2>6 DEF TemplateInv
  <1>. QED  BY <1>5, <1>6 DEF TemplateAnswered

LEMMA DraftSavedIsTrue ==
  ASSUME TemplateInv, DraftSaved  PROVE TemplateInv'
PROOF
  <1>0. EditorTypes /\ OneEach /\ FormOpen /\ CacheTrue /\ FetchTrue  BY DEF TemplateInv
  <1>1. /\ edited \in Templates /\ cached[edited] # NoContent
        /\ \A s \in storing : s.template # edited
        /\ UNCHANGED <<held, cached, cacheStale, fetching, edited, layout, touched, passed, strayed>>
    BY <1>0 DEF DraftSaved, EditorLoading, EditorTypes
  <1>2. PICK r : r = [template |-> edited, content |-> layout, run |-> FALSE]  OBVIOUS
  <1>3. layout \in Contents
    <2>1. CASE touched = TRUE  BY <1>0, <2>1 DEF FormOpen
    <2>2. CASE touched = FALSE
      <3>1. layout = cached[edited]  BY <1>0, <1>1, <2>2, TemplateEditorAssumption DEF FormOpen
      <3>2. cached[edited] \in Contents \cup {NoContent}  BY <1>0, <1>1 DEF EditorTypes
      <3>. QED  BY <1>1, <3>1, <3>2
    <2>. QED  BY <1>0, <2>1, <2>2 DEF EditorTypes
  <1>4. r \in Saves /\ r.template = edited /\ r.run = FALSE
    BY <1>1, <1>2, <1>3 DEF Saves
  <1>5. storing' = storing \cup {r}  BY <1>2 DEF DraftSaved
  <1>6. EditorTypes'  BY <1>0, <1>1, <1>4, <1>5 DEF EditorTypes
  <1>7. OneEach'  BY <1>0, <1>1, <1>4, <1>5 DEF OneEach
  <1>8. FormOpen'  BY <1>0, <1>1, <1>4, <1>5 DEF FormOpen
  <1>9. \A t : SaveHasRun(t) => SaveHasRun(t)'  BY <1>5 DEF SaveHasRun
  <1>10. CacheTrue'  BY <1>0, <1>1, <1>9 DEF CacheTrue
  <1>11. FetchTrue'  BY <1>0, <1>1, <1>9 DEF FetchTrue
  <1>. QED  BY <1>6, <1>7, <1>8, <1>10, <1>11 DEF TemplateInv

LEMMA SaveRunIsTrue ==
  ASSUME TemplateInv, NEW s \in storing, SaveRuns(s)  PROVE TemplateInv'
PROOF
  <1>0. EditorTypes /\ OneEach /\ FormOpen /\ CacheTrue /\ FetchTrue  BY DEF TemplateInv
  <1>1. s \in Saves  BY <1>0 DEF EditorTypes
  <1>2. PICK r : r = [s EXCEPT !.run = TRUE]  OBVIOUS
  <1>3. r \in Saves /\ r.template = s.template /\ r.run = TRUE
    BY <1>1, <1>2 DEF Saves
  <1>4. /\ storing' = (storing \ {s}) \cup {r}
        /\ held' = [held EXCEPT ![s.template] = s.content]
        /\ UNCHANGED <<cached, cacheStale, fetching, edited, layout, touched, passed, strayed>>
    BY <1>2 DEF SaveRuns
  <1>5. s.template \in Templates /\ s.content \in Contents  BY <1>1 DEF Saves
  <1>6. held' \in [Templates -> Contents] /\ \A t \in Templates \ {s.template} : held'[t] = held[t]
    BY <1>0, <1>4, <1>5 DEF EditorTypes
  <1>7. SaveHasRun(s.template)'  BY <1>3, <1>4 DEF SaveHasRun
  <1>8. \A t : SaveHasRun(t) => SaveHasRun(t)'  BY <1>3, <1>4 DEF SaveHasRun
  <1>9. EditorTypes'  BY <1>0, <1>3, <1>4, <1>6 DEF EditorTypes
  <1>10. OneEach'  BY <1>0, <1>3, <1>4 DEF OneEach
  <1>11. FormOpen'  BY <1>0, <1>3, <1>4 DEF FormOpen
  <1>12. CacheTrue'  BY <1>0, <1>4, <1>6, <1>7, <1>8 DEF CacheTrue
  <1>13. FetchTrue'
    <2>1. \A f \in fetching : f.template \in Templates  BY <1>0 DEF EditorTypes, Fetches
    <2>. QED  BY <1>0, <1>4, <1>6, <1>7, <1>8, <2>1 DEF FetchTrue
  <1>. QED  BY <1>9, <1>10, <1>11, <1>12, <1>13 DEF TemplateInv

LEMMA SaveAnswerIsTrue ==
  ASSUME TemplateInv, NEW s \in storing, SaveAnswered(s)  PROVE TemplateInv'
PROOF
  <1>0. EditorTypes /\ OneEach /\ FormOpen /\ CacheTrue /\ FetchTrue  BY DEF TemplateInv
  <1>1. s.template \in Templates /\ s.run \in BOOLEAN  BY <1>0 DEF EditorTypes, Saves
  <1>2. storing' = storing \ {s} /\ UNCHANGED <<held, cached>>
        /\ strayed' = (strayed /\ storing' # {})
    BY DEF SaveAnswered
  <1>3. /\ strayed' \in BOOLEAN
        /\ strayed' = FALSE => strayed = FALSE \/ storing' = {}
    BY <1>0, <1>2 DEF EditorTypes
  <1>4. \A t : t # s.template /\ SaveHasRun(t) => SaveHasRun(t)'
    BY <1>2 DEF SaveHasRun
  <1>5. CASE /\ s.run
             /\ cacheStale' = StaleAfterSave(s.template)
             /\ fetching' = {f \in fetching : f.template # s.template}
                              \cup (IF edited = s.template /\ edited \in cacheStale'
                                      THEN {[template |-> edited, content |-> held[edited]]} ELSE {})
             /\ edited' = NoTemplate /\ layout' = NoContent /\ touched' = FALSE
             /\ UNCHANGED passed
    <2>1. cacheStale' = cacheStale \cup {s.template}  BY <1>5 DEF StaleAfterSave
    <2>2. PICK g : g = [template |-> s.template, content |-> held[s.template]]  OBVIOUS
    <2>3. g \in Fetches /\ g.template = s.template /\ g.content = held[s.template]
      BY <1>0, <1>1, <2>2 DEF EditorTypes, Fetches
    <2>4. ASSUME NEW f \in fetching'
          PROVE  (f \in fetching /\ f.template # s.template) \/ f = g
      BY <1>5, <2>2
    <2>5. EditorTypes'
      <3>1. fetching' \subseteq Fetches  BY <1>0, <2>3, <2>4 DEF EditorTypes
      <3>. QED  BY <1>0, <1>1, <1>2, <1>3, <1>5, <2>1, <3>1 DEF EditorTypes
    <2>6. OneEach'  BY <1>0, <1>2, <2>3, <2>4 DEF OneEach
    <2>7. FormOpen'
      <3>1. strayed = FALSE => storing' = {}  BY <1>0, <1>2 DEF FormOpen, OneEach
      <3>. QED  BY <1>3, <1>5, <3>1 DEF FormOpen
    <2>8. CacheTrue'  BY <1>0, <1>2, <1>4, <1>5, <2>1 DEF CacheTrue
    <2>9. FetchTrue'  BY <1>0, <1>2, <1>4, <1>5, <2>3, <2>4 DEF FetchTrue
    <2>. QED  BY <2>5, <2>6, <2>7, <2>8, <2>9 DEF TemplateInv
  <1>6. CASE /\ passed' = IF s.run THEN passed \cup {s.template} ELSE passed
             /\ UNCHANGED <<cacheStale, fetching, edited, layout, touched>>
    <2>1. passed \subseteq passed' /\ passed' \subseteq Templates
          /\ (s.run = TRUE => s.template \in passed')
      BY <1>0, <1>1, <1>6 DEF EditorTypes
    <2>2. \A t : SaveHasRun(t) => SaveHasRun(t)' \/ t \in passed'
      BY <1>2, <2>1 DEF SaveHasRun
    <2>3. EditorTypes'  BY <1>0, <1>2, <1>3, <1>6, <2>1 DEF EditorTypes
    <2>4. OneEach'  BY <1>0, <1>2, <1>6 DEF OneEach
    <2>5. FormOpen'  BY <1>0, <1>2, <1>3, <1>6 DEF FormOpen
    <2>6. CacheTrue'  BY <1>0, <1>2, <1>6, <2>1, <2>2 DEF CacheTrue
    <2>7. FetchTrue'  BY <1>0, <1>2, <1>6, <2>1, <2>2 DEF FetchTrue
    <2>. QED  BY <2>3, <2>4, <2>5, <2>6, <2>7 DEF TemplateInv
  <1>. QED  BY <1>5, <1>6 DEF SaveAnswered

LEMMA RenamedIsTrue ==
  ASSUME TemplateInv, RenamedElsewhere  PROVE TemplateInv'
PROOF
  <1>0. EditorTypes /\ OneEach /\ FormOpen /\ CacheTrue /\ FetchTrue  BY DEF TemplateInv
  <1>1. PICK t \in Templates, c \in Contents :
          held' = [held EXCEPT ![t] = c] /\ passed' = passed \cup {t}
    BY DEF RenamedElsewhere
  <1>2. UNCHANGED <<cached, cacheStale, fetching, edited, layout, touched, storing, strayed>>
    BY DEF RenamedElsewhere
  <1>3. held' \in [Templates -> Contents] /\ \A r \in Templates \ {t} : held'[r] = held[r]
    BY <1>0, <1>1 DEF EditorTypes
  <1>4. EditorTypes'  BY <1>0, <1>1, <1>2, <1>3 DEF EditorTypes
  <1>5. OneEach'  BY <1>0, <1>2 DEF OneEach
  <1>6. FormOpen'  BY <1>0, <1>2 DEF FormOpen
  <1>7. CacheTrue'  BY <1>0, <1>1, <1>2, <1>3 DEF CacheTrue, SaveHasRun
  <1>8. FetchTrue'
    <2>1. \A f \in fetching : f.template \in Templates  BY <1>0 DEF EditorTypes, Fetches
    <2>. QED  BY <1>0, <1>1, <1>2, <1>3, <2>1 DEF FetchTrue, SaveHasRun
  <1>. QED  BY <1>4, <1>5, <1>6, <1>7, <1>8 DEF TemplateInv

LEMMA TemplateKept == TemplateInv /\ [TemplateEditorNext]_tplEditorVars => TemplateInv'
PROOF
  <1>1. ASSUME TemplateInv, UNCHANGED tplEditorVars  PROVE TemplateInv'
    BY <1>1 DEF tplEditorVars, TemplateInv, EditorTypes, OneEach, FormOpen, CacheTrue, FetchTrue,
       SaveHasRun
  <1>. QED  BY <1>1, FormKeeps, AskedIsTrue, AnsweredIsTrue, DraftSavedIsTrue, SaveRunIsTrue,
               SaveAnswerIsTrue, RenamedIsTrue
         DEF TemplateEditorNext

(* A form that is not touched shows the template as it is.                 *)
LEMMA TemplateScreen == TemplateInv => EditorIsTrue
PROOF
  <1>1. SUFFICES ASSUME TemplateInv, edited # NoTemplate, ~touched, ~EditorLoading,
                        edited \notin cacheStale, edited \notin passed,
                        \A s \in storing : s.template # edited
                 PROVE  layout = held[edited]
    BY DEF EditorIsTrue
  <1>2. edited \in Templates /\ touched = FALSE  BY <1>1 DEF TemplateInv, EditorTypes
  <1>3. layout = cached[edited]  BY <1>1, <1>2 DEF TemplateInv, FormOpen
  <1>4. ~SaveHasRun(edited) /\ cached[edited] # NoContent
    BY <1>1 DEF SaveHasRun, EditorLoading
  <1>. QED  BY <1>1, <1>2, <1>3, <1>4 DEF TemplateInv, CacheTrue

(* A changed form is given up only in the ways GivenUpByAnswers names.     *)
LEMMA TemplateSteps ==
  ASSUME TemplateInv, [TemplateEditorNext]_tplEditorVars
  PROVE  touched /\ ~touched' =>
           \/ EditorClosed \/ strayed
           \/ \E s \in storing \ storing' : s.template = edited
           \/ edited' = edited /\ layout' # cached[edited] /\ layout' = cached'[edited]
PROOF
  <1>. SUFFICES ASSUME touched, ~touched', ~strayed
                PROVE  \/ EditorClosed
                       \/ \E s \in storing \ storing' : s.template = edited
                       \/ edited' = edited /\ layout' # cached[edited] /\ layout' = cached'[edited]
    OBVIOUS
  <1>1. touched = TRUE /\ strayed = FALSE /\ edited # NoTemplate
    BY DEF TemplateInv, EditorTypes, FormOpen
  <1>2. CASE \E f \in fetching : TemplateAnswered(f)
    <2>1. PICK f \in fetching : TemplateAnswered(f)  BY <1>2
    <2>2. /\ FormFilled(f) /\ layout' = f.content
          /\ cached' = [cached EXCEPT ![f.template] = f.content] /\ edited' = edited
      BY <1>1, <2>1 DEF TemplateAnswered
    <2>3. f.template \in Templates /\ cached \in [Templates -> Contents \cup {NoContent}]
      BY DEF TemplateInv, EditorTypes, Fetches
    <2>. QED  BY <2>2, <2>3 DEF FormFilled
  <1>3. CASE \E s \in storing : SaveAnswered(s)
    <2>1. PICK s \in storing : SaveAnswered(s)  BY <1>3
    <2>2. storing' = storing \ {s}  BY <2>1 DEF SaveAnswered
    <2>3. s.template = edited  BY <1>1 DEF TemplateInv, FormOpen
    <2>. QED  BY <2>2, <2>3
  <1>4. ~EditorOpened  BY <1>1 DEF EditorOpened
  <1>5. /\ ~TemplateAsked /\ ~DraftEdited /\ ~DraftSaved /\ ~RenamedElsewhere
        /\ ~UNCHANGED tplEditorVars /\ \A s \in storing : ~SaveRuns(s)
    BY <1>1 DEF TemplateAsked, DraftEdited, DraftSaved, RenamedElsewhere, tplEditorVars, SaveRuns
  <1>. QED  BY <1>2, <1>3, <1>4, <1>5 DEF TemplateEditorNext

HIDE TemplateEditorAssumption

-----------------------------------------------------------------------------
(* The panel                                                               *)

(* A step of the panel is a step of each page, or leaves it alone.         *)
LEMMA PagesSteps ==
  ASSUME [PagesNext]_<<page, cardVars, adminVars, tplVars>>
  PROVE  /\ [EditorNext]_editorVars /\ [BlockRowsNext]_rowVars /\ [SlugNext]_slugVars
         /\ [ListNext]_listVars /\ [MessagesNext]_msgVars /\ [WizardNext]_wizVars
         /\ [RegionNext]_regionVars /\ [LoginNext]_loginVars
         /\ [TemplateEditorNext]_tplEditorVars /\ [TemplatesPanelNext]_panelVars
         /\ [MenuNext]_menuVars
PROOF
  <1>1. CASE UNCHANGED <<page, cardVars, adminVars, tplVars>>
    BY <1>1 DEF cardVars, adminVars, tplVars
  <1>2. CASE EditorTurn
    BY <1>2 DEF EditorTurn, RestOfCards, adminVars, tplVars
  <1>3. CASE RowsTurn
    BY <1>3 DEF RowsTurn, RestOfCards, adminVars, tplVars
  <1>4. CASE SlugTurn
    BY <1>4 DEF SlugTurn, RestOfCards, adminVars, tplVars
  <1>5. CASE ListTurn
    BY <1>5 DEF ListTurn, RestOfCards, adminVars, tplVars
  <1>6. CASE MessagesTurn
    BY <1>6 DEF MessagesTurn, RestOfCards, adminVars, tplVars
  <1>7. CASE ImportTurn
    BY <1>7 DEF ImportTurn, RestOfAdmin, cardVars, tplVars
  <1>8. CASE RegionsTurn
    BY <1>8 DEF RegionsTurn, RestOfAdmin, cardVars, tplVars
  <1>9. CASE LoginTurn
    BY <1>9 DEF LoginTurn, RestOfAdmin, cardVars, tplVars
  <1>10. CASE TemplateTurn
    BY <1>10 DEF TemplateTurn, RestOfLayouts, cardVars, adminVars
  <1>11. CASE LayoutsTurn
    BY <1>11 DEF LayoutsTurn, RestOfLayouts, cardVars, adminVars
  <1>12. CASE MenuTurn
    BY <1>12 DEF MenuTurn, RestOfLayouts, cardVars, adminVars
  <1>. QED  BY <1>1, <1>2, <1>3, <1>4, <1>5, <1>6, <1>7, <1>8, <1>9, <1>10, <1>11, <1>12
         DEF PagesNext

(* The inductive invariant of the panel: that of every page.               *)
PagesInv ==
  /\ EditorInv /\ ListsInv /\ NamesInv /\ SlugInv /\ ListInv /\ MessagesInv
  /\ WizardInv /\ RegionInv /\ LoginInv
  /\ TemplateInv /\ LayoutsInv /\ MenuInv

LEMMA PagesInitially == PagesInit => PagesInv
  BY EditorInitially, ListsInitially, NamesInitially, SlugInitially, ListInitially,
     MessagesInitially, WizardInitially, RegionInitially, LoginInitially, TemplateInitially,
     LayoutsInitially, MenuInitially
  DEF PagesInit, PagesInv

LEMMA PagesKept ==
  PagesInv /\ [PagesNext]_<<page, cardVars, adminVars, tplVars>> => PagesInv'
  BY PagesSteps, EditorKept, RowsKept, SlugKept, ListKept, MessagesKept, WizardKept, RegionKept,
     LoginKept, TemplateKept, LayoutsKept, MenuKept
  DEF PagesInv

(* Every page of the panel keeps its inductive invariant, whatever the     *)
(* sets of cards, people, templates and jobs: forms, caches, requests on   *)
(* their way and what the server holds stay in step.                       *)
THEOREM PagesInvariance == PagesSpec => []PagesInv
  BY PagesInitially, PagesKept, PTL DEF PagesSpec

(* A form that is not being edited shows what the server holds: the card   *)
(* editor after refused changes of a logo, saves without blanks and        *)
(* refetches, the template's editor after saves and answers in any order.  *)
(* Lost answers, overlapping changes of the logo and changes that others   *)
(* make are the exceptions (`uncertain', `foreign', `passed').             *)
THEOREM FormsAreTrue == PagesSpec => []FormsShowStored
PROOF
  <1>1. PagesInv => FormsShowStored
    BY EditorScreen, TemplateScreen DEF PagesInv, FormsShowStored
  <1>. QED  BY <1>1, PagesInvariance, PTL

(* The lists of cards and of templates show what there is once nothing is  *)
(* stale or on its way, the menu the names there are, and no page is empty *)
(* but after a search or a deletion; a list whose query a deletion         *)
(* overtook is the exception.                                              *)
THEOREM ListsShowWhatIs == PagesSpec => []ListsAreTrue
PROOF
  <1>1. PagesInv => ListsAreTrue
    BY ListIsTrue, LayoutsOnPage, MenuShows DEF PagesInv, ListsAreTrue
  <1>. QED  BY <1>1, PagesInvariance, PTL

(* However rows are added, taken out, dragged and reloaded, ids follow     *)
(* their blocks, names reach the row or field they were picked for unless  *)
(* it was moved or replaced meanwhile, and contacts the region they were   *)
(* written for.                                                            *)
THEOREM RowsKeepHome == PagesSpec => []RowsStayHome
PROOF
  <1>1. PagesInv => RowsStayHome
    BY RowsHome, RegionsHome DEF PagesInv, RowsStayHome
  <1>. QED  BY <1>1, PagesInvariance, PTL

(* A dialog that is opened again, or for another card, answers for itself: *)
(* a slug may be taken only if it was found free, and no card gets the     *)
(* file that was put into the dialog of another, whatever requests are     *)
(* answered, fail or are lost meanwhile.                                   *)
THEOREM DialogsAnswerForThemselves == PagesSpec => []DialogsAreTheirOwn
PROOF
  <1>1. PagesInv => DialogsAreTheirOwn
    BY SlugButton, MessagesShow DEF PagesInv, DialogsAreTheirOwn
  <1>. QED  BY <1>1, PagesInvariance, PTL

(* Once the requests about a card, of any number of admins, are through,   *)
(* it is valid if it has no message and invalid if one says so: but for a  *)
(* card with a request that failed half-way, or on which a publication and *)
(* a removal overlapped where each takes the other's effect back.          *)
THEOREM ValidityIsExplained == PagesSpec => []ValidityFollowsMessages
PROOF
  <1>1. PagesInv => ValidityFollowsMessages
    BY MessagesShow DEF PagesInv
  <1>. QED  BY <1>1, PagesInvariance, PTL

(* The import dialog polls the job it shows as running unless a poll has   *)
(* failed, and shows as its end a status the job has had unless answers of *)
(* two jobs were mixed up, although the server may still overwrite an end. *)
THEOREM ImportsAreWatched == PagesSpec => []ImportIsWatched
PROOF
  <1>1. PagesInv => ImportIsWatched
    BY DEF PagesInv, WizardInv, ImportIsWatched
  <1>. QED  BY <1>1, PagesInvariance, PTL

(* An edit that has raised the flag is not dropped by leaving the card's   *)
(* page without a question (inputs without it, the deaf moment and a page  *)
(* that has created its card are the exceptions); the form changes under   *)
(* the admin only by a load; the template's form is given up only by its   *)
(* user, who is not asked, or by an answer.                                *)
THEOREM EditsGo == PagesSpec => EditsGoByKnownWays
PROOF
  <1>1. PagesInv /\ [PagesNext]_<<page, cardVars, adminVars, tplVars>> =>
          [mode # "left" /\ mode' = "left" /\ dialog # "quit" =>
             bypass \/ Unsaved \subseteq excused]_editorVars
    BY PagesSteps, EditorSteps DEF PagesInv
  <1>2. PagesInv /\ [PagesNext]_<<page, cardVars, adminVars, tplVars>> =>
          [touched /\ ~touched' =>
             \/ EditorClosed \/ strayed
             \/ \E s \in storing \ storing' : s.template = edited
             \/ edited' = edited /\ layout' # cached[edited] /\ layout' = cached'[edited]
          ]_tplEditorVars
    BY PagesSteps, TemplateSteps DEF PagesInv
  <1>3. PagesInv /\ [PagesNext]_<<page, cardVars, adminVars, tplVars>> =>
          [\A f \in Inputs \ {"logo"} : screen'[f] # screen[f] /\ mode' # "left" =>
             edits' = edits + 1 \/ (fetch = "answered" /\ screen' = coming /\ base' = coming)
          ]_editorVars
    BY PagesSteps, FormSteps DEF PagesInv
  <1>4. PagesSpec => FlaggedEditsAsk
    BY <1>1, PagesInvariance, PTL DEF PagesSpec, FlaggedEditsAsk
  <1>5. PagesSpec => GivenUpByAnswers
    BY <1>2, PagesInvariance, PTL DEF PagesSpec, GivenUpByAnswers
  <1>6. PagesSpec => TypingStands
    BY <1>3, PagesInvariance, PTL DEF PagesSpec, TypingStands
  <1>. QED  BY <1>4, <1>5, <1>6 DEF EditsGoByKnownWays

(* What is done is what was confirmed: a changed name or date as approved  *)
(* or as the page had been shown it, and a template's cards are deleted    *)
(* only if that was chosen for this template.                              *)
THEOREM DoneIsConfirmed == PagesSpec => DoneAsConfirmed
PROOF
  <1>1. PagesInv /\ PagesInv' /\ [PagesNext]_<<page, cardVars, adminVars, tplVars>> =>
          CriticalApproved /\ CardsGoByChoice' /\ MenuCardsGoByChoice'
    <2>1. PagesInv /\ [PagesNext]_<<page, cardVars, adminVars, tplVars>> => CriticalApproved
      BY PagesSteps, EditorSteps DEF PagesInv
    <2>2. PagesInv => CardsGoByChoice /\ MenuCardsGoByChoice
      BY LayoutsByChoice, MenuByChoice DEF PagesInv
    <2>3. PagesInv' => CardsGoByChoice' /\ MenuCardsGoByChoice'
      BY <2>2, PTL
    <2>. QED  BY <2>1, <2>3
  <1>2. PagesInv /\ PagesInv' /\ [PagesNext]_<<page, cardVars, adminVars, tplVars>> =>
          [CriticalApproved /\ CardsGoByChoice' /\ MenuCardsGoByChoice']_<<cardVars, tplVars>>
    BY <1>1
  <1>. QED  BY <1>2, PagesInvariance, PTL DEF PagesSpec, DoneAsConfirmed

(* Only the form that was submitted signs in, unless its page was left     *)
(* with a request under way, and a refused login leaves the choice of the  *)
(* storage alone.                                                          *)
THEOREM LoginsAreTheirOwn == PagesSpec => LoginIsItsOwn
PROOF
  <1>1. PagesInv => SignedInAsAsked  BY LoginAsAsked DEF PagesInv
  <1>2. PagesInv' => SignedInAsAsked'  BY <1>1, PTL
  <1>3. PagesInv /\ PagesInv' /\ [PagesNext]_<<page, cardVars, adminVars, tplVars>> =>
          [SignedInAsAsked' /\ FailureKeepsStorage]_loginVars
    BY <1>2, PagesSteps, StorageKept DEF PagesInv
  <1>. QED  BY <1>3, PagesInvariance, PTL DEF PagesSpec, LoginIsItsOwn

===============================================================================
