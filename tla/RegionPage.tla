------------------------------ MODULE RegionPage ------------------------------
(***************************************************************************)
(* The contacts of the regions: one list query for all of them, a selected *)
(* region, and a copy of its contacts that is edited and saved. An effect  *)
(* takes the copy anew when the region or its row in the list changes.     *)
(***************************************************************************)
EXTENDS Integers

CONSTANTS
  Regions,        \* DEFAULT_REGION and the others
  DEFAULT_REGION,
  Configured,     \* the regions that have a row at first
  MaxUpserts      \* bound of the model: contacts stored

ASSUME RegionAssumption ==
  /\ DEFAULT_REGION \in Regions /\ Configured \subseteq Regions
  /\ MaxUpserts \in Nat

(* Contacts are told apart by the region they were loaded or typed for,    *)
(* and a row by its updated_at.                                            *)
Contacts == {"none"} \cup Regions
NoRow    == [contacts |-> "none", version |-> 0]
RegionRows == [contacts : Contacts, version : 0..(MaxUpserts + 1)]
Changes    == [region : Regions, contacts : Contacts, done : BOOLEAN]

VARIABLES
  regionRows,   \* the rows of the server; NoRow where there is none
  upserts,
  loadedRows,   \* rows: {} until they are loaded
  rowsLoading,  \* isLoading
  rowsWanted,   \* the list query is under way
  rowsRead,     \* what the server read for it
  selected, contacts,  \* region, contacts
  upserting, removing  \* saveMutation and deleteMutation

regionVars == <<regionRows, upserts, loadedRows, rowsLoading, rowsWanted, rowsRead, selected,
                contacts, upserting, removing>>

RegionTypeOK ==
  /\ regionRows \in [Regions -> RegionRows] /\ upserts \in 0..MaxUpserts
  /\ loadedRows \subseteq [Regions -> RegionRows]
  /\ rowsRead \subseteq [Regions -> RegionRows]
  /\ {rowsLoading, rowsWanted} \subseteq BOOLEAN
  /\ selected \in Regions /\ contacts \in Contacts
  /\ upserting \subseteq Changes /\ removing \subseteq Changes

RegionInit ==
  /\ regionRows = [r \in Regions |->
                    IF r \in Configured THEN [contacts |-> r, version |-> 1] ELSE NoRow]
  /\ upserts = 0 /\ loadedRows = {} /\ rowsLoading = TRUE
  /\ rowsWanted = TRUE /\ rowsRead = {}
  /\ selected = DEFAULT_REGION /\ contacts = "none"
  /\ upserting = {} /\ removing = {}

CurrentRow(rows, r) == UNION {{row[r]} : row \in rows} \ {NoRow}
ContactsOf(rows, r) ==
  IF CurrentRow(rows, r) = {} THEN "none"
  ELSE (CHOOSE row \in CurrentRow(rows, r) : TRUE).contacts

(* The effect on the region and its row, for those to come.                *)
EffectOnRegion(rows, r) ==
  contacts' = IF r = selected /\ CurrentRow(rows, r) = CurrentRow(loadedRows, selected)
                THEN contacts ELSE ContactsOf(rows, r)

RowsReadByServer ==
  /\ rowsWanted /\ rowsRead = {} /\ rowsRead' = {regionRows}
  /\ UNCHANGED <<regionRows, upserts, loadedRows, rowsLoading, rowsWanted, selected, contacts,
                 upserting, removing>>

RowsLand ==
  /\ rowsRead # {} /\ rowsRead' = {} /\ rowsWanted' = FALSE /\ rowsLoading' = FALSE
  /\ loadedRows' = rowsRead
  /\ EffectOnRegion(rowsRead, selected)
  /\ UNCHANGED <<regionRows, upserts, selected, upserting, removing>>

RowsFail ==
  /\ rowsWanted /\ rowsWanted' = FALSE /\ rowsRead' = {} /\ rowsLoading' = FALSE
  /\ UNCHANGED <<regionRows, upserts, loadedRows, selected, contacts, upserting, removing>>

RegionChosen ==
  /\ \E r \in Regions \ {selected} : selected' = r /\ EffectOnRegion(loadedRows, r)
  /\ UNCHANGED <<regionRows, upserts, loadedRows, rowsLoading, rowsWanted, rowsRead, upserting,
                 removing>>

(* Rows are added, changed or taken out; those typed are for this region.  *)
ContactsEdited ==
  /\ ~rowsLoading
  /\ contacts' \in IF contacts = "none" THEN {selected} ELSE {"none"}
  /\ UNCHANGED <<regionRows, upserts, loadedRows, rowsLoading, rowsWanted, rowsRead, selected,
                 upserting, removing>>

(* The button is there while the list is loading, too.                     *)
UpsertClicked ==
  /\ upserting = {}
  /\ upserting' = {[region |-> selected, contacts |-> contacts, done |-> FALSE]}
  /\ UNCHANGED <<regionRows, upserts, loadedRows, rowsLoading, rowsWanted, rowsRead, selected,
                 contacts, removing>>

RegionRemoveClicked ==
  /\ removing = {} /\ selected # DEFAULT_REGION /\ CurrentRow(loadedRows, selected) # {}
  /\ removing' = {[region |-> selected, contacts |-> "none", done |-> FALSE]}
  /\ UNCHANGED <<regionRows, upserts, loadedRows, rowsLoading, rowsWanted, rowsRead, selected,
                 contacts, upserting>>

Done(changes) == {[c EXCEPT !.done = TRUE] : c \in changes}

UpsertRuns ==
  /\ upserts < MaxUpserts /\ upserts' = upserts + 1
  /\ \E c \in upserting :
       /\ ~c.done
       /\ regionRows' = [regionRows EXCEPT
                          ![c.region] = [contacts |-> c.contacts, version |-> upserts + 2]]
  /\ upserting' = Done(upserting)
  /\ UNCHANGED <<loadedRows, rowsLoading, rowsWanted, rowsRead, selected, contacts, removing>>

RemoveRuns ==
  /\ \E c \in removing :
       /\ ~c.done /\ regionRows[c.region] # NoRow
       /\ regionRows' = [regionRows EXCEPT ![c.region] = NoRow]
  /\ removing' = Done(removing)
  /\ UNCHANGED <<upserts, loadedRows, rowsLoading, rowsWanted, rowsRead, selected, contacts,
                 upserting>>

(* invalidateQueries: a query under way is abandoned and sent anew.        *)
RowsInvalidated == rowsWanted' = TRUE /\ rowsRead' = {}

(* An answer that is lost, or that refuses, is only reported.              *)
UpsertAnswered ==
  /\ upserting # {} /\ upserting' = {}
  /\ \/ UNCHANGED <<rowsWanted, rowsRead>>
     \/ (\E c \in upserting : c.done) /\ RowsInvalidated
  /\ UNCHANGED <<regionRows, upserts, loadedRows, rowsLoading, selected, contacts, removing>>

(* The page goes to the default region, whichever is selected by now.      *)
RemoveAnswered ==
  /\ removing # {} /\ removing' = {}
  /\ \/ UNCHANGED <<rowsWanted, rowsRead, selected, contacts>>
     \/ /\ \E c \in removing : c.done
        /\ RowsInvalidated
        /\ selected' = DEFAULT_REGION /\ EffectOnRegion(loadedRows, DEFAULT_REGION)
  /\ UNCHANGED <<regionRows, upserts, loadedRows, rowsLoading, upserting>>

RegionNext ==
  \/ RowsReadByServer \/ RowsLand \/ RowsFail
  \/ RegionChosen \/ ContactsEdited \/ UpsertClicked \/ RegionRemoveClicked
  \/ UpsertRuns \/ RemoveRuns \/ UpsertAnswered \/ RemoveAnswered

RegionSpec == RegionInit /\ [][RegionNext]_regionVars

-----------------------------------------------------------------------------
(* What was typed or loaded for one region is neither shown nor stored for *)
(* another, whatever is selected while lists, saves and removals are under *)
(* way, and also between regions that have no contacts yet.                *)
ContactsStayHome ==
  /\ contacts \in {"none", selected}
  /\ \A r \in Regions : regionRows[r].contacts \in {"none", r}

=============================================================================
