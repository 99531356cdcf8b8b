------------------------------ MODULE BlockRows ------------------------------
(***************************************************************************)
(* The rows of contact blocks and the sheet that names them. The editor    *)
(* keeps an id for every row beside the blocks of its parent and matches   *)
(* the two by position. The sheet applies a name to a row by its position, *)
(* to a field by its key: for a name that is first saved, to what the      *)
(* sheet was open for when it was sent.                                    *)
(***************************************************************************)
EXTENDS Integers, Sequences, FiniteSets, SequencesExt

CONSTANTS
  FieldKeys,  \* the fields and custom rows, which are named by key
  MaxBlocks,  \* bound of the model: blocks told apart at a time
  MaxAdded,   \* bound of the model: rows added
  MaxLoads    \* bound of the model: times the parent replaces the blocks

ASSUME RowsAssumption ==
  /\ IsFiniteSet(FieldKeys) /\ MaxBlocks \in Nat
  /\ MaxAdded \in Nat /\ MaxLoads \in Nat

Numbers  == 1..MaxBlocks            \* tell the blocks apart, as the code does not
Owners   == [kind : {"row", "key"}, of : Numbers \cup FieldKeys \cup {0}]
RowIds   == (0..MaxLoads) \X Nat    \* "cb-n" is <<0, n>>, an id of the effect has its load
Places   == [kind : {"row"}, at : Nat] \cup [kind : {"key"}, at : FieldKeys]

VARIABLES
  blocks,     \* value: each block, and the history of the id it was given and of whether
              \* it has a name that was picked for another
  rowIds,     \* ids
  idCounter, reloads,
  fieldsAstray, \* history: the fields with a name that was picked for another row
  picker,     \* pickerTarget; the sheet is open when there is one
  draftName,  \* draft is not blank
  creating,   \* create.isPending: the place the answer goes to, and the history of whom
              \* the name is for and whether the rows have moved since
  shrunk, readded  \* history: a row was taken out, and one was added after that

rowVars == <<blocks, rowIds, idCounter, reloads, fieldsAstray, picker, draftName, creating,
             shrunk, readded>>

BlockRecords == [block : Numbers, astray : BOOLEAN, id : RowIds]

RowsTypeOK ==
  /\ \A i \in DOMAIN blocks : blocks[i] \in BlockRecords
  /\ \A i \in DOMAIN rowIds : rowIds[i] \in RowIds
  /\ idCounter \in 0..MaxAdded /\ reloads \in 0..MaxLoads
  /\ fieldsAstray \subseteq FieldKeys
  /\ picker \subseteq Places /\ {draftName, shrunk, readded} \subseteq BOOLEAN
  /\ creating \subseteq [place : Places, owner : Owners, moved : BOOLEAN]

Block(b, id) == [block |-> b, astray |-> FALSE, id |-> id]

(* Numbers for k blocks that nothing refers to.                            *)
Fresh(k) ==
  LET used == {blocks[i].block : i \in DOMAIN blocks} \cup {c.owner.of : c \in creating}
      free == Numbers \ used
  IN {ns \in [1..k -> free] : \A i \in 1..k : Cardinality({n \in free : n < ns[i]}) = i - 1}

(* A parent mounts the editor with its blocks, or with none.               *)
RowsInit ==
  /\ blocks \in {<<>>, <<Block(1, <<0, 0>>), Block(2, <<0, 1>>)>>}
  /\ rowIds = [i \in DOMAIN blocks |-> blocks[i].id]
  /\ idCounter = 0 /\ reloads = 0
  /\ fieldsAstray = {}
  /\ picker = {} /\ draftName = FALSE /\ creating = {}
  /\ shrunk = FALSE /\ readded = FALSE

-----------------------------------------------------------------------------
(* The rows                                                                *)

NewId == <<0, idCounter + Len(blocks)>>

addContact ==
  /\ picker = {} /\ idCounter < MaxAdded
  /\ \E ns \in Fresh(1) : blocks' = Append(blocks, Block(ns[1], NewId))
  /\ rowIds' = Append(rowIds, NewId)
  /\ idCounter' = idCounter + 1
  /\ readded' = (readded \/ shrunk)
  /\ UNCHANGED <<reloads, fieldsAstray, picker, draftName, creating, shrunk>>

Shifted == {[c EXCEPT !.moved = TRUE] : c \in creating}

(* A slip: left to the effect, which cuts the ids at the end.              *)
IdsCut(i) == SubSeq(rowIds, 1, Len(rowIds) - 1)

IdsWithout(i) == RemoveAt(rowIds, i)

removeAt(i) ==
  /\ picker = {}
  /\ blocks' = RemoveAt(blocks, i)
  /\ rowIds' = IdsWithout(i)
  /\ creating' = Shifted /\ shrunk' = TRUE
  /\ UNCHANGED <<idCounter, reloads, fieldsAstray, picker, draftName, readded>>

arrayMove(s, from, to) == InsertAt(RemoveAt(s, from), to, s[from])

(* Both rows are looked up by id: of two with one id, the first is meant.  *)
handleDragEnd(i, j) ==
  LET At(k) == SelectInSeq(rowIds, LAMBDA id : id = rowIds[k])
  IN /\ picker = {} /\ rowIds[i] # rowIds[j]
     /\ blocks' = arrayMove(blocks, At(i), At(j))
     /\ rowIds' = arrayMove(rowIds, At(i), At(j))
     /\ creating' = Shifted
     /\ UNCHANGED <<idCounter, reloads, fieldsAstray, picker, draftName, shrunk, readded>>

(* The parent loads other blocks; an effect adds or cuts ids at the end.   *)
Replaced ==
  LET n == reloads + 1
      IdAt(i) == IF i <= Len(rowIds) THEN rowIds[i] ELSE <<n, i>>
  IN /\ reloads < MaxLoads /\ reloads' = n
     /\ \E k \in 0..2 :
          /\ rowIds' = [i \in 1..k |-> IdAt(i)]
          /\ \E ns \in Fresh(k) : blocks' = [i \in 1..k |-> Block(ns[i], IdAt(i))]
          /\ shrunk' = (shrunk \/ k < Len(blocks))
     /\ creating' = Shifted
     /\ UNCHANGED <<idCounter, fieldsAstray, picker, draftName, readded>>

-----------------------------------------------------------------------------
(* The sheet                                                               *)

openPicker ==
  /\ picker = {}
  /\ \/ \E i \in DOMAIN blocks : picker' = {[kind |-> "row", at |-> i]}
     \/ \E k \in FieldKeys : picker' = {[kind |-> "key", at |-> k]}
  /\ draftName' = FALSE
  /\ UNCHANGED <<blocks, rowIds, idCounter, reloads, fieldsAstray, creating, shrunk, readded>>

DraftTyped ==
  /\ picker # {} /\ draftName' = ~draftName
  /\ UNCHANGED <<blocks, rowIds, idCounter, reloads, fieldsAstray, picker, creating, shrunk, readded>>

SheetClosed ==
  /\ picker # {} /\ picker' = {} /\ draftName' = FALSE
  /\ UNCHANGED <<blocks, rowIds, idCounter, reloads, fieldsAstray, creating, shrunk, readded>>

(* Whom a name picked for a place is for: a row that is gone is nobody.    *)
OwnerOf(p) ==
  [kind |-> p.kind,
   of |-> IF p.kind = "key" THEN p.at
          ELSE IF p.at \in DOMAIN blocks THEN blocks[p.at].block ELSE 0]

(* A name that was picked for `owner' is set at the place p.               *)
applyPickedLabel(p, owner) ==
  LET At(i) == p.kind = "row" /\ p.at = i
  IN /\ blocks' = [i \in DOMAIN blocks |->
          IF At(i) THEN [blocks[i] EXCEPT !.astray = (owner # OwnerOf(p))] ELSE blocks[i]]
     /\ fieldsAstray' = IF p.kind = "row" THEN fieldsAstray
                       ELSE IF owner = OwnerOf(p) THEN fieldsAstray \ {p.at}
                       ELSE fieldsAstray \cup {p.at}

(* A preset of the user's own or of the system.                            *)
handlePick ==
  /\ \E p \in picker : applyPickedLabel(p, OwnerOf(p))
  /\ picker' = {} /\ draftName' = FALSE
  /\ UNCHANGED <<rowIds, idCounter, reloads, creating, shrunk, readded>>

handleCreate ==
  /\ draftName /\ creating = {}
  /\ \E p \in picker :
       creating' = {[place |-> p, owner |-> OwnerOf(p), moved |-> OwnerOf(p).of = 0]}
  /\ UNCHANGED <<blocks, rowIds, idCounter, reloads, fieldsAstray, picker, draftName, shrunk, readded>>

PlaceAtClick(c) == c.place

(* The name is applied, and whatever the sheet is open for by now, it is   *)
(* closed. A failure leaves it as it is.                                   *)
CreateAnswered ==
  /\ creating # {} /\ creating' = {}
  /\ \/ UNCHANGED <<blocks, fieldsAstray, picker, draftName>>
     \/ /\ \E c \in creating :
             applyPickedLabel(PlaceAtClick(c),
                              IF c.moved /\ c.place.kind = "row" THEN OwnerOf(c.place)
                              ELSE c.owner)
        /\ picker' = {} /\ draftName' = FALSE
  /\ UNCHANGED <<rowIds, idCounter, reloads, shrunk, readded>>

BlockRowsNext ==
  \/ addContact \/ Replaced
  \/ \E i \in DOMAIN blocks : removeAt(i) \/ \E j \in DOMAIN blocks : handleDragEnd(i, j)
  \/ openPicker \/ DraftTyped \/ SheetClosed \/ handlePick \/ handleCreate \/ CreateAnswered

BlockRowsSpec == RowsInit /\ [][BlockRowsNext]_rowVars

-----------------------------------------------------------------------------
(* Every block keeps the id its row was given, and with it the row's own   *)
(* state, however rows are added, dragged and taken out: the two lists,    *)
(* which are set apart from each other, never slip.                        *)
IdsFollowBlocks ==
  /\ Len(rowIds) = Len(blocks)
  /\ \A i \in DOMAIN blocks : rowIds[i] = blocks[i].id

(* Two rows have one id only when a row was added after one was taken out: *)
(* the number of a new id may then be that of a row still there.           *)
IdsDistinct ==
  ~readded => \A i, j \in DOMAIN rowIds : rowIds[i] = rowIds[j] => i = j

(* A name goes to the field or row it was picked for, though the sheet may *)
(* be closed and opened for another one before a new name is saved. Only a *)
(* row that was moved or replaced meanwhile may miss it, and another get   *)
(* it: a row is named by its position.                                     *)
NamesGoHome == fieldsAstray = {} /\ \A i \in DOMAIN blocks : ~blocks[i].astray

=============================================================================
