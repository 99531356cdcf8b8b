----------------------------- MODULE SessionProofs -----------------------------
(***************************************************************************)
(* Proofs about the sessions of an account, for any number of requests,    *)
(* tokens and versions.                                                    *)
(***************************************************************************)
EXTENDS RefreshTokens, FiniteSetTheorems, TLAPS

-----------------------------------------------------------------------------
(* RefreshTokens: the inductive invariant.                                 *)

(* Ids are handed out in order, and a family bears the id of its login.    *)
IdsInOrder == \A t \in Issued : family[t] \in 1..t

(* Nobody has seen a version that is still to come.                        *)
VersionsKnown ==
  /\ \A t \in Issued : claim[t] <= version
  /\ \A s \in Slots : seen[s] <= version

Rotations == {s \in Slots : pc[s] \in {"user", "create", "rotate"}}

(* What a request keeps of the tokens it works on.                         *)
LocalsHeld ==
  /\ \A s \in Slots :
       pc[s] \in {"user", "create", "rotate", "chain", "commitChain"} => tok[s] \in Issued
  /\ \A s \in Slots :
       pc[s] = "rotate" => fresh[s] \in Issued /\ family[fresh[s]] = FamilyOf(s)

(* A request that is to insert a token into a family that was ended has    *)
(* been noted when the family ended.                                       *)
InsertersNoted ==
  \A s \in Inserting : FamilyOf(s) \in ended => FamilyOf(s) \in stray

(* The UPDATE that is to commit found every live token it ends, but for    *)
(* those that were inserted since and are noted.                           *)
Covers(s, t) ==
  \/ pc[s] \in {"commitAll", "commitCut"}
  \/ pc[s] = "commitChain" /\ family[t] = FamilyOf(s)

SnapshotsComplete ==
  \A s \in Slots, t \in Live :
    Covers(s, t) => t \in doomed[s] \/ family[t] \in stray

(* The client holds no live token of a family but the one being rotated,   *)
(* and two rotations of a family have been noted.                          *)
RotatedAlone ==
  \A s \in Rotations : FamilyOf(s) \notin doubled =>
    /\ \A u \in Live \cap held : family[u] = FamilyOf(s) => u = tok[s]
    /\ \A q \in Rotations : FamilyOf(q) = FamilyOf(s) => q = s

OneUsable ==
  \A t, u \in Live \cap held :
    family[t] = family[u] /\ family[t] \notin doubled => t = u

(* The row of users is locked by one transaction at a time, until it has   *)
(* counted the version up.                                                 *)
UserRowLocked ==
  \A s \in Slots : pc[s] = "commitCut" =>
    /\ version < MaxVersion
    /\ \A q \in Slots : pc[q] = "commitCut" => q = s

TokensInv ==
  /\ TypeOK /\ UserRowLocked /\ IdsInOrder /\ VersionsKnown /\ LocalsHeld /\ InsertersNoted
  /\ SnapshotsComplete /\ RotatedAlone /\ OneUsable
  /\ EndedStaysEnded /\ CutEndsAccess


USE TokensAssumption DEF table, request, history, vars, Tokens, Issued, Rows, Live, FamilyOf

LEMMA TokensInitially == Init => TokensInv
  BY DEF Init, TokensInv, TypeOK, IdsInOrder, VersionsKnown, LocalsHeld, InsertersNoted,
         UserRowLocked, Inserting, SnapshotsComplete, RotatedAlone, Rotations, OneUsable,
         EndedStaysEnded, CutEndsAccess

(* The sets of rows, for proofs that need not know the ids to be numbers.   *)
LEMMA RowSets ==
  ASSUME TypeOK
  PROVE  /\ deleted \subseteq Issued /\ revoked \subseteq Rows /\ held \subseteq Rows
         /\ Rows \subseteq Issued /\ Live \subseteq Rows
         /\ Issued \subseteq Tokens /\ 0 \notin Issued
         /\ ended \subseteq Issued /\ cut \subseteq ended
         /\ stray \subseteq Issued /\ doubled \subseteq Issued
PROOF
  <1>1. PICK k \in 0..count : deleted = 1..k  BY DEF TypeOK
  <1>2. count \in Nat /\ deleted \subseteq Issued  BY <1>1 DEF TypeOK
  <1>3. Issued \subseteq Tokens /\ 0 \notin Issued  BY DEF TypeOK
  <1>. QED  BY <1>2, <1>3 DEF TypeOK

(* A request that returns keeps nothing.                                   *)
LEMMA ReturnTyped ==
  ASSUME TypeOK, NEW s \in Slots, Return(s)
  PROVE  /\ pc' \in [Slots -> {"idle", "issue", "user", "create", "rotate", "chain",
                               "bumped", "commitChain", "commitAll", "commitCut"}]
         /\ tok' \in [Slots -> Issued \cup {0}] /\ fresh' \in [Slots -> Issued \cup {0}]
         /\ doomed' \in [Slots -> SUBSET Issued] /\ seen' \in [Slots -> 0..MaxVersion]
PROOF
  <1> USE DEF Return, Goto
  <1>1. pc' \in [Slots -> {"idle", "issue", "user", "create", "rotate", "chain",
                          "bumped", "commitChain", "commitAll", "commitCut"}]
    BY DEF TypeOK
  <1>2. tok' \in [Slots -> Issued \cup {0}] /\ fresh' \in [Slots -> Issued \cup {0}]
    BY DEF TypeOK
  <1>3. doomed' \in [Slots -> SUBSET Issued]  BY DEF TypeOK
  <1>4. seen' \in [Slots -> 0..MaxVersion]
    <2>1. 0 \in 0..MaxVersion  BY DEF TypeOK
    <2>. QED  BY <2>1 DEF TypeOK
  <1>. QED  BY <1>1, <1>2, <1>3, <1>4

(* A row that is inserted is a token after all others; the columns of the  *)
(* others are left alone.                                                  *)
LEMMA InsertAppends ==
  ASSUME TypeOK, IdsInOrder, NEW f \in 1..(count + 1), NEW v \in 0..MaxVersion, Insert(f, v)
  PROVE  /\ count' = count + 1 /\ count + 1 \in Tokens /\ count + 1 \notin Issued
         /\ Issued' = Issued \cup {count + 1}
         /\ Rows' = Rows \cup {count + 1} /\ Live' = Live \cup {count + 1}
         /\ family' \in [Tokens -> Tokens] /\ claim' \in [Tokens -> 0..MaxVersion]
         /\ deleted' \in {1..k : k \in 0..count'}
         /\ family'[count + 1] = f /\ claim'[count + 1] = v
         /\ \A t \in Issued : /\ family'[t] = family[t] /\ family[t] \in Issued
                              /\ claim'[t] = claim[t]
PROOF
  <1> USE DEF Insert
  <1>1. /\ count \in Nat /\ count' = count + 1 /\ count + 1 \in Tokens
        /\ count + 1 \notin Issued /\ Issued \subseteq Tokens
    BY DEF TypeOK
  <1>2. deleted' \in {1..k : k \in 0..count'}  BY <1>1 DEF TypeOK
  <1>3. Issued' = Issued \cup {count + 1}  BY <1>1
  <1>4. deleted \subseteq Issued /\ revoked \subseteq Issued  BY RowSets
  <1>5. Rows' = Rows \cup {count + 1} /\ Live' = Live \cup {count + 1}
    <2> HIDE DEF Issued
    <2>. QED  BY <1>1, <1>3, <1>4
  <1>6. f \in Tokens  BY <1>1
  <1>7. family \in [Tokens -> Tokens] /\ claim \in [Tokens -> 0..MaxVersion]  BY DEF TypeOK
  <1>8. \A t \in Issued : family[t] \in Issued
    <2> TAKE t \in Issued
    <2>1. family[t] \in 1..t  BY DEF IdsInOrder
    <2>. QED  BY <2>1, <1>1
  <1> HIDE DEF Issued, Tokens
  <1>. QED  BY <1>1, <1>2, <1>3, <1>5, <1>6, <1>7, <1>8

LEMMA StepLoginChecks ==
  ASSUME TokensInv, NEW s \in Slots, LoginChecks(s)  PROVE TokensInv'
PROOF
  <1> USE DEF TokensInv, LoginChecks, Goto, Return
  <1>1. TypeOK'  BY DEF TypeOK, LocalsHeld
  <1>2. IdsInOrder'  BY DEF TypeOK, IdsInOrder
  <1>3. VersionsKnown'  BY DEF TypeOK, VersionsKnown
  <1>4. LocalsHeld'  BY DEF TypeOK, LocalsHeld
  <1>5. InsertersNoted'  BY DEF TypeOK, InsertersNoted, Inserting
  <1>6. SnapshotsComplete'  BY DEF TypeOK, SnapshotsComplete, Covers
  <1>7. RotatedAlone'  BY DEF TypeOK, RotatedAlone, Rotations
  <1>8. OneUsable'  BY DEF TypeOK, OneUsable
  <1>9. EndedStaysEnded'  BY DEF TypeOK, EndedStaysEnded
  <1>10. CutEndsAccess'  BY DEF TypeOK, CutEndsAccess
  <1>11. UserRowLocked'  BY DEF TypeOK, UserRowLocked, UserLocked
  <1>. QED  BY <1>1, <1>2, <1>3, <1>4, <1>5, <1>6, <1>7, <1>8, <1>9, <1>10, <1>11

LEMMA StepLoginIssues ==
  ASSUME TokensInv, NEW s \in Slots, LoginIssues(s)  PROVE TokensInv'
PROOF
  <1> USE DEF TokensInv, LoginIssues, Goto, Return
  <1>a. /\ count + 1 \in 1..(count + 1) /\ seen[s] \in 0..MaxVersion
        /\ Insert(count + 1, seen[s])
    BY DEF TypeOK
  <1>b. /\ count' = count + 1 /\ count + 1 \in Tokens /\ count + 1 \notin Issued
        /\ Issued' = Issued \cup {count + 1}
        /\ Rows' = Rows \cup {count + 1} /\ Live' = Live \cup {count + 1}
        /\ family' \in [Tokens -> Tokens] /\ claim' \in [Tokens -> 0..MaxVersion]
        /\ deleted' \in {1..k : k \in 0..count'}
        /\ family'[count + 1] = count + 1 /\ claim'[count + 1] = seen[s]
        /\ \A t \in Issued : /\ family'[t] = family[t] /\ family[t] \in Issued
                             /\ claim'[t] = claim[t]
    BY <1>a, InsertAppends
  <1>c. /\ pc'[s] = "idle" /\ tok'[s] = 0 /\ seen'[s] = 0
        /\ \A q \in Slots \ {s} : /\ pc'[q] = pc[q] /\ tok'[q] = tok[q] /\ seen'[q] = seen[q]
                                  /\ fresh'[q] = fresh[q] /\ doomed'[q] = doomed[q]
        /\ held' = held \cup {count + 1} /\ stray' = stray \cup Unseen(count + 1)
        /\ UNCHANGED <<version, deleted, revoked, ended, cut, doubled>>
    BY DEF TypeOK, Insert
  <1>d. /\ revoked \subseteq Rows /\ held \subseteq Rows /\ Live \subseteq Rows
        /\ Rows \subseteq Issued /\ 0 \notin Issued
        /\ ended \subseteq Issued /\ cut \subseteq ended /\ stray \subseteq Issued
        /\ doubled \subseteq Issued
    BY RowSets
  <1>e. /\ tok \in [Slots -> Issued \cup {0}] /\ fresh \in [Slots -> Issued \cup {0}]
        /\ doomed \in [Slots -> SUBSET Issued] /\ seen \in [Slots -> 0..MaxVersion]
        /\ pc \in [Slots -> {"idle", "issue", "user", "create", "rotate", "chain",
                             "bumped", "commitChain", "commitAll", "commitCut"}]
        /\ version \in 0..MaxVersion
    BY DEF TypeOK
  <1>g. count' \in 0..MaxTokens  BY <1>b
  <1> HIDE DEF Issued, Rows, Live, Tokens
  <1>f. /\ pc' \in [Slots -> {"idle", "issue", "user", "create", "rotate", "chain",
                              "bumped", "commitChain", "commitAll", "commitCut"}]
        /\ tok' \in [Slots -> Issued' \cup {0}] /\ fresh' \in [Slots -> Issued' \cup {0}]
        /\ doomed' \in [Slots -> SUBSET Issued'] /\ seen' \in [Slots -> 0..MaxVersion]
    BY <1>b, <1>c, <1>e
  <1> HIDE DEF LoginIssues, Goto, Return
  <1>1. TypeOK'
    <2>1. revoked' \subseteq Rows' /\ held' \subseteq Rows'  BY <1>b, <1>c, <1>d
    <2>2. /\ stray' \subseteq Issued' /\ ended' \subseteq Issued' /\ cut' \subseteq ended'
          /\ doubled' \subseteq Issued'
      BY <1>a, <1>b, <1>c, <1>d DEF Unseen
    <2>. QED  BY <1>b, <1>c, <1>e, <1>f, <1>g, <2>1, <2>2 DEF TypeOK
  <1>2. IdsInOrder'  BY <1>a, <1>b, <1>c DEF IdsInOrder
  <1>3. VersionsKnown'
    <2>1. \A t \in Issued' : claim'[t] <= version'  BY <1>b, <1>c DEF VersionsKnown
    <2>2. \A q \in Slots : seen'[q] <= version'  BY <1>c, <1>e DEF VersionsKnown
    <2>. QED  BY <2>1, <2>2 DEF VersionsKnown
  <1>4. LocalsHeld'  BY <1>b, <1>c, <1>d DEF LocalsHeld
  <1>5. InsertersNoted'  BY <1>b, <1>c DEF InsertersNoted, Inserting, LocalsHeld
  <1>6. SnapshotsComplete'
    <2> SUFFICES ASSUME NEW q \in Slots \ {s}, NEW t \in Live', Covers(q, t)'
                 PROVE  t \in doomed'[q] \/ family'[t] \in stray'
      BY <1>c DEF SnapshotsComplete, Covers
    <2>1. CASE t \in Live
      BY <2>1, <1>b, <1>c, <1>d DEF SnapshotsComplete, Covers, LocalsHeld
    <2>2. CASE t = count + 1
      <3>1. ~(pc[q] = "commitChain" /\ family'[t] = family'[tok'[q]])
        BY <2>2, <1>b, <1>c DEF LocalsHeld
      <3>2. pc[q] \in {"commitAll", "commitCut"}  BY <3>1, <1>c DEF Covers
      <3>. QED  BY <2>2, <3>2, <1>b, <1>c DEF Unseen
    <2>. QED  BY <1>b, <2>1, <2>2
  <1>7. RotatedAlone'
    <2> SUFFICES ASSUME NEW q \in Slots \ {s}, q \in Rotations, FamilyOf(q) \notin doubled
                 PROVE  /\ \A u \in (Live \cap held)' : family'[u] = FamilyOf(q) => u = tok[q]
                        /\ \A p \in Rotations \ {s} : FamilyOf(p) = FamilyOf(q) => p = q
      BY <1>b, <1>c DEF RotatedAlone, Rotations, LocalsHeld
    <2>1. tok[q] \in Issued /\ FamilyOf(q) \in Issued  BY <1>b DEF Rotations, LocalsHeld
    <2>. QED  BY <2>1, <1>b, <1>c, <1>d DEF RotatedAlone
  <1>8. OneUsable'  BY <1>b, <1>c, <1>d DEF OneUsable
  <1>9. EndedStaysEnded'  BY <1>b, <1>c, <1>d DEF EndedStaysEnded
  <1>10. CutEndsAccess'  BY <1>b, <1>c, <1>d DEF CutEndsAccess
  <1>11. UserRowLocked'  BY <1>c DEF UserRowLocked
  <1>. QED  BY <1>1, <1>2, <1>3, <1>4, <1>5, <1>6, <1>7, <1>8, <1>9, <1>10, <1>11

LEMMA StepReadUser ==
  ASSUME TokensInv, NEW s \in Slots, ReadUser(s)  PROVE TokensInv'
PROOF
  <1> USE DEF TokensInv, ReadUser, Goto, Return
  <1>1. TypeOK'  BY DEF TypeOK, LocalsHeld
  <1>2. IdsInOrder'  BY DEF TypeOK, IdsInOrder
  <1>3. VersionsKnown'  BY DEF TypeOK, VersionsKnown
  <1>4. LocalsHeld'  BY DEF TypeOK, LocalsHeld
  <1>5. InsertersNoted'  BY DEF TypeOK, InsertersNoted, Inserting
  <1>6. SnapshotsComplete'  BY DEF TypeOK, SnapshotsComplete, Covers
  <1>7. RotatedAlone'  BY DEF TypeOK, RotatedAlone, Rotations
  <1>8. OneUsable'  BY DEF TypeOK, OneUsable
  <1>9. EndedStaysEnded'  BY DEF TypeOK, EndedStaysEnded
  <1>10. CutEndsAccess'  BY DEF TypeOK, CutEndsAccess
  <1>11. UserRowLocked'  BY DEF TypeOK, UserRowLocked, UserLocked
  <1>. QED  BY <1>1, <1>2, <1>3, <1>4, <1>5, <1>6, <1>7, <1>8, <1>9, <1>10, <1>11

LEMMA StepCreateNext ==
  ASSUME TokensInv, NEW s \in Slots, CreateNext(s)  PROVE TokensInv'
PROOF
  <1> USE DEF TokensInv, CreateNext, Goto, Return
  <1>a. /\ pc[s] = "create" /\ tok[s] \in Issued /\ FamilyOf(s) \in 1..(count + 1)
        /\ seen[s] \in 0..MaxVersion /\ Insert(FamilyOf(s), seen[s])
    <2>1. pc[s] = "create" /\ tok[s] \in Issued /\ count \in Nat  BY DEF LocalsHeld, TypeOK
    <2>2. FamilyOf(s) \in 1..tok[s]  BY <2>1 DEF IdsInOrder
    <2>3. FamilyOf(s) \in 1..(count + 1)  BY <2>1, <2>2
    <2>. QED  BY <2>1, <2>3 DEF TypeOK
  <1>b. /\ count' = count + 1 /\ count + 1 \in Tokens /\ count + 1 \notin Issued
        /\ Issued' = Issued \cup {count + 1}
        /\ Rows' = Rows \cup {count + 1} /\ Live' = Live \cup {count + 1}
        /\ family' \in [Tokens -> Tokens] /\ claim' \in [Tokens -> 0..MaxVersion]
        /\ deleted' \in {1..k : k \in 0..count'}
        /\ family'[count + 1] = FamilyOf(s) /\ claim'[count + 1] = seen[s]
        /\ \A t \in Issued : /\ family'[t] = family[t] /\ family[t] \in Issued
                             /\ claim'[t] = claim[t]
    BY <1>a, InsertAppends
  <1>c. /\ pc'[s] = "rotate" /\ fresh'[s] = count + 1
        /\ \A q \in Slots \ {s} : pc'[q] = pc[q] /\ fresh'[q] = fresh[q]
        /\ stray' = stray \cup Unseen(FamilyOf(s))
        /\ UNCHANGED <<version, held, tok, seen, doomed, deleted, revoked, ended, cut, doubled>>
    BY DEF TypeOK, Insert
  <1>d. /\ revoked \subseteq Rows /\ held \subseteq Rows /\ Live \subseteq Rows
        /\ Rows \subseteq Issued /\ 0 \notin Issued
        /\ ended \subseteq Issued /\ cut \subseteq ended /\ stray \subseteq Issued
        /\ doubled \subseteq Issued
    BY RowSets
  <1>e. /\ tok \in [Slots -> Issued \cup {0}] /\ fresh \in [Slots -> Issued \cup {0}]
        /\ doomed \in [Slots -> SUBSET Issued] /\ seen \in [Slots -> 0..MaxVersion]
        /\ pc \in [Slots -> {"idle", "issue", "user", "create", "rotate", "chain",
                             "bumped", "commitChain", "commitAll", "commitCut"}]
        /\ version \in 0..MaxVersion
    BY DEF TypeOK
  <1>g. count' \in 0..MaxTokens  BY <1>b
  <1> HIDE DEF Issued, Rows, Live, Tokens
  <1>f. /\ pc' \in [Slots -> {"idle", "issue", "user", "create", "rotate", "chain",
                              "bumped", "commitChain", "commitAll", "commitCut"}]
        /\ tok' \in [Slots -> Issued' \cup {0}] /\ fresh' \in [Slots -> Issued' \cup {0}]
        /\ doomed' \in [Slots -> SUBSET Issued'] /\ seen' \in [Slots -> 0..MaxVersion]
    BY <1>b, <1>c, <1>e
  <1> HIDE DEF CreateNext, Goto, Return
  <1>1. TypeOK'
    <2>1. revoked' \subseteq Rows' /\ held' \subseteq Rows'  BY <1>b, <1>c, <1>d
    <2>2. /\ stray' \subseteq Issued' /\ ended' \subseteq Issued' /\ cut' \subseteq ended'
          /\ doubled' \subseteq Issued'
      BY <1>a, <1>b, <1>c, <1>d DEF Unseen
    <2>. QED  BY <1>b, <1>c, <1>e, <1>f, <1>g, <2>1, <2>2 DEF TypeOK
  <1>2. IdsInOrder'  BY <1>a, <1>b, <1>c DEF IdsInOrder
  <1>3. VersionsKnown'  BY <1>b, <1>c, <1>e DEF VersionsKnown
  <1>4. LocalsHeld'
    <2> SUFFICES ASSUME NEW q \in Slots
                 PROVE  /\ pc'[q] \in {"user", "create", "rotate", "chain", "commitChain"}
                              => tok[q] \in Issued'
                        /\ pc'[q] = "rotate" =>
                             fresh'[q] \in Issued' /\ family'[fresh'[q]] = family'[tok[q]]
      BY <1>c DEF LocalsHeld
    <2>1. CASE q = s  BY <2>1, <1>a, <1>b, <1>c
    <2>2. CASE q # s  BY <2>2, <1>b, <1>c DEF LocalsHeld
    <2>. QED  BY <2>1, <2>2
  <1>5. InsertersNoted'  BY <1>b, <1>c DEF InsertersNoted, Inserting, LocalsHeld
  <1>6. SnapshotsComplete'
    <2> SUFFICES ASSUME NEW q \in Slots, NEW t \in Live', Covers(q, t)'
                 PROVE  t \in doomed'[q] \/ family'[t] \in stray'
      BY DEF SnapshotsComplete
    <2>1. q # s  BY <1>c DEF Covers
    <2>2. CASE t \in Live
      BY <2>1, <2>2, <1>b, <1>c, <1>d DEF SnapshotsComplete, Covers, LocalsHeld
    <2>3. CASE t = count + 1
      BY <2>1, <2>3, <1>b, <1>c, <1>d DEF Covers, LocalsHeld, Unseen
    <2>. QED  BY <1>b, <2>2, <2>3
  <1>7. RotatedAlone'
    <2> SUFFICES ASSUME NEW q \in Rotations, FamilyOf(q) \notin doubled
                 PROVE  /\ \A u \in (Live \cap held)' : family'[u] = FamilyOf(q) => u = tok[q]
                        /\ \A p \in Rotations : FamilyOf(p) = FamilyOf(q) => p = q
      BY <1>a, <1>b, <1>c DEF RotatedAlone, Rotations, LocalsHeld
    <2>. QED  BY <1>b, <1>c, <1>d DEF RotatedAlone
  <1>8. OneUsable'  BY <1>b, <1>c, <1>d DEF OneUsable
  <1>9. EndedStaysEnded'
    BY <1>a, <1>b, <1>c, <1>d DEF EndedStaysEnded, InsertersNoted, Inserting
  <1>10. CutEndsAccess'
    BY <1>a, <1>b, <1>c, <1>d DEF CutEndsAccess, InsertersNoted, Inserting
  <1>11. UserRowLocked'  BY <1>c, <1>d DEF UserRowLocked
  <1>. QED  BY <1>1, <1>2, <1>3, <1>4, <1>5, <1>6, <1>7, <1>8, <1>9, <1>10, <1>11

LEMMA StepRotate ==
  ASSUME TokensInv, NEW s \in Slots, Rotate(s)  PROVE TokensInv'
PROOF
  <1> USE DEF TokensInv, Rotate, Goto, Return
  <1>a. /\ tok[s] \in Issued /\ fresh[s] \in Issued /\ family[fresh[s]] = FamilyOf(s)
        /\ s \in Rotations
    BY DEF LocalsHeld, Rotations
  <1>b. /\ pc'[s] = "idle"
        /\ \A q \in Slots \ {s} : pc'[q] = pc[q] /\ tok'[q] = tok[q]
    BY DEF TypeOK
  <1>1. TypeOK'
    <2>1. revoked' \subseteq Rows' /\ held' \subseteq Rows'  BY <1>a DEF TypeOK, Superseded
    <2>2. UNCHANGED <<version, count, family, claim, deleted, ended, cut, stray, doubled>>
      OBVIOUS
    <2>3. /\ pc' \in [Slots -> {"idle", "issue", "user", "create", "rotate", "chain",
                               "bumped", "commitChain", "commitAll", "commitCut"}]
          /\ tok' \in [Slots -> Issued \cup {0}] /\ fresh' \in [Slots -> Issued \cup {0}]
      BY DEF TypeOK
    <2>4. doomed' \in [Slots -> SUBSET Issued] /\ seen' \in [Slots -> 0..MaxVersion]
      BY DEF TypeOK
    <2>. QED  BY <2>1, <2>2, <2>3, <2>4 DEF TypeOK
  <1>2. IdsInOrder'  BY DEF TypeOK, IdsInOrder
  <1>3. VersionsKnown'  BY DEF TypeOK, VersionsKnown
  <1>4. LocalsHeld'  BY DEF TypeOK, LocalsHeld
  <1>5. InsertersNoted'  BY DEF TypeOK, InsertersNoted, Inserting
  <1>6. SnapshotsComplete'  BY DEF TypeOK, SnapshotsComplete, Covers
  <1>7. RotatedAlone'
    <2> SUFFICES ASSUME NEW q \in Slots \ {s}, q \in Rotations, FamilyOf(q) \notin doubled
                 PROVE  /\ \A u \in (Live \cap held)' : family[u] = FamilyOf(q) => u = tok[q]
                        /\ \A p \in Rotations \ {s} : FamilyOf(p) = FamilyOf(q) => p = q
      BY <1>b DEF RotatedAlone, Rotations
    <2>1. FamilyOf(q) # FamilyOf(s)  BY <1>a DEF RotatedAlone
    <2>. QED  BY <2>1, <1>a DEF RotatedAlone
  <1>8. OneUsable'
    <2> SUFFICES ASSUME NEW t \in (Live \cap held)', NEW u \in (Live \cap held)',
                        family[t] = family[u], family[t] \notin doubled
                 PROVE  t = u
      BY DEF OneUsable
    <2>1. CASE family[t] = FamilyOf(s)
      BY <2>1, <1>a DEF RotatedAlone, Superseded
    <2>2. CASE family[t] # FamilyOf(s)
      BY <2>2, <1>a DEF OneUsable
    <2>. QED  BY <2>1, <2>2
  <1>9. EndedStaysEnded'  BY DEF TypeOK, EndedStaysEnded
  <1>10. CutEndsAccess'  BY DEF TypeOK, CutEndsAccess
  <1>11. UserRowLocked'  BY DEF TypeOK, UserRowLocked, UserLocked
  <1>. QED  BY <1>1, <1>2, <1>3, <1>4, <1>5, <1>6, <1>7, <1>8, <1>9, <1>10, <1>11

LEMMA StepRevokeChain ==
  ASSUME TokensInv, NEW s \in Slots, RevokeChain(s)  PROVE TokensInv'
PROOF
  <1> USE DEF TokensInv, RevokeChain, Goto, Return
  <1>a. /\ pc[s] = "chain" /\ tok[s] \in Issued
        /\ \/ pc'[s] = "idle"
           \/ /\ pc'[s] = "commitChain" /\ tok'[s] = tok[s]
              /\ doomed'[s] = Chain(tok[s])
        /\ \A q \in Slots \ {s} : /\ pc'[q] = pc[q] /\ tok'[q] = tok[q]
                                  /\ fresh'[q] = fresh[q] /\ doomed'[q] = doomed[q]
        /\ \A q \in Slots : seen'[q] \in {0, seen[q]}
        /\ UNCHANGED <<version, table, held, history>>
    BY DEF TypeOK, LocalsHeld
  <1>b. /\ tok' \in [Slots -> Issued \cup {0}] /\ fresh' \in [Slots -> Issued \cup {0}]
        /\ seen' \in [Slots -> 0..MaxVersion]
    <2>1. CASE Return(s)
      <3> HIDE DEF Return
      <3>. QED  BY <2>1, ReturnTyped
    <2>2. CASE UNCHANGED <<tok, seen, fresh>>  BY <2>2 DEF TypeOK
    <2>. QED  BY <2>1, <2>2
  <1>c. pc' \in [Slots -> {"idle", "issue", "user", "create", "rotate", "chain",
                          "bumped", "commitChain", "commitAll", "commitCut"}]
    BY DEF TypeOK
  <1>d. doomed' \in [Slots -> SUBSET Issued]  BY DEF TypeOK, Chain
  <1> HIDE DEF RevokeChain, Goto, Return
  <1>1. TypeOK'  BY <1>a, <1>b, <1>c, <1>d DEF TypeOK
  <1>2. IdsInOrder'  BY <1>a DEF IdsInOrder
  <1>3. VersionsKnown'
    <2>1. version \in Nat  BY DEF TypeOK
    <2>. QED  BY <1>a, <2>1 DEF VersionsKnown
  <1>4. LocalsHeld'  BY <1>a DEF LocalsHeld
  <1>5. InsertersNoted'  BY <1>a DEF InsertersNoted, Inserting
  <1>6. SnapshotsComplete'
    <2> SUFFICES ASSUME NEW q \in Slots, NEW t \in Live, Covers(q, t)'
                 PROVE  t \in doomed'[q] \/ family[t] \in stray
      BY <1>a DEF SnapshotsComplete
    <2>1. CASE q = s  BY <2>1, <1>a DEF Covers, Chain
    <2>2. CASE q # s  BY <2>2, <1>a DEF SnapshotsComplete, Covers
    <2>. QED  BY <2>1, <2>2
  <1>7. RotatedAlone'  BY <1>a DEF RotatedAlone, Rotations
  <1>8. OneUsable'  BY <1>a DEF OneUsable
  <1>9. EndedStaysEnded'  BY <1>a DEF EndedStaysEnded
  <1>10. CutEndsAccess'  BY <1>a DEF CutEndsAccess
  <1>11. UserRowLocked'  BY <1>a DEF UserRowLocked
  <1>. QED  BY <1>1, <1>2, <1>3, <1>4, <1>5, <1>6, <1>7, <1>8, <1>9, <1>10, <1>11

LEMMA StepCutRevokes ==
  ASSUME TokensInv, NEW s \in Slots, CutRevokes(s)  PROVE TokensInv'
PROOF
  <1> USE DEF TokensInv, CutRevokes, Goto, Return
  <1>1. TypeOK'  BY DEF TypeOK, LocalsHeld
  <1>2. IdsInOrder'  BY DEF TypeOK, IdsInOrder
  <1>3. VersionsKnown'  BY DEF TypeOK, VersionsKnown
  <1>4. LocalsHeld'  BY DEF TypeOK, LocalsHeld
  <1>5. InsertersNoted'  BY DEF TypeOK, InsertersNoted, Inserting
  <1>6. SnapshotsComplete'  BY DEF TypeOK, SnapshotsComplete, Covers
  <1>7. RotatedAlone'  BY DEF TypeOK, RotatedAlone, Rotations
  <1>8. OneUsable'  BY DEF TypeOK, OneUsable
  <1>9. EndedStaysEnded'  BY DEF TypeOK, EndedStaysEnded
  <1>10. CutEndsAccess'  BY DEF TypeOK, CutEndsAccess
  <1>11. UserRowLocked'  BY DEF TypeOK, UserRowLocked, UserLocked
  <1>. QED  BY <1>1, <1>2, <1>3, <1>4, <1>5, <1>6, <1>7, <1>8, <1>9, <1>10, <1>11

LEMMA StepAdminBumps ==
  ASSUME TokensInv, NEW s \in Slots, AdminBumps(s)  PROVE TokensInv'
PROOF
  <1> USE DEF TokensInv, AdminBumps, Goto, Return
  <1>1. TypeOK'
    <2>1. version' \in 0..MaxVersion  BY DEF TypeOK
    <2>2. UNCHANGED <<count, family, claim, revoked, deleted, held, tok, seen, fresh, doomed,
                      ended, cut, stray, doubled>>
      OBVIOUS
    <2>. QED  BY <2>1, <2>2 DEF TypeOK
  <1>2. IdsInOrder'  BY DEF TypeOK, IdsInOrder
  <1>3. VersionsKnown'  BY DEF TypeOK, VersionsKnown
  <1>4. LocalsHeld'  BY DEF TypeOK, LocalsHeld
  <1>5. InsertersNoted'  BY DEF TypeOK, InsertersNoted, Inserting
  <1>6. SnapshotsComplete'  BY DEF TypeOK, SnapshotsComplete, Covers
  <1>7. RotatedAlone'  BY DEF TypeOK, RotatedAlone, Rotations
  <1>8. OneUsable'  BY DEF TypeOK, OneUsable
  <1>9. EndedStaysEnded'  BY DEF TypeOK, EndedStaysEnded
  <1>10. CutEndsAccess'  BY DEF TypeOK, CutEndsAccess, VersionsKnown
  <1>11. UserRowLocked'  BY DEF TypeOK, UserRowLocked, UserLocked
  <1>. QED  BY <1>1, <1>2, <1>3, <1>4, <1>5, <1>6, <1>7, <1>8, <1>9, <1>10, <1>11

LEMMA StepAdminRevokes ==
  ASSUME TokensInv, NEW s \in Slots, AdminRevokes(s)  PROVE TokensInv'
PROOF
  <1> USE DEF TokensInv, AdminRevokes, Goto, Return
  <1>1. TypeOK'  BY DEF TypeOK, LocalsHeld
  <1>2. IdsInOrder'  BY DEF TypeOK, IdsInOrder
  <1>3. VersionsKnown'  BY DEF TypeOK, VersionsKnown
  <1>4. LocalsHeld'  BY DEF TypeOK, LocalsHeld
  <1>5. InsertersNoted'  BY DEF TypeOK, InsertersNoted, Inserting
  <1>6. SnapshotsComplete'  BY DEF TypeOK, SnapshotsComplete, Covers
  <1>7. RotatedAlone'  BY DEF TypeOK, RotatedAlone, Rotations
  <1>8. OneUsable'  BY DEF TypeOK, OneUsable
  <1>9. EndedStaysEnded'  BY DEF TypeOK, EndedStaysEnded
  <1>10. CutEndsAccess'  BY DEF TypeOK, CutEndsAccess
  <1>11. UserRowLocked'  BY DEF TypeOK, UserRowLocked, UserLocked
  <1>. QED  BY <1>1, <1>2, <1>3, <1>4, <1>5, <1>6, <1>7, <1>8, <1>9, <1>10, <1>11

LEMMA StepCommit ==
  ASSUME TokensInv, NEW s \in Slots, Commit(s)  PROVE TokensInv'
PROOF
  <1> USE DEF TokensInv, Commit, Goto, Return
  <1>a. /\ pc[s] \in {"commitChain", "commitAll", "commitCut"}
        /\ pc'[s] = "idle" /\ tok'[s] = 0 /\ seen'[s] = 0
        /\ \A q \in Slots \ {s} : /\ pc'[q] = pc[q] /\ tok'[q] = tok[q] /\ seen'[q] = seen[q]
                                  /\ fresh'[q] = fresh[q] /\ doomed'[q] = doomed[q]
        /\ version' = Bumped(s) /\ revoked' = revoked \cup (doomed[s] \ deleted)
        /\ UNCHANGED <<count, family, claim, deleted, held, doubled>>
    BY DEF TypeOK
  <1>b. /\ pc' \in [Slots -> {"idle", "issue", "user", "create", "rotate", "chain",
                              "bumped", "commitChain", "commitAll", "commitCut"}]
        /\ tok' \in [Slots -> Issued \cup {0}] /\ fresh' \in [Slots -> Issued \cup {0}]
        /\ doomed' \in [Slots -> SUBSET Issued] /\ seen' \in [Slots -> 0..MaxVersion]
    <2> HIDE DEF Return
    <2>. QED  BY ReturnTyped
  <1> DEFINE all == pc[s] \in {"commitAll", "commitCut"}
             ending == IF all THEN Families ELSE {FamilyOf(s)}
             between == IF pc[s] = "commitAll"
                          THEN {family[t] : t \in {u \in Issued : claim[u] = version}}
                          ELSE {}
  <1>c. /\ ended' = ended \cup ending
        /\ cut' = cut \cup IF all THEN ending ELSE {}
        /\ stray' = stray \cup (ending \cap (Escaping \cup between))
    OBVIOUS
  <1>d. \A t \in Issued : family[t] \in Issued
    <2> TAKE t \in Issued
    <2>1. family[t] \in 1..t  BY DEF IdsInOrder
    <2>. QED  BY <2>1 DEF TypeOK
  <1>e. ending \subseteq Issued  BY <1>a, <1>d DEF LocalsHeld, Families
  <1>f. version' \in 0..MaxVersion /\ version <= version'
        /\ (pc[s] # "commitCut" => version' = version)
        /\ (pc[s] = "commitCut" => version' = version + 1)
    BY <1>a DEF TypeOK, Bumped, UserRowLocked
  <1>g. /\ revoked \subseteq Rows /\ held \subseteq Rows /\ Live \subseteq Rows
        /\ Rows \subseteq Issued /\ 0 \notin Issued
        /\ ended \subseteq Issued /\ cut \subseteq ended /\ stray \subseteq Issued
        /\ doubled \subseteq Issued
    BY RowSets
  <1>h. doomed[s] \subseteq Issued  BY DEF TypeOK
  <1> HIDE DEF Commit, Goto, Return, all, ending, between
  <1>1. TypeOK'
    <2>1. revoked' \subseteq Rows'  BY <1>a, <1>g, <1>h
    <2>2. /\ ended' \subseteq Issued' /\ cut' \subseteq ended' /\ stray' \subseteq Issued'
      BY <1>a, <1>c, <1>e, <1>g
    <2>. QED  BY <1>a, <1>b, <1>f, <2>1, <2>2 DEF TypeOK
  <1>2. IdsInOrder'  BY <1>a DEF IdsInOrder
  <1>3. VersionsKnown'
    <2>1. \A t \in Issued : claim[t] <= version'
      BY <1>f DEF VersionsKnown, TypeOK
    <2>2. \A q \in Slots : seen'[q] <= version'
      BY <1>a, <1>f DEF VersionsKnown, TypeOK
    <2>. QED  BY <1>a, <2>1, <2>2 DEF VersionsKnown
  <1>4. LocalsHeld'  BY <1>a DEF LocalsHeld
  <1>5. InsertersNoted'
    <2> SUFFICES ASSUME NEW q \in Inserting, q # s, FamilyOf(q) \in ended'
                 PROVE  FamilyOf(q) \in stray'
      BY <1>a DEF InsertersNoted, Inserting
    <2>1. FamilyOf(q) \in Escaping  BY DEF Escaping
    <2>. QED  BY <2>1, <1>c DEF InsertersNoted
  <1>6. SnapshotsComplete'  BY <1>a, <1>c DEF SnapshotsComplete, Covers
  <1>7. RotatedAlone'  BY <1>a DEF RotatedAlone, Rotations
  <1>8. OneUsable'  BY <1>a DEF OneUsable
  <1>9. EndedStaysEnded'
    <2> SUFFICES ASSUME NEW t \in Live', family[t] \in ended'  PROVE family[t] \in stray'
      BY <1>a DEF EndedStaysEnded
    <2>1. t \in Live /\ t \notin doomed[s]  BY <1>a
    <2>2. CASE family[t] \in ended  BY <2>1, <2>2, <1>c DEF EndedStaysEnded
    <2>3. CASE family[t] \in ending
      <3>1. Covers(s, t)  BY <2>3, <1>a DEF Covers, ending, all
      <3>. QED  BY <2>1, <3>1, <1>c DEF SnapshotsComplete
    <2>. QED  BY <2>2, <2>3, <1>c
  <1>10. CutEndsAccess'
    <2> SUFFICES ASSUME NEW t \in Issued, claim[t] = version', family[t] \in cut'
                 PROVE  family[t] \in stray'
      BY <1>a DEF CutEndsAccess
    <2>1. pc[s] # "commitCut" /\ version' = version
      BY <1>f DEF VersionsKnown, TypeOK
    <2>2. CASE family[t] \in cut  BY <2>1, <2>2, <1>c DEF CutEndsAccess
    <2>3. CASE family[t] \notin cut
      <3>1. pc[s] = "commitAll" /\ family[t] \in ending
        BY <2>1, <2>3, <1>a, <1>c DEF all
      <3>2. family[t] \in between  BY <2>1, <3>1 DEF between
      <3>. QED  BY <3>1, <3>2, <1>c
    <2>. QED  BY <2>2, <2>3
  <1>11. UserRowLocked'  BY <1>a, <1>f DEF UserRowLocked
  <1>. QED  BY <1>1, <1>2, <1>3, <1>4, <1>5, <1>6, <1>7, <1>8, <1>9, <1>10, <1>11

LEMMA StepAbort ==
  ASSUME TokensInv, NEW s \in Slots, Abort(s)  PROVE TokensInv'
PROOF
  <1> USE DEF TokensInv, Abort, Goto, Return
  <1>1. TypeOK'
    <2>1. UNCHANGED <<version, count, family, claim, revoked, deleted, held,
                      ended, cut, stray, doubled>>
      OBVIOUS
    <2>2. tok' \in [Slots -> Issued \cup {0}] /\ fresh' \in [Slots -> Issued \cup {0}]
      BY DEF TypeOK
    <2>3. doomed' \in [Slots -> SUBSET Issued]  BY DEF TypeOK
    <2>4. seen' \in [Slots -> 0..MaxVersion]  BY DEF TypeOK
    <2>. QED  BY <2>1, <2>2, <2>3, <2>4 DEF TypeOK
  <1>2. IdsInOrder'  BY DEF TypeOK, IdsInOrder
  <1>3. VersionsKnown'  BY DEF TypeOK, VersionsKnown
  <1>4. LocalsHeld'  BY DEF TypeOK, LocalsHeld
  <1>5. InsertersNoted'  BY DEF TypeOK, InsertersNoted, Inserting
  <1>6. SnapshotsComplete'  BY DEF TypeOK, SnapshotsComplete, Covers
  <1>7. RotatedAlone'  BY DEF TypeOK, RotatedAlone, Rotations
  <1>8. OneUsable'  BY DEF TypeOK, OneUsable
  <1>9. EndedStaysEnded'  BY DEF TypeOK, EndedStaysEnded
  <1>10. CutEndsAccess'  BY DEF TypeOK, CutEndsAccess
  <1>11. UserRowLocked'  BY DEF TypeOK, UserRowLocked, UserLocked
  <1>. QED  BY <1>1, <1>2, <1>3, <1>4, <1>5, <1>6, <1>7, <1>8, <1>9, <1>10, <1>11

LEMMA StepPresent ==
  ASSUME TokensInv, NEW s \in Slots, NEW t \in Issued, Present(s, t)  PROVE TokensInv'
PROOF
  <1> USE DEF TokensInv, Present, Goto, Return
  <1>a. /\ pc[s] = "idle" /\ pc'[s] \in {"chain", "user"} /\ tok'[s] = t
        /\ (pc'[s] = "user" => t \in Live \cap held)
        /\ \A q \in Slots \ {s} : pc'[q] = pc[q] /\ tok'[q] = tok[q]
        /\ doubled' = doubled \cup
             IF pc'[s] = "user" /\ Rotating(t) # {} THEN {family[t]} ELSE {}
        /\ UNCHANGED <<version, table, held, seen, fresh, doomed, ended, cut, stray>>
    BY DEF TypeOK, AfterLookup
  <1>b. tok' \in [Slots -> Issued \cup {0}]  BY DEF TypeOK
  <1>c. pc' \in [Slots -> {"idle", "issue", "user", "create", "rotate", "chain",
                          "bumped", "commitChain", "commitAll", "commitCut"}]
    BY DEF TypeOK, AfterLookup
  <1>d. family[t] \in Issued
    <2>1. family[t] \in 1..t  BY DEF IdsInOrder
    <2>. QED  BY <2>1 DEF TypeOK
  <1> HIDE DEF Present, Goto
  <1>1. TypeOK'
    <2>1. doubled' \subseteq Issued  BY <1>a, <1>d DEF TypeOK
    <2>. QED  BY <1>a, <1>b, <1>c, <2>1 DEF TypeOK
  <1>2. IdsInOrder'  BY <1>a DEF IdsInOrder
  <1>3. VersionsKnown'  BY <1>a DEF VersionsKnown
  <1>4. LocalsHeld'  BY <1>a DEF LocalsHeld
  <1>5. InsertersNoted'  BY <1>a DEF InsertersNoted, Inserting, EndedStaysEnded
  <1>6. SnapshotsComplete'  BY <1>a DEF SnapshotsComplete, Covers
  <1>7. RotatedAlone'
    <2>1. CASE pc'[s] = "chain"  BY <2>1, <1>a DEF RotatedAlone, Rotations
    <2>2. CASE pc'[s] = "user"
      <3> SUFFICES ASSUME NEW q \in Slots, pc'[q] \in {"user", "create", "rotate"},
                          family[tok'[q]] \notin doubled'
                   PROVE  /\ \A u \in Live \cap held :
                               family[u] = family[tok'[q]] => u = tok'[q]
                          /\ \A p \in Slots :
                               /\ pc'[p] \in {"user", "create", "rotate"}
                               /\ family[tok'[p]] = family[tok'[q]]
                               => p = q
        BY <1>a DEF RotatedAlone, Rotations
      <3>1. ASSUME NEW p \in Rotations, FamilyOf(p) = family[t], family[t] \notin doubled'
            PROVE  FALSE
        <4>1. tok[p] = t  BY <2>2, <3>1, <1>a DEF RotatedAlone
        <4>2. p \in Rotating(t)  BY <4>1 DEF Rotating, Rotations
        <4>. QED  BY <2>2, <3>1, <4>2, <1>a
      <3>2. CASE q = s  BY <2>2, <3>1, <3>2, <1>a DEF OneUsable, Rotations
      <3>3. CASE q # s  BY <3>1, <3>3, <1>a DEF RotatedAlone, Rotations
      <3>. QED  BY <3>2, <3>3
    <2>. QED  BY <2>1, <2>2, <1>a
  <1>8. OneUsable'  BY <1>a DEF OneUsable
  <1>9. EndedStaysEnded'  BY <1>a DEF EndedStaysEnded
  <1>10. CutEndsAccess'  BY <1>a DEF CutEndsAccess
  <1>11. UserRowLocked'  BY <1>a DEF UserRowLocked
  <1>. QED  BY <1>1, <1>2, <1>3, <1>4, <1>5, <1>6, <1>7, <1>8, <1>9, <1>10, <1>11

LEMMA StepLogout ==
  ASSUME TokensInv, NEW s \in Slots, NEW t \in Issued, Logout(s, t)  PROVE TokensInv'
PROOF
  <1> USE DEF TokensInv, Logout, Goto, Return
  <1>1. TypeOK'  BY DEF TypeOK, LocalsHeld
  <1>2. IdsInOrder'  BY DEF TypeOK, IdsInOrder
  <1>3. VersionsKnown'  BY DEF TypeOK, VersionsKnown
  <1>4. LocalsHeld'  BY DEF TypeOK, LocalsHeld
  <1>5. InsertersNoted'  BY DEF TypeOK, InsertersNoted, Inserting
  <1>6. SnapshotsComplete'  BY DEF TypeOK, SnapshotsComplete, Covers
  <1>7. RotatedAlone'  BY DEF TypeOK, RotatedAlone, Rotations
  <1>8. OneUsable'  BY DEF TypeOK, OneUsable
  <1>9. EndedStaysEnded'  BY DEF TypeOK, EndedStaysEnded
  <1>10. CutEndsAccess'  BY DEF TypeOK, CutEndsAccess
  <1>11. UserRowLocked'  BY DEF TypeOK, UserRowLocked, UserLocked
  <1>. QED  BY <1>1, <1>2, <1>3, <1>4, <1>5, <1>6, <1>7, <1>8, <1>9, <1>10, <1>11

LEMMA StepMaintenance ==
  ASSUME TokensInv, Maintenance  PROVE TokensInv'
PROOF
  <1> USE DEF TokensInv, Maintenance, Goto, Return
  <1>a. /\ deleted' \in {1..k : k \in 0..count} /\ deleted' \subseteq Issued
        /\ deleted \subseteq deleted'
    <2>1. PICK k \in Rows : deleted' = 1..k  BY DEF Swept
    <2>2. PICK j \in 0..count : deleted = 1..j  BY DEF TypeOK
    <2>3. count \in Nat /\ k \in 1..count /\ j < k  BY <2>1, <2>2 DEF TypeOK
    <2>. QED  BY <2>1, <2>2, <2>3
  <1>b. /\ revoked' = revoked \ deleted' /\ held' = held \ deleted'
        /\ UNCHANGED <<version, count, family, claim, request, history>>
    OBVIOUS
  <1>c. /\ revoked \subseteq Rows /\ held \subseteq Rows  BY RowSets
  <1> HIDE DEF Maintenance
  <1>d. Issued' = Issued  BY <1>b
  <1>e. /\ revoked' \subseteq Rows' /\ held' \subseteq Rows'
        /\ Live' \subseteq Live /\ held' \subseteq held
    <2> HIDE DEF Issued
    <2>. QED  BY <1>a, <1>b, <1>c, <1>d
  <1>1. TypeOK'  BY <1>a, <1>b, <1>d, <1>e DEF TypeOK
  <1>2. IdsInOrder'  BY <1>b DEF IdsInOrder
  <1>3. VersionsKnown'  BY <1>b DEF VersionsKnown
  <1>4. LocalsHeld'  BY <1>b DEF LocalsHeld
  <1>5. InsertersNoted'  BY <1>b DEF InsertersNoted, Inserting
  <1> HIDE DEF Rows, Live, Issued
  <1>6. SnapshotsComplete'  BY <1>b, <1>e DEF SnapshotsComplete, Covers
  <1>7. RotatedAlone'  BY <1>b, <1>e DEF RotatedAlone, Rotations
  <1>8. OneUsable'  BY <1>b, <1>e DEF OneUsable
  <1>9. EndedStaysEnded'  BY <1>b, <1>e DEF EndedStaysEnded
  <1>10. CutEndsAccess'  BY <1>b, <1>d DEF CutEndsAccess
  <1>11. UserRowLocked'  BY <1>b DEF UserRowLocked
  <1>. QED  BY <1>1, <1>2, <1>3, <1>4, <1>5, <1>6, <1>7, <1>8, <1>9, <1>10, <1>11

LEMMA TokensStep == TokensInv /\ [Next]_vars => TokensInv'
PROOF
  <1> SUFFICES ASSUME TokensInv, [Next]_vars  PROVE TokensInv'
    OBVIOUS
  <1>1. ASSUME NEW s \in Slots, Step(s)  PROVE TokensInv'
    BY <1>1, StepLoginChecks, StepLoginIssues, StepReadUser, StepCreateNext, StepRotate,
       StepRevokeChain, StepCutRevokes, StepAdminBumps, StepAdminRevokes, StepCommit,
       StepAbort, StepPresent, StepLogout DEF Step
  <1>2. ASSUME Maintenance  PROVE TokensInv'
    BY <1>2, StepMaintenance
  <1>3. CASE UNCHANGED vars
    <2> USE <1>3 DEF TokensInv
    <2>1. TypeOK' /\ UserRowLocked' /\ IdsInOrder' /\ VersionsKnown' /\ LocalsHeld'
      BY DEF TypeOK, UserRowLocked, IdsInOrder, VersionsKnown, LocalsHeld
    <2>2. InsertersNoted' /\ SnapshotsComplete'
      BY DEF InsertersNoted, Inserting, SnapshotsComplete, Covers
    <2>3. RotatedAlone' /\ OneUsable'  BY DEF RotatedAlone, Rotations, OneUsable
    <2>4. EndedStaysEnded' /\ CutEndsAccess'  BY DEF EndedStaysEnded, CutEndsAccess
    <2>. QED  BY <2>1, <2>2, <2>3, <2>4
  <1>. QED  BY <1>1, <1>2, <1>3 DEF Next

LEMMA TokensInvariance == Spec => []TokensInv
  BY TokensInitially, TokensStep, PTL DEF Spec

(* A session that was ended stays ended, but for a row inserted while it   *)
(* was being ended: of revoke_chain_from, revoke_all_for_user and the      *)
(* rotation in refresh.                                                    *)
THEOREM SessionsStayEnded == Spec => []EndedStaysEnded
PROOF
  <1>1. TokensInv => EndedStaysEnded  BY DEF TokensInv
  <1>. QED  BY <1>1, TokensInvariance, PTL

(* And no access token of such a session passes get_current_user's check   *)
(* of token_version.                                                       *)
THEOREM AccessEndsWithTheCut == Spec => []CutEndsAccess
PROOF
  <1>1. TokensInv => CutEndsAccess  BY DEF TokensInv
  <1>. QED  BY <1>1, TokensInvariance, PTL

(* A client holds one live token of a session, unless it rotated a token   *)
(* twice at a time.                                                        *)
THEOREM OneTokenHeld == Spec => []SingleHolder
PROOF
  <1>1. ASSUME OneUsable  PROVE SingleHolder
    <2> SUFFICES ASSUME NEW f \in Families \ doubled  PROVE Cardinality(Usable(f)) <= 1
      BY DEF SingleHolder
    <2>1. CASE Usable(f) = {}
      BY <2>1, FS_EmptySet
    <2>2. ASSUME NEW t \in Usable(f)  PROVE Cardinality(Usable(f)) <= 1
      <3>1. Usable(f) = {t}  BY <1>1 DEF Usable, OneUsable
      <3>. QED  BY <3>1, FS_Singleton
    <2>. QED  BY <2>1, <2>2
  <1>2. TokensInv => SingleHolder  BY <1>1 DEF TokensInv
  <1>. QED  BY <1>2, TokensInvariance, PTL

=============================================================================
