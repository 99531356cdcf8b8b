------------------------------ MODULE CardProofs ------------------------------
(***************************************************************************)
(* Proofs about the cards at the server, for any number of cards, requests *)
(* and templates, and any size of a page.                                  *)
(***************************************************************************)
EXTENDS CardRegistry, TLAPS

Ops    == {"none", "create", "patch", "apply", "delete", "drop"}
Stages == {"none", "template", "acl", "card", "grants", "write", "cards", "row"}
Requests ==
  [op : Ops, at : Stages, card : Nat, by : Callers \cup {Nobody}, body : Bodies,
   tpl : Templates \cup {NoTemplate}, cat : Categories \cup {Unset},
   cascade : {"none", "template_only", "with_cards"}, wide : BOOLEAN]

(* What a request is about, and what it has looked up by each of its calls.*)
AboutCard(r) == ask[r].op \in {"patch", "apply", "delete"}
InformedOf(r) ==
  /\ AboutCard(r) => ask[r].card \in Cards /\ ~Free(ask[r].card) /\ ask[r].by \in Callers
  /\ ask[r].op \in {"apply", "drop"} => ask[r].tpl \in Templates
  /\ ask[r].op \in {"create", "apply"} /\ ask[r].at = "write" => ask[r].cat \in Categories
Informed == \A r \in CardSlots : InformedOf(r)

CardTypes ==
  /\ card \in [Cards -> Rows] /\ ask \in [CardSlots -> Requests]
  /\ grants \in [Admins -> SUBSET Categories]
  /\ DOMAIN layout \subseteq Templates /\ \A t \in DOMAIN layout : layout[t] \in Categories
  /\ Informed

(* What a step of a request leaves alone: the other requests, and what the *)
(* request is about.                                                       *)
Steps(r) ==
  /\ ask' \in [CardSlots -> Requests]
  /\ \A q \in CardSlots \ {r} : ask'[q] = ask[q]
Keeps(r) ==
  /\ ask'[r].op = ask[r].op /\ ask'[r].card = ask[r].card /\ ask'[r].by = ask[r].by
  /\ ask'[r].body = ask[r].body /\ ask'[r].tpl = ask[r].tpl

(* A row that was written once is not free again, and keeps its time.      *)
RowsStay ==
  \A c \in Cards : ~Free(c) => card'[c].state # "free" /\ card'[c].born = card[c].born

USE CardAssumption

LEMMA IdleTyped ==
  /\ Idle \in Requests /\ Idle.op = "none" /\ Idle.at = "none"
  BY DEF Idle, Requests, Ops, Stages, NoBody, Bodies

LEMMA StartsSteps ==
  ASSUME CardTypes, NEW r \in CardSlots, NEW q \in Requests, Starts(r, q)
  PROVE  Steps(r) /\ ask'[r] = q /\ ask[r] = Idle /\ UNCHANGED <<card, layout, grants, sheet>>
  BY DEF CardTypes, Starts, Steps

LEMMA GoesSteps ==
  ASSUME CardTypes, NEW r \in CardSlots, NEW step \in Stages, Goes(r, step)
  PROVE  /\ Steps(r) /\ Keeps(r) /\ ask'[r].at = step
         /\ ask'[r].wide = ask[r].wide /\ ask'[r].cat = ask[r].cat
  BY DEF CardTypes, Goes, Steps, Keeps, Requests

LEMMA EndsSteps ==
  ASSUME CardTypes, NEW r \in CardSlots, Ends(r)
  PROVE  Steps(r) /\ ask'[r] = Idle
  BY IdleTyped DEF CardTypes, Ends, Steps

LEMMA AskedSteps ==
  ASSUME CardTypes, NEW r \in CardSlots, CardAsked(r)
  PROVE  /\ Steps(r) /\ ask[r] = Idle /\ UNCHANGED <<card, layout, grants, sheet>>
         /\ \/ ask'[r].op = "create" /\ ask'[r].at = "template"
            \/ ask'[r].op = "drop" /\ ask'[r].at = "template" /\ ask'[r].tpl \in Templates
            \/ /\ ask'[r].op \in {"patch", "apply", "delete"} /\ ask'[r].at = "acl"
               /\ ask'[r].card \in Cards /\ ~Free(ask'[r].card) /\ ask'[r].by \in Callers
               /\ ask'[r].op = "apply" => ask'[r].tpl \in Templates
  <1> DEFINE Made(q) ==
        \/ q.op = "create" /\ q.at = "template"
        \/ q.op = "drop" /\ q.at = "template" /\ q.tpl \in Templates
        \/ /\ q.op \in {"patch", "apply", "delete"} /\ q.at = "acl"
           /\ q.card \in Cards /\ ~Free(q.card) /\ q.by \in Callers
           /\ q.op = "apply" => q.tpl \in Templates
  <1>1. \A t \in Templates \cup {NoTemplate}, k \in Categories \cup {Unset} :
          LET q == [Idle EXCEPT !.op = "create", !.at = "template", !.tpl = t, !.cat = k]
          IN q \in Requests /\ Made(q)
    BY IdleTyped DEF Requests, Ops, Stages
  <1>2. \A t \in Templates, k \in {"template_only", "with_cards"} :
          LET q == [Idle EXCEPT !.op = "drop", !.at = "template", !.tpl = t, !.cascade = k]
          IN q \in Requests /\ Made(q)
    BY IdleTyped DEF Requests, Ops, Stages
  <1>3. ASSUME NEW c \in Cards, NEW who \in Callers, ~Free(c)
        PROVE  LET q == [Idle EXCEPT !.at = "acl", !.card = c, !.by = who]
               IN /\ \A p \in Patches : LET n == [q EXCEPT !.op = "patch", !.body = p]
                                        IN n \in Requests /\ Made(n)
                  /\ \A t \in Templates : LET n == [q EXCEPT !.op = "apply", !.tpl = t]
                                          IN n \in Requests /\ Made(n)
                  /\ LET n == [q EXCEPT !.op = "delete"] IN n \in Requests /\ Made(n)
    <2> DEFINE q == [Idle EXCEPT !.at = "acl", !.card = c, !.by = who]
    <2>1. q \in Requests /\ q.at = "acl" /\ q.card = c /\ q.by = who
      BY IdleTyped DEF Requests, Ops, Stages
    <2> HIDE DEF q
    <2>2. \A p \in Patches : LET n == [q EXCEPT !.op = "patch", !.body = p]
                             IN n \in Requests /\ Made(n)
      BY <1>3, <2>1 DEF Requests, Ops
    <2>3. \A t \in Templates : LET n == [q EXCEPT !.op = "apply", !.tpl = t]
                               IN n \in Requests /\ Made(n)
      BY <1>3, <2>1 DEF Requests, Ops
    <2>4. LET n == [q EXCEPT !.op = "delete"] IN n \in Requests /\ Made(n)
      BY <1>3, <2>1 DEF Requests, Ops
    <2>. QED  BY <2>2, <2>3, <2>4 DEF q
  <1>4. \E q \in Requests : Starts(r, q) /\ Made(q)
    BY <1>1, <1>2, <1>3 DEF CardAsked
  <1>5. \A q : Made(q) /\ ask'[r] = q => Made(ask'[r])
    OBVIOUS
  <1> HIDE DEF Made
  <1>6. Made(ask'[r]) /\ Steps(r) /\ ask[r] = Idle /\ UNCHANGED <<card, layout, grants, sheet>>
    BY <1>4, <1>5, StartsSteps
  <1>. QED  BY <1>6 DEF Made

LEMMA AclSteps ==
  ASSUME CardTypes, NEW r \in CardSlots, AclBuilt(r)
  PROVE  /\ Steps(r) /\ Keeps(r) /\ AboutCard(r) /\ ask[r].at = "acl"
         /\ ask'[r].at = IF ask[r].op = "delete" THEN "write" ELSE "card"
         /\ UNCHANGED <<card, layout, grants, sheet>>
  <1> DEFINE step == IF ask[r].op = "delete" THEN "write" ELSE "card"
             wide == ask[r].by # Super /\ grants[ask[r].by] # {}
  <1>0. step \in Stages /\ wide \in BOOLEAN /\ ask' = [ask EXCEPT ![r].at = step, ![r].wide = wide]
    BY DEF AclBuilt, Stages
  <1>1. /\ AboutCard(r) /\ ask[r].at = "acl" /\ UNCHANGED <<card, layout, grants, sheet>>
    BY DEF AclBuilt, At, AboutCard, ReadsOnly
  <1>2. ask[r] \in Requests  BY DEF CardTypes
  <1>3. ask'[r] = [ask[r] EXCEPT !.at = step, !.wide = wide]
    BY <1>0 DEF CardTypes
  <1> HIDE DEF wide
  <1>4. ask'[r] \in Requests /\ ask'[r].at = step /\ Keeps(r)
    <2>0. step \in Stages  BY <1>0
    <2> HIDE DEF step
    <2>1. CASE wide = TRUE
      <3>1. ask'[r] = [ask[r] EXCEPT !.at = step, !.wide = TRUE]  BY <1>3, <2>1
      <3>. QED  BY <2>0, <1>2, <3>1 DEF Requests, Keeps
    <2>2. CASE wide = FALSE
      <3>1. ask'[r] = [ask[r] EXCEPT !.at = step, !.wide = FALSE]  BY <1>3, <2>2
      <3>. QED  BY <2>0, <1>2, <3>1 DEF Requests, Keeps
    <2>. QED  BY <1>0, <2>1, <2>2
  <1>5. Steps(r)  BY <1>0, <1>4 DEF CardTypes, Steps
  <1>. QED  BY <1>1, <1>4, <1>5

LEMMA ReadSteps ==
  ASSUME CardTypes, NEW r \in CardSlots, CardRead(r)
  PROVE  /\ Steps(r) /\ ask[r].op \in {"patch", "apply"} /\ ask[r].at = "card"
         /\ UNCHANGED <<card, layout, grants, sheet>>
         /\ \/ ask'[r] = Idle
            \/ /\ Keeps(r) /\ Live(ask[r].card) /\ Visible(ask[r].by, ask[r].wide, ask[r].card)
               /\ \/ ask[r].op = "apply" /\ ask'[r].at = "template"
                  \/ /\ ask[r].op = "patch" /\ ask'[r].at \in {"write", "grants"}
                     /\ ask[r].by # Super =>
                          /\ ~Reassigns(ask[r].body, ask[r].card)
                          /\ ask'[r].at = "grants" \/ ~Moves(ask[r].body, ask[r].card)
  <1>1. /\ ask[r].op \in {"patch", "apply"} /\ ask[r].at = "card"
        /\ UNCHANGED <<card, layout, grants, sheet>>
    BY DEF CardRead, At, ReadsOnly
  <1>2. \/ Ends(r)
        \/ /\ Live(ask[r].card) /\ Visible(ask[r].by, ask[r].wide, ask[r].card)
           /\ \/ ask[r].op = "apply" /\ Goes(r, "template")
              \/ ask[r].op # "apply" /\ ask[r].by = Super /\ Goes(r, "write")
              \/ /\ ask[r].op # "apply" /\ ~Reassigns(ask[r].body, ask[r].card)
                 /\ Goes(r, IF Moves(ask[r].body, ask[r].card) THEN "grants" ELSE "write")
    BY DEF CardRead
  <1>. QED  BY <1>1, <1>2, EndsSteps, GoesSteps DEF Stages

LEMMA GrantsSteps ==
  ASSUME CardTypes, NEW r \in CardSlots, GrantsRead(r)
  PROVE  /\ Steps(r) /\ ask[r].op = "patch" /\ ask[r].at = "grants"
         /\ UNCHANGED <<card, layout, grants, sheet>>
         /\ \/ ask'[r] = Idle
            \/ /\ Keeps(r) /\ ask'[r].at = "write"
               /\ ask[r].body.cat \in grants[ask[r].by]
  BY EndsSteps, GoesSteps DEF GrantsRead, At, ReadsOnly, Stages

LEMMA CategorySteps ==
  ASSUME CardTypes, NEW r \in CardSlots, CategoryResolved(r)
  PROVE  /\ Steps(r) /\ ask[r].op = "create" /\ ask'[r].op = "create"
         /\ UNCHANGED <<card, layout, grants, sheet>>
         /\ ask'[r].at = "write" /\ ask'[r].cat \in Categories
  <1>1. ask[r].op = "create" /\ UNCHANGED <<card, layout, grants, sheet>>
    BY DEF CategoryResolved, At, ReadsOnly
  <1>2. ask[r] \in Requests  BY DEF CardTypes
  <1>3. PICK t : t = IF Exists(ask[r].tpl) THEN ask[r].tpl ELSE DefaultTemplate  OBVIOUS
  <1>4. CASE ask[r].cat # Unset /\ Goes(r, "write")
    BY <1>1, <1>2, <1>4, GoesSteps DEF Stages, Keeps, Requests
  <1>5. CASE /\ Exists(t)
             /\ ask' = [ask EXCEPT ![r].at = "write", ![r].tpl = t, ![r].cat = layout[t]]
    <2>1. t \in Templates /\ layout[t] \in Categories  BY <1>5 DEF CardTypes, Exists
    <2>2. ask'[r] = [ask[r] EXCEPT !.at = "write", !.tpl = t, !.cat = layout[t]]
      BY <1>5 DEF CardTypes
    <2>3. ask'[r] \in Requests /\ ask'[r].at = "write" /\ ask'[r].cat \in Categories
          /\ ask'[r].op = ask[r].op
      BY <1>2, <2>1, <2>2 DEF Requests, Stages
    <2>4. Steps(r)  BY <1>5, <2>3 DEF CardTypes, Steps
    <2>. QED  BY <1>1, <2>3, <2>4
  <1>. QED  BY <1>3, <1>4, <1>5 DEF CategoryResolved

LEMMA TemplateSteps ==
  ASSUME CardTypes, NEW r \in CardSlots, TemplateRead(r)
  PROVE  /\ Steps(r) /\ ask[r].op \in {"apply", "drop"} /\ ask[r].at = "template"
         /\ UNCHANGED <<card, layout, grants, sheet>>
         /\ \/ ask'[r] = Idle
            \/ /\ Keeps(r) /\ ask[r].op = "drop" /\ ask'[r].at = "cards"
               /\ ask[r].tpl # DefaultTemplate
            \/ /\ Keeps(r) /\ ask[r].op # "drop" /\ ask'[r].at = "write"
               /\ ask'[r].cat \in Categories
  <1>1. /\ ask[r].op \in {"apply", "drop"} /\ ask[r].at = "template"
        /\ UNCHANGED <<card, layout, grants, sheet>>
    BY DEF TemplateRead, At, ReadsOnly
  <1>2. \/ Ends(r)
        \/ ask[r].op = "drop" /\ ask[r].tpl # DefaultTemplate /\ Goes(r, "cards")
        \/ /\ ask[r].op # "drop" /\ Exists(ask[r].tpl)
           /\ ask' = [ask EXCEPT ![r].at = "write", ![r].cat = layout[ask[r].tpl]]
    BY DEF TemplateRead, Undeletable
  <1>3. ASSUME ask[r].op # "drop", Exists(ask[r].tpl),
               ask' = [ask EXCEPT ![r].at = "write", ![r].cat = layout[ask[r].tpl]]
        PROVE  Steps(r) /\ Keeps(r) /\ ask'[r].at = "write" /\ ask'[r].cat \in Categories
    <2>1. layout[ask[r].tpl] \in Categories  BY <1>3 DEF CardTypes, Exists
    <2>2. ask[r] \in Requests  BY DEF CardTypes
    <2>3. ask'[r] = [ask[r] EXCEPT !.at = "write", !.cat = layout[ask[r].tpl]]
      BY <1>3 DEF CardTypes
    <2>4. /\ ask'[r] \in Requests /\ ask'[r].at = "write" /\ ask'[r].cat \in Categories
          /\ Keeps(r)
      BY <2>1, <2>2, <2>3 DEF Requests, Keeps, Stages
    <2>5. Steps(r)  BY <1>3, <2>4 DEF CardTypes, Steps
    <2>. QED  BY <2>4, <2>5
  <1>. QED  BY <1>1, <1>2, <1>3, EndsSteps, GoesSteps DEF Stages

(* One row is written by a request that ends with it.                      *)
LEMMA WritesSteps ==
  ASSUME CardTypes, NEW r \in CardSlots, NEW c \in Cards, NEW row \in Rows, Writes(c, row)
  PROVE  /\ card' \in [Cards -> Rows] /\ card'[c] = row
         /\ \A d \in Cards \ {c} : card'[d] = card[d]
         /\ UNCHANGED <<layout, grants, sheet>>
  BY DEF CardTypes, Writes

LEMMA PatchedFields ==
  ASSUME NEW row \in Rows, NEW p \in Bodies
  PROVE  /\ Patched(row, p) \in Rows
         /\ Patched(row, p).state = row.state /\ Patched(row, p).born = row.born
         /\ Patched(row, p).cat = Given(p.cat, row.cat)
         /\ Patched(row, p).owner = Given(p.owner, row.owner)
  BY DEF Rows, Bodies, Patched, Given

LEMMA PatchSteps ==
  ASSUME CardTypes, NEW r \in CardSlots, CardPatched(r)
  PROVE  /\ Steps(r) /\ ask'[r] = Idle /\ ask[r].op = "patch" /\ ask[r].at = "write"
         /\ Live(ask[r].card) /\ card' \in [Cards -> Rows]
         /\ \A d \in Cards \ {ask[r].card} : card'[d] = card[d]
         /\ card'[ask[r].card] = Patched(card[ask[r].card], ask[r].body)
         /\ UNCHANGED <<layout, grants, sheet>>
  <1>1. /\ ask[r].op = "patch" /\ ask[r].at = "write" /\ Live(ask[r].card) /\ Ends(r)
        /\ Writes(ask[r].card, Patched(card[ask[r].card], ask[r].body))
    BY DEF CardPatched, At
  <1>2. ask[r].card \in Cards /\ card[ask[r].card] \in Rows /\ ask[r].body \in Bodies
    BY <1>1 DEF CardTypes, Informed, InformedOf, AboutCard, Requests
  <1>3. Patched(card[ask[r].card], ask[r].body) \in Rows  BY <1>2, PatchedFields
  <1>. QED  BY <1>1, <1>2, <1>3, EndsSteps, WritesSteps

LEMMA ApplySteps ==
  ASSUME CardTypes, NEW r \in CardSlots, TemplateApplied(r)
  PROVE  /\ Steps(r) /\ ask'[r] = Idle /\ ask[r].op = "apply" /\ ask[r].at = "write"
         /\ Live(ask[r].card) /\ card' \in [Cards -> Rows]
         /\ \A d \in Cards \ {ask[r].card} : card'[d] = card[d]
         /\ card'[ask[r].card].state = "live" /\ card'[ask[r].card].tpl = ask[r].tpl
         /\ card'[ask[r].card].born = card[ask[r].card].born
         /\ card'[ask[r].card].owner = card[ask[r].card].owner
         /\ UNCHANGED <<layout, grants, sheet>>
  <1> DEFINE row == [card[ask[r].card] EXCEPT !.tpl = ask[r].tpl, !.cat = ask[r].cat]
  <1>1. /\ ask[r].op = "apply" /\ ask[r].at = "write" /\ Live(ask[r].card) /\ Ends(r)
        /\ Writes(ask[r].card, row)
    BY DEF TemplateApplied, At
  <1>2. ask[r].card \in Cards /\ ask[r].tpl \in Templates /\ ask[r].cat \in Categories
    BY <1>1 DEF CardTypes, Informed, InformedOf, AboutCard
  <1>3. /\ row \in Rows /\ row.state = "live" /\ row.tpl = ask[r].tpl
        /\ row.born = card[ask[r].card].born /\ row.owner = card[ask[r].card].owner
    <2>1. card[ask[r].card] \in Rows  BY <1>2 DEF CardTypes
    <2>. QED  BY <1>1, <1>2, <2>1 DEF Rows, Live
  <1> HIDE DEF row
  <1>4. /\ Steps(r) /\ ask'[r] = Idle /\ card' \in [Cards -> Rows] /\ card'[ask[r].card] = row
        /\ \A d \in Cards \ {ask[r].card} : card'[d] = card[d]
        /\ UNCHANGED <<layout, grants, sheet>>
    BY <1>1, <1>2, <1>3, EndsSteps, WritesSteps
  <1>. QED  BY <1>1, <1>3, <1>4

LEMMA CreateSteps ==
  ASSUME CardTypes, NEW r \in CardSlots, CardCreated(r)
  PROVE  /\ Steps(r) /\ ask'[r] = Idle /\ card' \in [Cards -> Rows]
         /\ \E c \in Cards : /\ Free(c) /\ card'[c].state = "live"
                             /\ \A d \in Cards \ {c} : card'[d] = card[d]
         /\ UNCHANGED <<layout, grants, sheet>>
  <1>1. ask[r].op = "create" /\ ask[r].at = "write" /\ Ends(r)  BY DEF CardCreated, At
  <1> DEFINE row(b) == [state |-> "live", cat |-> ask[r].cat, tpl |-> ask[r].tpl,
                        owner |-> Nobody, born |-> b]
  <1>2. PICK c \in Cards, b \in Moments : Free(c) /\ Writes(c, row(b))
    BY DEF CardCreated
  <1>3. row(b) \in Rows /\ row(b).state = "live"
    BY <1>1 DEF CardTypes, Informed, InformedOf, Rows, Requests
  <1> HIDE DEF row
  <1>4. /\ card' \in [Cards -> Rows] /\ card'[c] = row(b)
        /\ \A d \in Cards \ {c} : card'[d] = card[d]
        /\ UNCHANGED <<layout, grants, sheet>>
    BY <1>2, <1>3, WritesSteps
  <1>. QED  BY <1>1, <1>2, <1>3, <1>4, EndsSteps

LEMMA DeleteSteps ==
  ASSUME CardTypes, NEW r \in CardSlots, CardDeleted(r)
  PROVE  /\ Steps(r) /\ ask'[r] = Idle /\ ask[r].op = "delete" /\ ask[r].at = "write"
         /\ Live(ask[r].card) /\ Visible(ask[r].by, ask[r].wide, ask[r].card)
         /\ card' \in [Cards -> Rows]
         /\ \A d \in Cards \ {ask[r].card} : card'[d] = card[d]
         /\ card'[ask[r].card].state = "deleted"
         /\ card'[ask[r].card].born = card[ask[r].card].born
         /\ UNCHANGED <<layout, grants, sheet>>
  <1> DEFINE row == [card[ask[r].card] EXCEPT !.state = "deleted"]
  <1>1. /\ ask[r].op = "delete" /\ ask[r].at = "write" /\ Deletable(ask[r]) /\ Ends(r)
        /\ Writes(ask[r].card, row)
    BY DEF CardDeleted, At
  <1>2. ask[r].card \in Cards  BY <1>1 DEF CardTypes, Informed, InformedOf, AboutCard
  <1>3. row \in Rows /\ row.state = "deleted" /\ row.born = card[ask[r].card].born
    <2>1. card[ask[r].card] \in Rows  BY <1>2 DEF CardTypes
    <2>. QED  BY <2>1 DEF Rows
  <1> HIDE DEF row
  <1>4. /\ Steps(r) /\ ask'[r] = Idle /\ card' \in [Cards -> Rows] /\ card'[ask[r].card] = row
        /\ \A d \in Cards \ {ask[r].card} : card'[d] = card[d]
        /\ UNCHANGED <<layout, grants, sheet>>
    BY <1>1, <1>2, <1>3, EndsSteps, WritesSteps
  <1>. QED  BY <1>1, <1>3, <1>4 DEF Deletable

(* The cards of a template that is deleted, and its row.                   *)
LEMMA CardsGoSteps ==
  ASSUME CardTypes, NEW r \in CardSlots, TemplateCardsGo(r)
  PROVE  /\ Steps(r) /\ Keeps(r) /\ ask[r].op = "drop" /\ ask[r].at = "cards"
         /\ ask'[r].at = "row" /\ card' \in [Cards -> Rows] /\ RowsStay
         /\ \A c \in Cards :
              \/ card'[c] = card[c] /\ ~(Live(c) /\ card[c].tpl = ask[r].tpl)
              \/ card'[c].state = "deleted" /\ card'[c].tpl = card[c].tpl
              \/ Live(c) /\ card'[c].tpl = DefaultTemplate
         /\ UNCHANGED <<layout, grants, sheet>>
  <1>1. /\ ask[r].op = "drop" /\ ask[r].at = "cards" /\ Goes(r, "row")
        /\ UNCHANGED <<layout, grants, sheet>>
    BY DEF TemplateCardsGo, At
  <1>2. \A c \in Cards : card[c] \in Rows  BY DEF CardTypes
  <1>3. ASSUME NEW c \in Cards
        PROVE  /\ card'[c] \in Rows /\ card'[c].born = card[c].born
               /\ ~Free(c) => card'[c].state # "free"
               /\ \/ card'[c] = card[c] /\ ~(Live(c) /\ card[c].tpl = ask[r].tpl)
                  \/ card'[c].state = "deleted" /\ card'[c].tpl = card[c].tpl
                  \/ Live(c) /\ card'[c].tpl = DefaultTemplate
    <2>1. \/ card'[c] = card[c] /\ ~(Live(c) /\ card[c].tpl = ask[r].tpl)
          \/ card'[c] = [card[c] EXCEPT !.state = "deleted"]
          \/ Live(c) /\ card'[c] = [card[c] EXCEPT !.tpl = DefaultTemplate]
      BY DEF TemplateCardsGo
    <2>. QED  BY <1>2, <2>1 DEF Rows, Live, Free
  <1>4. card' \in [Cards -> Rows]
    <2>1. card' = [c \in Cards |-> card'[c]]  BY DEF TemplateCardsGo
    <2>. QED  BY <1>3, <2>1
  <1>. QED  BY <1>1, <1>3, <1>4, GoesSteps DEF Stages, RowsStay

LEMMA RowGoesSteps ==
  ASSUME CardTypes, NEW r \in CardSlots, TemplateGoes(r)
  PROVE  /\ Steps(r) /\ ask'[r] = Idle /\ ask[r].op = "drop" /\ ask[r].at = "row"
         /\ card' \in [Cards -> Rows] /\ RowsStay
         /\ \A c \in Cards : /\ card'[c].state = card[c].state
                             /\ card'[c].tpl = IF card[c].tpl = ask[r].tpl THEN NoTemplate
                                               ELSE card[c].tpl
                             /\ card'[c].cat = card[c].cat /\ card'[c].owner = card[c].owner
         /\ DOMAIN layout' = DOMAIN layout \ {ask[r].tpl}
         /\ \A t \in DOMAIN layout' : layout'[t] = layout[t]
         /\ UNCHANGED <<grants, sheet>>
  <1>1. ask[r].op = "drop" /\ ask[r].at = "row" /\ Ends(r) /\ UNCHANGED <<grants, sheet>>
    BY DEF TemplateGoes, At
  <1>2. \A c \in Cards : card[c] \in Rows  BY DEF CardTypes
  <1>3. ASSUME NEW c \in Cards
        PROVE  /\ card'[c] \in Rows /\ card'[c].born = card[c].born
               /\ card'[c].state = card[c].state
               /\ card'[c].tpl = IF card[c].tpl = ask[r].tpl THEN NoTemplate ELSE card[c].tpl
               /\ card'[c].cat = card[c].cat /\ card'[c].owner = card[c].owner
    <2>1. card'[c] = IF card[c].tpl = ask[r].tpl THEN [card[c] EXCEPT !.tpl = NoTemplate]
                     ELSE card[c]
      BY DEF TemplateGoes
    <2>. QED  BY <1>2, <2>1 DEF Rows
  <1>4. card' \in [Cards -> Rows]
    <2>1. card' = [c \in Cards |-> card'[c]]  BY DEF TemplateGoes
    <2>. QED  BY <1>3, <2>1
  <1>5. /\ DOMAIN layout' = DOMAIN layout \ {ask[r].tpl}
        /\ \A t \in DOMAIN layout' : layout'[t] = layout[t]
    BY DEF TemplateGoes, Restrict
  <1>. QED  BY <1>1, <1>3, <1>4, <1>5, EndsSteps DEF RowsStay, Free

LEMMA AbortSteps ==
  ASSUME CardTypes, NEW r \in CardSlots, CardAborts(r)
  PROVE  Steps(r) /\ ask'[r] = Idle /\ UNCHANGED <<card, layout, grants, sheet>>
  BY EndsSteps DEF CardAborts, ReadsOnly

LEMMA StepKeepsTypes ==
  ASSUME CardTypes, NEW r \in CardSlots, Steps(r), InformedOf(r)', RowsStay,
         card' \in [Cards -> Rows], grants' = grants, layout' = layout
  PROVE  CardTypes'
  <1>1. Informed'
    <2>. SUFFICES ASSUME NEW q \in CardSlots, q # r  PROVE InformedOf(q)'
      BY DEF Informed
    <2>1. ask'[q] = ask[q] /\ InformedOf(q)  BY DEF Steps, CardTypes, Informed
    <2>. QED  BY <2>1 DEF InformedOf, AboutCard, Free, RowsStay
  <1>. QED  BY <1>1 DEF CardTypes, Steps

(* A step of a request that reads only.                                    *)
LEMMA ReadKeepsTypes ==
  ASSUME CardTypes, NEW r \in CardSlots, Steps(r), InformedOf(r)',
         UNCHANGED <<card, layout, grants>>
  PROVE  CardTypes'
  BY StepKeepsTypes DEF RowsStay, CardTypes, Free

LEMMA IdleInformed ==
  ASSUME NEW r \in CardSlots, ask'[r] = Idle
  PROVE  InformedOf(r)'
  BY IdleTyped DEF InformedOf, AboutCard

(* One row is written.                                                     *)
LEMMA OneRowStays ==
  ASSUME CardTypes, NEW c \in Cards,
         \A d \in Cards \ {c} : card'[d] = card[d],
         Free(c) \/ (card'[c].state # "free" /\ card'[c].born = card[c].born)
  PROVE  RowsStay
  BY DEF RowsStay, Free

LEMMA WriteStays ==
  ASSUME CardTypes, NEW r \in CardSlots,
         CardPatched(r) \/ TemplateApplied(r) \/ CardCreated(r) \/ CardDeleted(r)
  PROVE  /\ RowsStay /\ Steps(r) /\ ask'[r] = Idle /\ card' \in [Cards -> Rows]
         /\ UNCHANGED <<layout, grants, sheet>>
PROOF
  <1>0. /\ AboutCard(r) => ask[r].card \in Cards /\ card[ask[r].card] \in Rows
        /\ ask[r].body \in Bodies
    BY DEF CardTypes, Informed, InformedOf, Requests
  <1>1. CASE CardPatched(r)
    <2>1. card'[ask[r].card].state = "live" /\ card'[ask[r].card].born = card[ask[r].card].born
      BY <1>0, <1>1, PatchSteps, PatchedFields DEF AboutCard, Live
    <2>. QED  BY <1>0, <1>1, <2>1, PatchSteps, OneRowStays DEF AboutCard
  <1>2. CASE TemplateApplied(r)
    BY <1>0, <1>2, ApplySteps, OneRowStays DEF AboutCard
  <1>3. CASE CardCreated(r)  BY <1>3, CreateSteps, OneRowStays
  <1>4. CASE CardDeleted(r)
    BY <1>0, <1>4, DeleteSteps, OneRowStays DEF AboutCard
  <1>. QED  BY <1>1, <1>2, <1>3, <1>4

LEMMA TypesInitially == RegistryInit => CardTypes
  BY IdleTyped DEF RegistryInit, CardTypes, Informed, InformedOf, AboutCard

LEMMA TypesKept == CardTypes /\ [RegistryNext]_regVars => CardTypes'
PROOF
  <1> SUFFICES ASSUME CardTypes, [RegistryNext]_regVars  PROVE CardTypes'
    OBVIOUS
  <1>0. \A r \in CardSlots : InformedOf(r)  BY DEF CardTypes, Informed
  <1>1. ASSUME NEW r \in CardSlots, CardAsked(r)  PROVE CardTypes'
    BY <1>1, AskedSteps, ReadKeepsTypes DEF InformedOf, AboutCard, Free
  <1>2. ASSUME NEW r \in CardSlots, AclBuilt(r)  PROVE CardTypes'
    <2>1. /\ Steps(r) /\ Keeps(r) /\ AboutCard(r) /\ UNCHANGED <<card, layout, grants, sheet>>
          /\ ask'[r].op # "delete" => ask'[r].at = "card"
      BY <1>2, AclSteps DEF Keeps
    <2>2. InformedOf(r)'  BY <1>0, <2>1 DEF InformedOf, AboutCard, Keeps, Free
    <2>. QED  BY <2>1, <2>2, ReadKeepsTypes
  <1>3. ASSUME NEW r \in CardSlots, CardRead(r)  PROVE CardTypes'
    <2>1. CASE ask'[r] = Idle  BY <1>3, <2>1, ReadSteps, IdleInformed, ReadKeepsTypes
    <2>2. CASE Keeps(r) /\ (ask'[r].op = "apply" => ask'[r].at # "write")
      <3>1. /\ Steps(r) /\ ask[r].op \in {"patch", "apply"}
            /\ UNCHANGED <<card, layout, grants, sheet>>
        BY <1>3, ReadSteps
      <3>2. InformedOf(r)'  BY <1>0, <2>2, <3>1 DEF InformedOf, AboutCard, Keeps, Free
      <3>. QED  BY <3>1, <3>2, ReadKeepsTypes
    <2>3. ask'[r] = Idle \/ (Keeps(r) /\ (ask'[r].op = "apply" => ask'[r].at # "write"))
      BY <1>3, ReadSteps DEF Keeps
    <2>. QED  BY <2>1, <2>2, <2>3
  <1>4. ASSUME NEW r \in CardSlots, GrantsRead(r)  PROVE CardTypes'
    <2>1. CASE ask'[r] = Idle  BY <1>4, <2>1, GrantsSteps, IdleInformed, ReadKeepsTypes
    <2>2. CASE Keeps(r)
      <3>1. Steps(r) /\ ask[r].op = "patch" /\ UNCHANGED <<card, layout, grants, sheet>>
        BY <1>4, GrantsSteps
      <3>2. InformedOf(r)'  BY <1>0, <2>2, <3>1 DEF InformedOf, AboutCard, Keeps, Free
      <3>. QED  BY <3>1, <3>2, ReadKeepsTypes
    <2>. QED  BY <1>4, <2>1, <2>2, GrantsSteps
  <1>5. ASSUME NEW r \in CardSlots, TemplateRead(r)  PROVE CardTypes'
    <2>1. CASE ask'[r] = Idle  BY <1>5, <2>1, TemplateSteps, IdleInformed, ReadKeepsTypes
    <2>2. CASE Keeps(r) /\ (ask'[r].op # "drop" => ask'[r].cat \in Categories)
      <3>1. /\ Steps(r) /\ ask[r].op \in {"apply", "drop"}
            /\ UNCHANGED <<card, layout, grants, sheet>>
        BY <1>5, TemplateSteps
      <3>2. InformedOf(r)'  BY <1>0, <2>2, <3>1 DEF InformedOf, AboutCard, Keeps, Free
      <3>. QED  BY <3>1, <3>2, ReadKeepsTypes
    <2>3. ask'[r] = Idle \/ (Keeps(r) /\ (ask'[r].op # "drop" => ask'[r].cat \in Categories))
      BY <1>5, TemplateSteps DEF Keeps
    <2>. QED  BY <2>1, <2>2, <2>3
  <1>5a. ASSUME NEW r \in CardSlots, CategoryResolved(r)  PROVE CardTypes'
    <2>1. InformedOf(r)'  BY <1>5a, CategorySteps DEF InformedOf, AboutCard
    <2>. QED  BY <1>5a, <2>1, CategorySteps, ReadKeepsTypes
  <1>6. ASSUME NEW r \in CardSlots,
               CardPatched(r) \/ TemplateApplied(r) \/ CardCreated(r) \/ CardDeleted(r)
        PROVE  CardTypes'
    BY <1>6, WriteStays, IdleInformed, StepKeepsTypes
  <1>7. ASSUME NEW r \in CardSlots, TemplateCardsGo(r)  PROVE CardTypes'
    <2>1. /\ Steps(r) /\ Keeps(r) /\ ask[r].op = "drop" /\ RowsStay
          /\ card' \in [Cards -> Rows] /\ UNCHANGED <<layout, grants, sheet>>
      BY <1>7, CardsGoSteps
    <2>2. InformedOf(r)'  BY <1>0, <2>1 DEF InformedOf, AboutCard, Keeps
    <2>. QED  BY <2>1, <2>2, StepKeepsTypes
  <1>8. ASSUME NEW r \in CardSlots, TemplateGoes(r)  PROVE CardTypes'
    <2>1. /\ Steps(r) /\ ask'[r] = Idle /\ RowsStay /\ card' \in [Cards -> Rows]
          /\ DOMAIN layout' \subseteq DOMAIN layout /\ grants' = grants
          /\ \A t \in DOMAIN layout' : layout'[t] = layout[t]
      BY <1>8, RowGoesSteps
    <2>2. Informed'
      <3>. SUFFICES ASSUME NEW q \in CardSlots  PROVE InformedOf(q)'
        BY DEF Informed
      <3>1. CASE q = r  BY <2>1, <3>1, IdleInformed
      <3>2. CASE q # r
        <4>1. ask'[q] = ask[q] /\ InformedOf(q)  BY <1>0, <2>1, <3>2 DEF Steps
        <4>. QED  BY <2>1, <4>1 DEF InformedOf, AboutCard, Free, RowsStay
      <3>. QED  BY <3>1, <3>2
    <2>. QED  BY <2>1, <2>2 DEF CardTypes, Steps
  <1>9. ASSUME NEW r \in CardSlots, CardAborts(r)  PROVE CardTypes'
    BY <1>9, AbortSteps, IdleInformed, ReadKeepsTypes
  <1>10. CASE Regrants
    BY <1>10 DEF Regrants, CardTypes, Informed, InformedOf, AboutCard, Free
  <1>11. CASE ExportAsked \/ ExportPage \/ UNCHANGED regVars
    BY <1>11 DEF ExportAsked, ExportPage, regVars, CardTypes, Informed, InformedOf, AboutCard, Free
  <1>. QED
    BY <1>1, <1>2, <1>3, <1>4, <1>5, <1>5a, <1>6, <1>7, <1>8, <1>9, <1>10, <1>11
       DEF RegistryNext, RegistryStep

(* ------------------------------------------------------------------------ *)
(* The deletion of a template                                               *)

(* Once its cards are dealt with, the live cards that have the template are*)
(* those that took it since; the default template is not deleted, to which *)
(* the cards of others go.                                                 *)
Dropping(r) == ask[r].op = "drop" /\ ask[r].at \in {"cards", "row"}
GapInv ==
  /\ \A c \in Cards : Free(c) => card[c].tpl = NoTemplate
  /\ \A r \in CardSlots : Dropping(r) => ask[r].tpl # DefaultTemplate
  /\ \A r \in CardSlots : At(r, {"drop"}, "row") =>
       \A c \in Cards : Live(c) /\ card[c].tpl = ask[r].tpl => c \in gapTaken

LEMMA GapFrame ==
  ASSUME CardTypes, GapInv, NEW r \in CardSlots, Steps(r), Observed,
         ~At(r, {"drop"}, "row")', Dropping(r)' => ask'[r].tpl # DefaultTemplate,
         \A c \in Cards : /\ card'[c].state = "live" => Live(c) \/ Free(c)
                          /\ card'[c].state = "free" => card'[c].tpl = NoTemplate
  PROVE  GapInv'
  <1>1. \A c \in Cards : Free(c)' => card'[c].tpl = NoTemplate  BY DEF Free
  <1>2. \A q \in CardSlots : Dropping(q)' => ask'[q].tpl # DefaultTemplate
    BY DEF Steps, Dropping, GapInv
  <1>3. ASSUME NEW q \in CardSlots, At(q, {"drop"}, "row")', NEW c \in Cards, Live(c)',
               card'[c].tpl = ask'[q].tpl
        PROVE  c \in gapTaken'
    <2>1. q # r /\ ask'[q] = ask[q] /\ At(q, {"drop"}, "row")  BY <1>3 DEF Steps, At
    <2>2. CASE card'[c].tpl = card[c].tpl
      <3>1. ask[q].tpl \in Templates  BY <2>1 DEF CardTypes, Informed, InformedOf, At
      <3>1a. Live(c)  BY <1>3, <2>1, <2>2, <3>1 DEF GapInv, Live
      <3>2. c \in gapTaken  BY <1>3, <2>1, <2>2, <3>1a DEF GapInv
      <3>. QED  BY <2>2, <3>2 DEF Observed
    <2>3. CASE card'[c].tpl # card[c].tpl
      <3>1. InGap(card'[c].tpl)  BY <1>3, <2>1 DEF InGap
      <3>. QED  BY <2>3, <3>1 DEF Observed
    <2>. QED  BY <2>2, <2>3
  <1>. QED  BY <1>1, <1>2, <1>3 DEF GapInv

LEMMA GapInitially == RegistryInit => GapInv
  BY IdleTyped DEF RegistryInit, GapInv, Dropping, At, Free

LEMMA GapKept == CardTypes /\ GapInv /\ [RegistryNext]_regVars => GapInv'
PROOF
  <1> SUFFICES ASSUME CardTypes, GapInv, [RegistryNext]_regVars  PROVE GapInv'
    OBVIOUS
  <1>0. CASE UNCHANGED regVars  BY <1>0 DEF regVars, GapInv, Dropping, At, Free, Live
  <1> SUFFICES ASSUME RegistryStep, Observed  PROVE GapInv'
    BY <1>0 DEF RegistryNext
  <1>a. /\ \A c \in Cards : Free(c) => card[c].tpl = NoTemplate
        /\ \A r \in CardSlots : Dropping(r) => ask[r].tpl # DefaultTemplate
    BY DEF GapInv
  <1>1. ASSUME NEW r \in CardSlots, UNCHANGED card, Steps(r), ~Dropping(r)'  PROVE GapInv'
    BY <1>1, <1>a, GapFrame DEF Dropping, At, Live, Free
  <1>2. ASSUME NEW r \in CardSlots, CardAsked(r)  PROVE GapInv'
    BY <1>1, <1>2, AskedSteps DEF Dropping
  <1>3. ASSUME NEW r \in CardSlots, AclBuilt(r)  PROVE GapInv'
    BY <1>1, <1>3, AclSteps DEF Dropping, Keeps, AboutCard
  <1>4. ASSUME NEW r \in CardSlots, CardRead(r)  PROVE GapInv'
    BY <1>1, <1>4, ReadSteps, IdleTyped DEF Dropping, Keeps
  <1>5. ASSUME NEW r \in CardSlots, GrantsRead(r)  PROVE GapInv'
    BY <1>1, <1>5, GrantsSteps, IdleTyped DEF Dropping, Keeps
  <1>6. ASSUME NEW r \in CardSlots, TemplateRead(r)  PROVE GapInv'
    <2>1. CASE ~Dropping(r)'  BY <1>1, <1>6, <2>1, TemplateSteps
    <2>2. CASE Dropping(r)'
      <3>1. /\ Steps(r) /\ card' = card /\ ask'[r].at = "cards"
            /\ ask'[r].tpl # DefaultTemplate
        BY <1>6, <2>2, TemplateSteps, IdleTyped DEF Dropping, Keeps
      <3>. QED  BY <1>a, <3>1, GapFrame DEF At, Live, Free
    <2>. QED  BY <2>1, <2>2
  <1>6a. ASSUME NEW r \in CardSlots, CategoryResolved(r)  PROVE GapInv'
    BY <1>1, <1>6a, CategorySteps DEF Dropping
  <1>7. ASSUME NEW r \in CardSlots,
               CardPatched(r) \/ TemplateApplied(r) \/ CardCreated(r) \/ CardDeleted(r)
        PROVE  GapInv'
    <2>1. Steps(r) /\ ask'[r] = Idle /\ RowsStay  BY <1>7, WriteStays
    <2>2. ~At(r, {"drop"}, "row")' /\ ~Dropping(r)'  BY <2>1, IdleTyped DEF At, Dropping
    <2>3. ASSUME NEW c \in Cards
          PROVE  /\ card'[c].state = "live" => Live(c) \/ Free(c)
                 /\ card'[c].state = "free" => card'[c].tpl = NoTemplate
      <3>1. CASE card'[c] = card[c]  BY <1>a, <3>1 DEF Live, Free
      <3>2. CASE card'[c] # card[c]
        <4>1. Live(c) \/ Free(c)
          BY <1>7, <3>2, PatchSteps, ApplySteps, CreateSteps, DeleteSteps
        <4>3. card'[c].state # "free"
          <5>. SUFFICES ASSUME CardCreated(r), Free(c)  PROVE card'[c].state # "free"
            BY <1>7, <2>1, <4>1, <3>2, PatchSteps, ApplySteps, DeleteSteps
               DEF Live, Free, RowsStay
          <5>. QED  BY <3>2, CreateSteps
        <4>. QED  BY <4>1, <4>3
      <3>. QED  BY <3>1, <3>2
    <2>. QED  BY <2>1, <2>2, <2>3, GapFrame
  <1>8. ASSUME NEW r \in CardSlots, TemplateCardsGo(r)  PROVE GapInv'
    <2>1. /\ Steps(r) /\ ask'[r].op = "drop" /\ ask'[r].tpl = ask[r].tpl /\ RowsStay
          /\ Dropping(r)
      BY <1>8, CardsGoSteps DEF Keeps, Dropping
    <2>2. ASSUME NEW c \in Cards
          PROVE  \/ card'[c] = card[c] /\ ~(Live(c) /\ card[c].tpl = ask[r].tpl)
                 \/ card'[c].state = "deleted" /\ card'[c].tpl = card[c].tpl
                 \/ Live(c) /\ card'[c].tpl = DefaultTemplate
      BY <1>8, CardsGoSteps
    <2>3. \A q \in CardSlots : Dropping(q)' => Dropping(q) /\ ask'[q].tpl = ask[q].tpl
      BY <2>1 DEF Steps, Dropping
    <2>4. \A c \in Cards : Free(c)' => card'[c].tpl = NoTemplate
      BY <1>a, <2>1, <2>2 DEF Free, Live, RowsStay
    <2>5. ASSUME NEW q \in CardSlots, At(q, {"drop"}, "row")', NEW c \in Cards, Live(c)',
                 card'[c].tpl = ask'[q].tpl
          PROVE  c \in gapTaken'
      <3>1. ask'[q].tpl # DefaultTemplate
        BY <1>a, <2>3, <2>5 DEF Dropping, At
      <3>2. card'[c] = card[c] /\ ~(Live(c) /\ card[c].tpl = ask[r].tpl)
        BY <2>2, <2>5, <3>1 DEF Live
      <3>3. q # r /\ ask'[q] = ask[q] /\ At(q, {"drop"}, "row") /\ Live(c)
        BY <2>1, <2>5, <3>2 DEF Steps, At, Live
      <3>4. c \in gapTaken  BY <2>5, <3>2, <3>3 DEF GapInv
      <3>. QED  BY <3>2, <3>4 DEF Observed
    <2>. QED  BY <1>a, <2>3, <2>4, <2>5 DEF GapInv
  <1>9. ASSUME NEW r \in CardSlots, TemplateGoes(r)  PROVE GapInv'
    <2>1. /\ Steps(r) /\ ask'[r] = Idle
          /\ \A c \in Cards : /\ card'[c].state = card[c].state
                              /\ card'[c].tpl \in {card[c].tpl, NoTemplate}
      BY <1>9, RowGoesSteps
    <2>. QED  BY <1>a, <2>1, IdleTyped, GapFrame DEF At, Dropping, Live, Free
  <1>10. ASSUME NEW r \in CardSlots, CardAborts(r)  PROVE GapInv'
    BY <1>1, <1>10, AbortSteps, IdleTyped DEF Dropping
  <1>11. CASE Regrants \/ ExportAsked \/ ExportPage
    <2>1. card' = card /\ ask' = ask  BY <1>11 DEF Regrants, ExportAsked, ExportPage
    <2>2. \A c \in Cards : c \in gapTaken => c \in gapTaken'  BY <2>1 DEF Observed
    <2>. QED  BY <2>1, <2>2 DEF GapInv, Dropping, At, Free, Live
  <1>. QED
    BY <1>2, <1>3, <1>4, <1>5, <1>6, <1>6a, <1>7, <1>8, <1>9, <1>10, <1>11 DEF RegistryStep

(* Only the deletion of a row takes a template away.                       *)
LEMMA LayoutsStay ==
  ASSUME CardTypes, RegistryStep, NEW t \in DOMAIN layout \ DOMAIN layout'
  PROVE  \E r \in CardSlots : TemplateGoes(r) /\ ask[r].tpl = t
PROOF
  <1>1. ASSUME NEW r \in CardSlots, TemplateGoes(r)
        PROVE  \E q \in CardSlots : TemplateGoes(q) /\ ask[q].tpl = t
    <2>1. DOMAIN layout' = DOMAIN layout \ {ask[r].tpl}
      BY <1>1 DEF TemplateGoes, Restrict
    <2>2. ask[r].tpl = t  BY <2>1
    <2>. QED  BY <1>1, <2>2
  <1>2. ASSUME NEW r \in CardSlots,
               \/ CardAsked(r) \/ AclBuilt(r) \/ CardRead(r) \/ GrantsRead(r)
               \/ CategoryResolved(r) \/ TemplateRead(r)
               \/ CardPatched(r) \/ TemplateApplied(r) \/ CardCreated(r) \/ CardDeleted(r)
               \/ TemplateCardsGo(r) \/ CardAborts(r)
        PROVE  FALSE
    <2>1. layout' = layout
      BY <1>2, AskedSteps, AclSteps, ReadSteps, GrantsSteps, CategorySteps, TemplateSteps,
         WriteStays, CardsGoSteps, AbortSteps
    <2>. QED  BY <2>1
  <1>3. CASE Regrants \/ ExportAsked \/ ExportPage
    BY <1>3 DEF Regrants, ExportAsked, ExportPage
  <1>. QED  BY <1>1, <1>2, <1>3 DEF RegistryStep

(* The deletion of a template leaves only cards without one that took it   *)
(* between its two transactions (TemplateService.delete).                  *)
THEOREM CardsKeepTemplates == RegistrySpec => NoCardOrphaned
PROOF
  <1>1. ASSUME CardTypes, GapInv, [RegistryNext]_regVars
        PROVE  [\A c \in Cards :
                  Live(c) /\ card[c].tpl \in DOMAIN layout \ DOMAIN layout'
                    /\ card'[c].state = "live" /\ card'[c].tpl = NoTemplate
                  => c \in gapTaken]_regVars
    <2>. SUFFICES ASSUME RegistryStep, NEW c \in Cards, Live(c),
                         card[c].tpl \in DOMAIN layout \ DOMAIN layout'
                  PROVE  c \in gapTaken
      BY <1>1 DEF RegistryNext
    <2>1. PICK r \in CardSlots : TemplateGoes(r) /\ ask[r].tpl = card[c].tpl
      BY <1>1, LayoutsStay
    <2>2. At(r, {"drop"}, "row")  BY <2>1 DEF TemplateGoes
    <2>. QED  BY <1>1, <2>1, <2>2 DEF GapInv
  <1>. QED
    BY <1>1, TypesInitially, TypesKept, GapInitially, GapKept, PTL
       DEF RegistrySpec, NoCardOrphaned

(* ------------------------------------------------------------------------ *)
(* The rights of admins                                                     *)

(* The histories have what is the case now, and what a request has found   *)
(* out of its card, its body and the grants is in its history.             *)
OfAdmin(r) == AboutCard(r) /\ ask[r].by \in Admins
Watches(r) ==
  LET c == ask[r].card  a == ask[r].by IN
  /\ card[c].cat \in been[r].cats /\ card[c].owner \in been[r].owners
  /\ grants[a] \subseteq been[r].granted
  /\ card[c].owner = a \/ card[c].cat \in grants[a] => been[r].seen
Checked(r) ==
  /\ ask[r].op # "delete" /\ ask[r].at \notin {"acl", "card"} => been[r].seen
  /\ ask[r].op = "patch" /\ ask[r].at \in {"grants", "write"} =>
       ask[r].body.owner \in {Unset, Nobody} \cup been[r].owners
  /\ ask[r].op = "patch" /\ ask[r].at = "write" =>
       ask[r].body.cat \in {Unset} \cup been[r].cats \cup been[r].granted
RightsInv == \A r \in CardSlots : OfAdmin(r) => Watches(r) /\ Checked(r)

LEMMA HistoryIs ==
  ASSUME Observed, NEW r \in CardSlots, OfAdmin(r)'
  PROVE  /\ been'[r].cats = been[r].cats \cup {card'[ask'[r].card].cat}
         /\ been'[r].owners = been[r].owners \cup {card'[ask'[r].card].owner}
         /\ been'[r].granted = been[r].granted \cup grants'[ask'[r].by]
         /\ been'[r].seen <=> \/ been[r].seen \/ card'[ask'[r].card].owner = ask'[r].by
                              \/ card'[ask'[r].card].cat \in grants'[ask'[r].by]
  <1>1. been'[r] = Watched(r)  BY DEF Observed
  <1>2. ask'[r].op \in {"patch", "apply", "delete"} /\ ask'[r].by # Super
    BY DEF OfAdmin, AboutCard
  <1> DEFINE w == \/ been[r].seen \/ card'[ask'[r].card].owner = ask'[r].by
                  \/ card'[ask'[r].card].cat \in grants'[ask'[r].by]
             x == been[r].cats \cup {card'[ask'[r].card].cat}
             y == been[r].owners \cup {card'[ask'[r].card].owner}
             z == been[r].granted \cup grants'[ask'[r].by]
  <1>3. been'[r] = [cats |-> x, owners |-> y, granted |-> z, seen |-> w]
    BY <1>1, <1>2, Zenon DEF Watched
  <1>4. w \in BOOLEAN  OBVIOUS
  <1> HIDE DEF w, x, y, z
  <1>5. CASE w
    <2>1. been'[r] = [cats |-> x, owners |-> y, granted |-> z, seen |-> TRUE]
      BY <1>3, <1>4, <1>5
    <2>2. been'[r].cats = x /\ been'[r].owners = y /\ been'[r].granted = z /\ been'[r].seen
      BY <2>1
    <2>. QED  BY <1>5, <2>2 DEF w, x, y, z
  <1>6. CASE ~w
    <2>1. been'[r] = [cats |-> x, owners |-> y, granted |-> z, seen |-> FALSE]
      BY <1>3, <1>4, <1>6
    <2>2. been'[r].cats = x /\ been'[r].owners = y /\ been'[r].granted = z /\ ~been'[r].seen
      BY <2>1
    <2>. QED  BY <1>6, <2>2 DEF w, x, y, z
  <1>. QED  BY <1>5, <1>6

LEMMA HistoryWatches ==
  ASSUME Observed, NEW r \in CardSlots, OfAdmin(r)'
  PROVE  Watches(r)'
  BY HistoryIs DEF Watches

(* What was found out stays found out.                                     *)
LEMMA HistoryGrows ==
  ASSUME Observed, NEW r \in CardSlots, OfAdmin(r)'
  PROVE  /\ been[r].cats \subseteq been'[r].cats /\ been[r].owners \subseteq been'[r].owners
         /\ been[r].granted \subseteq been'[r].granted
         /\ been[r].seen => been'[r].seen
  BY HistoryIs

LEMMA CheckedStays ==
  ASSUME Observed, NEW r \in CardSlots, OfAdmin(r)', Checked(r), ask'[r].op = ask[r].op,
         ask'[r].body = ask[r].body,
         \/ ask'[r].at = ask[r].at \/ ask[r].op = "delete"
         \/ ask'[r].at \in {"acl", "card"}
         \/ ask[r].op = "apply" /\ ask[r].at \notin {"acl", "card"}
  PROVE  Checked(r)'
  <1>1. ask'[r].op # "delete" /\ ask'[r].at \notin {"acl", "card"} => been'[r].seen
    BY HistoryGrows DEF Checked
  <1>2. ask'[r].op = "patch" /\ ask'[r].at \in {"grants", "write"} =>
          ask'[r].body.owner \in {Unset, Nobody} \cup been'[r].owners
    BY HistoryGrows DEF Checked
  <1>3. ask'[r].op = "patch" /\ ask'[r].at = "write" =>
          ask'[r].body.cat \in {Unset} \cup been'[r].cats \cup been'[r].granted
    BY HistoryGrows DEF Checked
  <1>. QED  BY <1>1, <1>2, <1>3 DEF Checked

LEMMA RightsFrame ==
  ASSUME CardTypes, RightsInv, Observed, NEW r \in CardSlots, Steps(r),
         OfAdmin(r)' => Checked(r)'
  PROVE  RightsInv'
  <1> SUFFICES ASSUME NEW q \in CardSlots, OfAdmin(q)', q # r  PROVE Checked(q)'
    BY HistoryWatches DEF RightsInv
  <1>1. ask'[q] = ask[q]  BY DEF Steps
  <1>2. Checked(q)  BY <1>1 DEF RightsInv, OfAdmin, AboutCard
  <1>. QED  BY <1>1, <1>2, CheckedStays

LEMMA RightsInitially == RegistryInit => RightsInv
  BY IdleTyped DEF RegistryInit, RightsInv, OfAdmin, AboutCard

LEMMA RightsKept == CardTypes /\ RightsInv /\ [RegistryNext]_regVars => RightsInv'
PROOF
  <1> SUFFICES ASSUME CardTypes, RightsInv, [RegistryNext]_regVars  PROVE RightsInv'
    OBVIOUS
  <1>0. CASE UNCHANGED regVars
    BY <1>0 DEF regVars, RightsInv, OfAdmin, AboutCard, Watches, Checked
  <1> SUFFICES ASSUME RegistryStep, Observed  PROVE RightsInv'
    BY <1>0 DEF RegistryNext
  <1>a. \A r \in CardSlots : OfAdmin(r) => Watches(r) /\ Checked(r)  BY DEF RightsInv
  <1>1. ASSUME NEW r \in CardSlots, Steps(r), ask'[r] = Idle  PROVE RightsInv'
    BY <1>1, RightsFrame, IdleTyped DEF OfAdmin, AboutCard
  <1>2. ASSUME NEW r \in CardSlots, CardAsked(r)  PROVE RightsInv'
    <2>1. OfAdmin(r)' => Checked(r)'
      BY <1>2, AskedSteps DEF OfAdmin, AboutCard, Checked
    <2>. QED  BY <1>2, <2>1, AskedSteps, RightsFrame
  <1>3. ASSUME NEW r \in CardSlots, AclBuilt(r)  PROVE RightsInv'
    <2>1. Steps(r) /\ Keeps(r) /\ AboutCard(r) /\ (ask[r].op # "delete" => ask'[r].at = "card")
      BY <1>3, AclSteps
    <2>2. ASSUME OfAdmin(r)'  PROVE Checked(r)'
      <3>1. Checked(r)  BY <1>a, <2>1, <2>2 DEF OfAdmin, Keeps
      <3>. QED  BY <2>1, <2>2, <3>1, CheckedStays DEF Keeps
    <2>. QED  BY <2>1, <2>2, RightsFrame
  <1>4. ASSUME NEW r \in CardSlots, CardRead(r), ask'[r] # Idle  PROVE RightsInv'
    <2>1. /\ Steps(r) /\ Keeps(r) /\ AboutCard(r)
          /\ Visible(ask[r].by, ask[r].wide, ask[r].card)
          /\ \/ ask[r].op = "apply" /\ ask'[r].at = "template"
             \/ /\ ask[r].op = "patch" /\ ask'[r].at \in {"write", "grants"}
                /\ ask[r].by # Super =>
                     /\ ~Reassigns(ask[r].body, ask[r].card)
                     /\ ask'[r].at = "grants" \/ ~Moves(ask[r].body, ask[r].card)
      BY <1>4, ReadSteps DEF AboutCard
    <2>2. ASSUME OfAdmin(r)'  PROVE Checked(r)'
      <3>1. OfAdmin(r) /\ ask[r].by # Super /\ Watches(r)
        BY <1>a, <2>1, <2>2 DEF OfAdmin, Keeps
      <3>2. been[r].seen  BY <2>1, <3>1 DEF Visible, Watches
      <3>3. been'[r].seen  BY <2>2, <3>2, HistoryGrows
      <3>4. ask[r].body \in Bodies  BY DEF CardTypes, Requests
      <3>5. ask[r].op = "patch" => ask[r].body.owner \in {Unset, Nobody} \cup been[r].owners
        BY <2>1, <3>1, <3>4 DEF Reassigns, Bodies, Watches
      <3>6. ask[r].op = "patch" /\ ask'[r].at = "write" =>
              ask[r].body.cat \in {Unset} \cup been[r].cats
        BY <2>1, <3>1, <3>4 DEF Moves, Bodies, Watches
      <3>7. /\ been[r].cats \subseteq been'[r].cats /\ been[r].owners \subseteq been'[r].owners
            /\ ask'[r].op = ask[r].op /\ ask'[r].body = ask[r].body
        BY <2>1, <2>2, HistoryGrows DEF Keeps
      <3>. QED  BY <3>3, <3>5, <3>6, <3>7 DEF Checked
    <2>. QED  BY <2>1, <2>2, RightsFrame
  <1>5. ASSUME NEW r \in CardSlots, GrantsRead(r), ask'[r] # Idle  PROVE RightsInv'
    <2>1. /\ Steps(r) /\ Keeps(r) /\ ask[r].op = "patch" /\ ask[r].at = "grants"
          /\ ask'[r].at = "write" /\ ask[r].body.cat \in grants[ask[r].by]
      BY <1>5, GrantsSteps
    <2>2. ASSUME OfAdmin(r)'  PROVE Checked(r)'
      <3>1. Watches(r) /\ Checked(r)
        BY <1>a, <2>1, <2>2 DEF OfAdmin, AboutCard, Keeps
      <3>2. /\ been[r].seen /\ ask[r].body.owner \in {Unset, Nobody} \cup been[r].owners
            /\ ask[r].body.cat \in been[r].granted
        BY <2>1, <3>1 DEF Watches, Checked
      <3>3. ask'[r].op = ask[r].op /\ ask'[r].body = ask[r].body  BY <2>1 DEF Keeps
      <3>. QED  BY <2>2, <3>2, <3>3, HistoryGrows DEF Checked
    <2>. QED  BY <2>1, <2>2, RightsFrame
  <1>6. ASSUME NEW r \in CardSlots, TemplateRead(r), ask'[r] # Idle  PROVE RightsInv'
    <2>1. /\ Steps(r) /\ Keeps(r) /\ ask[r].at = "template"
          /\ ask[r].op \in {"apply", "drop"}
      BY <1>6, TemplateSteps
    <2>2. ASSUME OfAdmin(r)'  PROVE Checked(r)'
      <3>1. Checked(r) /\ ask[r].op = "apply"
        BY <1>a, <2>1, <2>2 DEF OfAdmin, AboutCard, Keeps
      <3>. QED  BY <2>1, <2>2, <3>1, CheckedStays DEF Keeps
    <2>. QED  BY <2>1, <2>2, RightsFrame
  <1>7. ASSUME NEW r \in CardSlots, CardRead(r) \/ GrantsRead(r) \/ TemplateRead(r)
        PROVE  RightsInv'
    BY <1>1, <1>4, <1>5, <1>6, <1>7, ReadSteps, GrantsSteps, TemplateSteps
  <1>7a. ASSUME NEW r \in CardSlots, CategoryResolved(r)  PROVE RightsInv'
    <2>1. Steps(r) /\ ~OfAdmin(r)'  BY <1>7a, CategorySteps DEF OfAdmin, AboutCard
    <2>. QED  BY <2>1, RightsFrame
  <1>8. ASSUME NEW r \in CardSlots,
               \/ CardPatched(r) \/ TemplateApplied(r) \/ CardCreated(r) \/ CardDeleted(r)
               \/ TemplateGoes(r) \/ CardAborts(r)
        PROVE  RightsInv'
    BY <1>1, <1>8, WriteStays, RowGoesSteps, AbortSteps
  <1>9. ASSUME NEW r \in CardSlots, TemplateCardsGo(r)  PROVE RightsInv'
    <2>1. Steps(r) /\ ~OfAdmin(r)'
      BY <1>9, CardsGoSteps DEF Keeps, OfAdmin, AboutCard
    <2>. QED  BY <2>1, RightsFrame
  <1>10. CASE Regrants \/ ExportAsked \/ ExportPage
    <2>1. ask' = ask  BY <1>10 DEF Regrants, ExportAsked, ExportPage
    <2>2. ASSUME NEW q \in CardSlots, OfAdmin(q)'  PROVE Watches(q)' /\ Checked(q)'
      <3>1. Checked(q)  BY <1>a, <2>1, <2>2 DEF OfAdmin, AboutCard
      <3>. QED  BY <2>1, <2>2, <3>1, CheckedStays, HistoryWatches
    <2>. QED  BY <2>2 DEF RightsInv
  <1>. QED
    BY <1>2, <1>3, <1>7, <1>7a, <1>8, <1>9, <1>10 DEF RegistryStep

(* A request that ends with a write to the card of an admin is a PATCH, a  *)
(* template that is applied, or a deletion.                                *)
LEMMA OnlyWritesEnd ==
  ASSUME CardTypes, RegistryStep, NEW r \in CardSlots, OfAdmin(r), ask[r] # Idle,
         ask'[r] = Idle, NEW c \in Cards, card'[c] # card[c]
  PROVE  CardPatched(r) \/ TemplateApplied(r) \/ CardDeleted(r)
PROOF
  <1>1. ASSUME NEW q \in CardSlots,
               \/ CardAsked(q) \/ AclBuilt(q) \/ CardRead(q) \/ GrantsRead(q)
               \/ CategoryResolved(q) \/ TemplateRead(q) \/ CardAborts(q)
        PROVE  FALSE
    <2>1. card' = card
      BY <1>1, AskedSteps, AclSteps, ReadSteps, GrantsSteps, CategorySteps, TemplateSteps, AbortSteps
    <2>. QED  BY <2>1
  <1>2. ASSUME NEW q \in CardSlots,
               \/ CardPatched(q) \/ TemplateApplied(q) \/ CardCreated(q) \/ CardDeleted(q)
               \/ TemplateCardsGo(q) \/ TemplateGoes(q)
        PROVE  CardPatched(r) \/ TemplateApplied(r) \/ CardDeleted(r)
    <2>1. Steps(q)  BY <1>2, WriteStays, CardsGoSteps, RowGoesSteps
    <2>2. q = r  BY <2>1 DEF Steps
    <2>3. ask[r].op \in {"patch", "apply", "delete"}  BY DEF OfAdmin, AboutCard
    <2>. QED  BY <1>2, <2>2, <2>3 DEF CardCreated, TemplateCardsGo, TemplateGoes, At
  <1>3. CASE Regrants \/ ExportAsked \/ ExportPage
    BY <1>3 DEF Regrants, ExportAsked, ExportPage
  <1>. QED  BY <1>1, <1>2, <1>3 DEF RegistryStep

(* What an admin without SUPER_ADMIN does to a card was within their rights*)
(* at some moment of the request, and is when it deletes the card          *)
(* (CardService.update, apply_template and delete).                        *)
THEOREM AdminsKeepToTheirCards == RegistrySpec => RightsHonoured
PROOF
  <1>1. ASSUME CardTypes, RightsInv, [RegistryNext]_regVars
        PROVE  [\A r \in CardSlots :
                  ask[r] # Idle /\ ask'[r] = Idle /\ ask[r].op \in {"patch", "apply", "delete"} =>
                    LET c == ask[r].card  a == ask[r].by IN
                    a \in Admins /\ card'[c] # card[c] =>
                      /\ been[r].seen
                      /\ ask[r].op = "patch" =>
                           /\ card'[c].cat \in been[r].cats \cup been[r].granted
                           /\ card'[c].owner \in been[r].owners \cup {Nobody}
                      /\ ask[r].op = "delete" => Visible(a, TRUE, c)]_regVars
    <2>. SUFFICES ASSUME RegistryStep, NEW r \in CardSlots, ask[r] # Idle, ask'[r] = Idle,
                         OfAdmin(r), card'[ask[r].card] # card[ask[r].card]
                  PROVE  /\ been[r].seen
                         /\ ask[r].op = "patch" =>
                              /\ card'[ask[r].card].cat \in been[r].cats \cup been[r].granted
                              /\ card'[ask[r].card].owner \in been[r].owners \cup {Nobody}
                         /\ ask[r].op = "delete" => Visible(ask[r].by, TRUE, ask[r].card)
      BY <1>1 DEF RegistryNext, OfAdmin, AboutCard
    <2>1. /\ ask[r].card \in Cards /\ ask[r].body \in Bodies /\ card[ask[r].card] \in Rows
          /\ ask[r].by # Super
      BY <1>1 DEF CardTypes, Informed, InformedOf, OfAdmin, Requests
    <2>2. CardPatched(r) \/ TemplateApplied(r) \/ CardDeleted(r)
      BY <1>1, <2>1, OnlyWritesEnd
    <2>3. Watches(r) /\ Checked(r)  BY <1>1 DEF RightsInv
    <2>4. CASE CardPatched(r)
      <3>1. /\ ask[r].op = "patch" /\ ask[r].at = "write"
            /\ card'[ask[r].card] = Patched(card[ask[r].card], ask[r].body)
        BY <1>1, <2>4, PatchSteps
      <3>2. /\ card'[ask[r].card].cat = Given(ask[r].body.cat, card[ask[r].card].cat)
            /\ card'[ask[r].card].owner = Given(ask[r].body.owner, card[ask[r].card].owner)
        BY <2>1, <3>1, PatchedFields
      <3>. QED  BY <2>3, <3>1, <3>2 DEF Watches, Checked, Given
    <2>5. CASE TemplateApplied(r)
      BY <1>1, <2>3, <2>5, ApplySteps DEF Checked
    <2>6. CASE CardDeleted(r)
      <3>1. ask[r].op = "delete" /\ Visible(ask[r].by, ask[r].wide, ask[r].card)
        BY <1>1, <2>6, DeleteSteps
      <3>. QED  BY <2>1, <2>3, <3>1 DEF Visible, Watches
    <2>. QED  BY <2>2, <2>4, <2>5, <2>6
  <1>. QED
    BY <1>1, TypesInitially, TypesKept, RightsInitially, RightsKept, PTL
       DEF RegistrySpec, RightsHonoured

(* ------------------------------------------------------------------------ *)
(* The export                                                               *)

(* The rows that are out are not past the key of the last one, and those   *)
(* in scope all the time are out or past it.                               *)
Ours(c) == InScope(sheet.by, sheet.wide, sheet.only, c)
Sheets  == [at : {"none", "page", "done"}, by : Callers \cup {Nobody}, wide : BOOLEAN,
            only : Categories \cup {Unset}, last : {<<>>} \cup (Nat \X Nat), rows : Seq(Cards)]
RowsOut ==
  /\ IsInjective(sheet.rows)
  /\ \A c \in ToSet(sheet.rows) : ~Free(c) /\ ~Past(sheet.last, c)
StayedOut ==
  /\ sheet.at # "none" => \A c \in stayed : c \in Cards /\ Ours(c)
  /\ sheet.at = "page" => \A c \in stayed : c \in ToSet(sheet.rows) \/ Past(sheet.last, c)
  /\ sheet.at = "done" => stayed \subseteq ToSet(sheet.rows)
SheetInv == sheet \in Sheets /\ RowsOut /\ StayedOut

LEMMA SequenceSets ==
  ASSUME NEW S, NEW s \in Seq(S), NEW t \in Seq(S)
  PROVE  /\ ToSet(s) \subseteq S /\ ToSet(s \o t) = ToSet(s) \cup ToSet(t)
         /\ IsInjective(s) /\ IsInjective(t) /\ ToSet(s) \cap ToSet(t) = {} =>
              IsInjective(s \o t)
PROOF
  <1>1. ToSet(s) \subseteq S  BY DEF ToSet
  <1>2. /\ s \o t \in Seq(S) /\ Len(s \o t) = Len(s) + Len(t)
        /\ \A i \in 1 .. Len(s) : (s \o t)[i] = s[i]
        /\ \A i \in 1 .. Len(t) : (s \o t)[Len(s) + i] = t[i]
    OBVIOUS
  <1>3. \A i \in DOMAIN (s \o t) :
          i \in DOMAIN s \/ (i - Len(s) \in DOMAIN t /\ (s \o t)[i] = t[i - Len(s)])
    OBVIOUS
  <1>4. ToSet(s \o t) = ToSet(s) \cup ToSet(t)
    <2>1. ToSet(s \o t) \subseteq ToSet(s) \cup ToSet(t)  BY <1>2, <1>3 DEF ToSet
    <2>2. ToSet(s) \subseteq ToSet(s \o t)  BY <1>2 DEF ToSet
    <2>3. ASSUME NEW i \in DOMAIN t  PROVE t[i] \in ToSet(s \o t)
      <3>1. Len(s) + i \in DOMAIN (s \o t) /\ (s \o t)[Len(s) + i] = t[i]  BY <1>2
      <3>. QED  BY <3>1 DEF ToSet
    <2>4. ToSet(t) \subseteq ToSet(s \o t)  BY <2>3 DEF ToSet
    <2>. QED  BY <2>1, <2>2, <2>4
  <1>5. ASSUME IsInjective(s), IsInjective(t), ToSet(s) \cap ToSet(t) = {},
               NEW i \in DOMAIN (s \o t), NEW j \in DOMAIN (s \o t), (s \o t)[i] = (s \o t)[j]
        PROVE  i = j
    <2>1. \A k \in DOMAIN s : s[k] \in ToSet(s)  BY DEF ToSet
    <2>2. \A k \in DOMAIN t : t[k] \in ToSet(t)  BY DEF ToSet
    <2>3. CASE i \in DOMAIN s /\ j \in DOMAIN s  BY <1>2, <1>5, <2>3 DEF IsInjective
    <2>4. CASE i \notin DOMAIN s /\ j \notin DOMAIN s
      <3>1. i - Len(s) = j - Len(s)  BY <1>3, <1>5, <2>4 DEF IsInjective
      <3>. QED  BY <1>2, <3>1
    <2>5. CASE (i \in DOMAIN s) # (j \in DOMAIN s)
      BY <1>2, <1>3, <1>5, <2>1, <2>2, <2>5
    <2>. QED  BY <2>3, <2>4, <2>5
  <1>. QED  BY <1>1, <1>4, <1>5 DEF IsInjective

(* The order of the pages.                                                 *)
Key(c) == <<card[c].born, c>>

LEMMA KeysOrdered ==
  ASSUME CardTypes, NEW c \in Cards, NEW d \in Cards
  PROVE  /\ Key(c) \in Nat \X Nat /\ card[c].born \in Nat
         /\ Past(Key(d), c) <=> Before(d, c)
         /\ ~Before(c, c) /\ (c # d => Before(c, d) \/ Before(d, c)) /\ ~(Before(c, d) /\ Before(d, c))
PROOF
  <1>1. c \in Nat /\ d \in Nat /\ card[c].born \in Nat /\ card[d].born \in Nat
    BY DEF CardTypes, Rows
  <1>2. Key(d)[1] = card[d].born /\ Key(d)[2] = d /\ Key(d) # <<>>  BY DEF Key
  <1>. QED  BY <1>1, <1>2 DEF Past, Before, Key

LEMMA PastFollows ==
  ASSUME CardTypes, NEW c \in Cards, NEW d \in Cards, NEW last, Past(last, d), Before(d, c),
         last = <<>> \/ last \in Nat \X Nat
  PROVE  Past(last, c)
PROOF
  <1>1. c \in Nat /\ d \in Nat /\ card[c].born \in Nat /\ card[d].born \in Nat
    BY DEF CardTypes, Rows
  <1>2. CASE last = <<>>  BY <1>2 DEF Past
  <1>3. CASE last # <<>>
    <2>1. last[1] \in Nat /\ last[2] \in Nat  BY <1>3
    <2>. QED  BY <1>1, <1>3, <2>1 DEF Past, Before
  <1>. QED  BY <1>2, <1>3

(* A page is in order, has nothing twice, and all that was found or only   *)
(* what is past its last card comes after it.                              *)
LEMMA PageFollows ==
  ASSUME CardTypes, NEW found \in SUBSET Cards, NEW page \in BoundedSeq(found, PageSize),
         IsPage(page, found)
  PROVE  /\ page \in Seq(Cards) /\ ToSet(page) \subseteq found /\ IsInjective(page)
         /\ Len(page) < PageSize => found \subseteq ToSet(page)
         /\ page # <<>> =>
              /\ Last(page) \in found
              /\ \A c \in ToSet(page) : ~Past(Key(Last(page)), c)
              /\ \A c \in found \ ToSet(page) : Past(Key(Last(page)), c)
PROOF
  <1>1. page \in Seq(found) /\ page \in Seq(Cards)  BY DEF BoundedSeq, SeqOf
  <1>2. ToSet(page) \subseteq found  BY <1>1, SequenceSets
  <1>3. \A i \in DOMAIN page : page[i] \in Cards  BY <1>1
  <1>4. ASSUME NEW i \in DOMAIN page, NEW j \in DOMAIN page, page[i] = page[j]  PROVE i = j
    <2>1. ~(i < j) /\ ~(j < i)  BY <1>3, <1>4, KeysOrdered DEF IsPage
    <2>. QED  BY <1>1, <2>1
  <1>5. Len(page) < PageSize => found \subseteq ToSet(page)
    BY <1>1 DEF IsPage
  <1>6. ASSUME page # <<>>
        PROVE  /\ Last(page) \in found
               /\ \A c \in ToSet(page) : ~Past(Key(Last(page)), c)
               /\ \A c \in found \ ToSet(page) : Past(Key(Last(page)), c)
    <2>1. Len(page) \in DOMAIN page /\ Last(page) = page[Len(page)] /\ Last(page) \in found
      BY <1>1, <1>6 DEF Last
    <2>2. ASSUME NEW i \in DOMAIN page  PROVE ~Before(Last(page), page[i])
      <3>1. i = Len(page) \/ i < Len(page)  BY <1>1
      <3>2. i < Len(page) => Before(page[i], Last(page))  BY <2>1 DEF IsPage
      <3>. QED  BY <1>3, <2>1, <3>1, <3>2, KeysOrdered
    <2>3. ASSUME NEW i \in DOMAIN page  PROVE ~Past(Key(Last(page)), page[i])
      BY <1>3, <2>1, <2>2, KeysOrdered
    <2>4. \A c \in found \ ToSet(page) : Before(Last(page), c)  BY <2>1 DEF IsPage
    <2>5. \A c \in ToSet(page) : ~Past(Key(Last(page)), c)  BY <2>3 DEF ToSet
    <2>6. \A c \in found \ ToSet(page) : Past(Key(Last(page)), c)
      BY <2>1, <2>4, KeysOrdered
    <2>. QED  BY <2>1, <2>5, <2>6
  <1>. QED  BY <1>1, <1>2, <1>4, <1>5, <1>6 DEF IsInjective

LEMMA SheetPage ==
  ASSUME CardTypes, SheetInv, ExportPage, Observed
  PROVE  SheetInv'
PROOF
  <1> DEFINE found == {c \in Cards : Ours(c) /\ Past(sheet.last, c)}
  <1>1. PICK page \in BoundedSeq(found, PageSize) :
          /\ IsPage(page, found)
          /\ sheet' = [sheet EXCEPT
               !.rows = @ \o page,
               !.at   = IF Len(page) < PageSize THEN "done" ELSE "page",
               !.last = IF page = <<>> THEN @ ELSE <<card[Last(page)].born, Last(page)>>]
    BY DEF ExportPage, Ours
  <1>2. /\ sheet.at = "page" /\ card' = card /\ grants' = grants
        /\ sheet'.rows = sheet.rows \o page /\ sheet'.by = sheet.by
        /\ sheet'.wide = sheet.wide /\ sheet'.only = sheet.only
        /\ sheet'.at = IF Len(page) < PageSize THEN "done" ELSE "page"
        /\ sheet'.last = IF page = <<>> THEN sheet.last ELSE Key(Last(page))
        /\ DOMAIN sheet' = DOMAIN sheet
    BY <1>1 DEF ExportPage, SheetInv, Sheets, Key
  <1>3. found \in SUBSET Cards  OBVIOUS
  <1> HIDE DEF found
  <1>4. /\ page \in Seq(Cards) /\ ToSet(page) \subseteq found /\ IsInjective(page)
        /\ Len(page) < PageSize => found \subseteq ToSet(page)
        /\ page # <<>> =>
             /\ Last(page) \in found
             /\ \A c \in ToSet(page) : ~Past(Key(Last(page)), c)
             /\ \A c \in found \ ToSet(page) : Past(Key(Last(page)), c)
    BY <1>1, <1>3, PageFollows
  <1>5. sheet.rows \in Seq(Cards) /\ (sheet.last = <<>> \/ sheet.last \in Nat \X Nat)
    BY DEF SheetInv, Sheets
  <1>6. sheet' \in Sheets
    <2>1. sheet'.last \in {<<>>} \cup (Nat \X Nat)
      <3>1. CASE page = <<>>  BY <1>2, <1>5, <3>1
      <3>2. CASE page # <<>>
        <4>1. Last(page) \in Cards  BY <1>3, <1>4, <3>2
        <4>2. Key(Last(page)) \in Nat \X Nat  BY <4>1, KeysOrdered
        <4>. QED  BY <1>2, <3>2, <4>2
      <3>. QED  BY <3>1, <3>2
    <2>2. sheet'.rows \in Seq(Cards)  BY <1>2, <1>4, <1>5
    <2>3. sheet'.at \in {"none", "page", "done"}  BY <1>2
    <2>. QED
      <3>1. sheet \in Sheets  BY DEF SheetInv
      <3>2. sheet' = [sheet EXCEPT !.rows = sheet'.rows, !.at = sheet'.at, !.last = sheet'.last]
        BY <1>1, <1>2, <3>1 DEF Sheets, Key
      <3>. QED  BY <2>1, <2>2, <2>3, <3>1, <3>2 DEF Sheets
  <1>7. \A c \in Cards : /\ Ours(c)' <=> Ours(c)
                         /\ Free(c)' <=> Free(c)
                         /\ Past(sheet.last, c)' <=> Past(sheet'.last, c)
    BY <1>2 DEF Ours, InScope, Live, Visible, Free, Past
  <1>8. \A c \in found : c \in Cards /\ ~Free(c) /\ Past(sheet.last, c)
    BY DEF found, Ours, InScope, Live, Free
  <1>9. \A c \in ToSet(sheet.rows) : c \in Cards /\ ~Free(c) /\ ~Past(sheet.last, c)
    BY <1>5, SequenceSets DEF SheetInv, RowsOut
  <1>10. /\ ToSet(sheet'.rows) = ToSet(sheet.rows) \cup ToSet(page)
         /\ IsInjective(sheet'.rows)
    <2>1. ToSet(sheet.rows) \cap ToSet(page) = {}  BY <1>4, <1>8, <1>9
    <2>. QED  BY <1>2, <1>4, <1>5, <2>1, SequenceSets DEF SheetInv, RowsOut
  <1>11. ASSUME NEW c \in ToSet(sheet'.rows)
         PROVE  c \in Cards /\ ~Free(c) /\ ~Past(sheet'.last, c)
    <2>1. c \in Cards /\ ~Free(c)  BY <1>4, <1>8, <1>9, <1>10
    <2>2. CASE page = <<>>
      <3>1. ToSet(page) = {}  BY <2>2 DEF ToSet
      <3>. QED  BY <1>2, <1>9, <1>10, <2>1, <2>2, <3>1
    <2>3. CASE page # <<>> /\ c \in ToSet(page)  BY <1>2, <1>4, <2>1, <2>3
    <2>4. CASE page # <<>> /\ c \in ToSet(sheet.rows)
      <3>1. ~Past(sheet.last, c)  BY <1>9, <2>4
      <3>2. Last(page) \in Cards /\ Past(sheet.last, Last(page))  BY <1>4, <1>8, <2>4
      <3>3. ~Before(Last(page), c)  BY <1>5, <2>1, <3>1, <3>2, PastFollows
      <3>. QED  BY <1>2, <2>1, <2>4, <3>2, <3>3, KeysOrdered
    <2>. QED  BY <1>10, <2>2, <2>3, <2>4
  <1>12. RowsOut'
    BY <1>7, <1>10, <1>11 DEF RowsOut
  <1>13. \A c \in stayed' : c \in stayed /\ c \in Cards /\ Ours(c)'
    BY <1>2 DEF Observed, Ours
  <1>14. ASSUME NEW c \in stayed'
         PROVE  c \in ToSet(sheet'.rows) \/ (sheet'.at = "page" /\ Past(sheet'.last, c))
    <2>1. c \in Cards /\ c \in stayed /\ Ours(c)
      BY <1>2, <1>13 DEF SheetInv, StayedOut
    <2>2. c \in ToSet(sheet.rows) \/ c \in found
      BY <1>2, <2>1 DEF SheetInv, StayedOut, found
    <2>3. CASE Len(page) < PageSize  BY <1>4, <1>10, <2>2, <2>3
    <2>4. CASE ~(Len(page) < PageSize)
      <3>1. page # <<>>  BY <2>4
      <3>. QED  BY <1>2, <1>4, <1>10, <2>2, <2>4, <3>1
    <2>. QED  BY <2>3, <2>4
  <1>15. StayedOut'
    BY <1>7, <1>13, <1>14 DEF StayedOut
  <1>. QED  BY <1>6, <1>12, <1>15 DEF SheetInv

LEMMA SheetAsked ==
  ASSUME CardTypes, SheetInv, ExportAsked, Observed
  PROVE  SheetInv'
PROOF
  <1>1. PICK who \in Callers, k \in Categories \cup {Unset} :
          sheet' = [NoSheet EXCEPT !.at = "page", !.by = who, !.only = k,
                                   !.wide = who # Super /\ grants[who] # {}]
    BY DEF ExportAsked
  <1> DEFINE wide == who # Super /\ grants[who] # {}
  <1>2. sheet.at = "none" /\ wide \in BOOLEAN  BY DEF ExportAsked
  <1>3. sheet' = [NoSheet EXCEPT !.at = "page", !.by = who, !.only = k, !.wide = wide]
    BY <1>1
  <1> HIDE DEF wide
  <1>4. /\ sheet' \in Sheets /\ sheet'.rows = <<>> /\ sheet'.last = <<>>
        /\ sheet'.at = "page"
    <2>1. /\ NoSheet \in Sheets /\ NoSheet.rows = <<>> /\ NoSheet.last = <<>>
      BY DEF NoSheet, Sheets
    <2>. QED  BY <1>2, <1>3, <2>1 DEF Sheets
  <1>5. RowsOut'  BY <1>4 DEF RowsOut, ToSet, IsInjective
  <1>6. \A c \in stayed' : c \in Cards /\ Ours(c)'
    BY DEF Observed, Ours
  <1>7. \A c : Past(sheet.last, c)'  BY <1>4 DEF Past
  <1>8. StayedOut'  BY <1>4, <1>6, <1>7 DEF StayedOut
  <1>. QED  BY <1>4, <1>5, <1>8 DEF SheetInv

(* Rows that are changed keep their place in the order.                    *)
LEMMA SheetFrame ==
  ASSUME CardTypes, SheetInv, Observed, RowsStay, sheet' = sheet
  PROVE  SheetInv'
PROOF
  <1>1. \A c \in ToSet(sheet.rows) : c \in Cards /\ ~Free(c) /\ ~Past(sheet.last, c)
    BY SequenceSets DEF SheetInv, Sheets, RowsOut
  <1>2. \A c \in Cards : ~Free(c) =>
          /\ ~Free(c)' /\ (Past(sheet.last, c)' <=> Past(sheet.last, c))
    BY DEF RowsStay, Free, Past
  <1>3. RowsOut'  BY <1>1, <1>2 DEF RowsOut, SheetInv
  <1>4. sheet.at # "none" => \A c \in stayed' : c \in stayed /\ c \in Cards /\ Ours(c)'
    BY DEF Observed, Ours
  <1>5. sheet.at # "none" => \A c \in stayed : c \in Cards /\ ~Free(c)
    BY DEF SheetInv, StayedOut, Ours, InScope, Live, Free
  <1>6. StayedOut'  BY <1>2, <1>4, <1>5 DEF SheetInv, StayedOut
  <1>. QED  BY <1>3, <1>6 DEF SheetInv

LEMMA SheetInitially == RegistryInit => SheetInv
  BY DEF RegistryInit, SheetInv, Sheets, NoSheet, RowsOut, StayedOut, ToSet, IsInjective

LEMMA SheetKept == CardTypes /\ SheetInv /\ [RegistryNext]_regVars => SheetInv'
PROOF
  <1> SUFFICES ASSUME CardTypes, SheetInv, [RegistryNext]_regVars  PROVE SheetInv'
    OBVIOUS
  <1>0. CASE UNCHANGED regVars
    BY <1>0 DEF regVars, SheetInv, RowsOut, StayedOut, Ours, InScope, Visible, Live, Free, Past
  <1> SUFFICES ASSUME RegistryStep, Observed  PROVE SheetInv'
    BY <1>0 DEF RegistryNext
  <1>1. ASSUME NEW r \in CardSlots,
               \/ CardAsked(r) \/ AclBuilt(r) \/ CardRead(r) \/ GrantsRead(r)
               \/ CategoryResolved(r) \/ TemplateRead(r) \/ CardAborts(r)
        PROVE  SheetInv'
    <2>1. sheet' = sheet /\ card' = card
      BY <1>1, AskedSteps, AclSteps, ReadSteps, GrantsSteps, CategorySteps, TemplateSteps, AbortSteps
    <2>. QED  BY <2>1, SheetFrame DEF RowsStay, Free
  <1>2. ASSUME NEW r \in CardSlots,
               \/ CardPatched(r) \/ TemplateApplied(r) \/ CardCreated(r) \/ CardDeleted(r)
               \/ TemplateCardsGo(r) \/ TemplateGoes(r)
        PROVE  SheetInv'
    BY <1>2, WriteStays, CardsGoSteps, RowGoesSteps, SheetFrame
  <1>3. CASE Regrants  BY <1>3, SheetFrame DEF Regrants, RowsStay, Free
  <1>. QED  BY <1>1, <1>2, <1>3, SheetAsked, SheetPage DEF RegistryStep

(* The pages of an export have no card twice, and all that were in its     *)
(* scope all the time (iter_all_for_export), whatever is written meanwhile.*)
THEOREM ExportsAreFaithful == RegistrySpec => []ExportFaithful
PROOF
  <1>1. CardTypes /\ SheetInv => ExportFaithful
    BY DEF SheetInv, RowsOut, StayedOut, ExportFaithful
  <1>. QED
    BY <1>1, TypesInitially, TypesKept, SheetInitially, SheetKept, PTL DEF RegistrySpec

(* ------------------------------------------------------------------------ *)
(* The templates that cards refer to                                        *)

RefsInv ==
  /\ DefaultTemplate \in DOMAIN layout
  /\ \A c \in Cards : card[c].tpl \in DOMAIN layout \cup {NoTemplate}

LEMMA WritesKeepRefs ==
  ASSUME CardTypes, RefsInv, NEW c, NEW row, Writes(c, row)
  PROVE  RefsInv'
  BY DEF CardTypes, RefsInv, Writes, Exists

LEMMA RefsKept == CardTypes /\ GapInv /\ RefsInv /\ [RegistryNext]_regVars => RefsInv'
PROOF
  <1> SUFFICES ASSUME CardTypes, GapInv, RefsInv, [RegistryNext]_regVars  PROVE RefsInv'
    OBVIOUS
  <1>1. ASSUME NEW r \in CardSlots,
               \/ CardAsked(r) \/ AclBuilt(r) \/ CardRead(r) \/ GrantsRead(r)
               \/ CategoryResolved(r) \/ TemplateRead(r) \/ CardAborts(r)
        PROVE  RefsInv'
    <2>1. layout' = layout /\ card' = card
      BY <1>1, AskedSteps, AclSteps, ReadSteps, GrantsSteps, CategorySteps, TemplateSteps, AbortSteps
    <2>. QED  BY <2>1 DEF RefsInv
  <1>2. ASSUME NEW r \in CardSlots,
               CardPatched(r) \/ TemplateApplied(r) \/ CardCreated(r) \/ CardDeleted(r)
        PROVE  RefsInv'
    <2>1. \E c, row : Writes(c, row)
      BY <1>2 DEF CardPatched, TemplateApplied, CardCreated, CardDeleted
    <2>. QED  BY <2>1, WritesKeepRefs
  <1>3. ASSUME NEW r \in CardSlots, TemplateCardsGo(r)  PROVE RefsInv'
    <2>1. /\ layout' = layout
          /\ \A c \in Cards : card'[c].tpl \in {card[c].tpl, DefaultTemplate}
      BY <1>3, CardsGoSteps
    <2>. QED  BY <2>1 DEF RefsInv
  <1>4. ASSUME NEW r \in CardSlots, TemplateGoes(r)  PROVE RefsInv'
    <2>1. ask[r].op = "drop" /\ ask[r].at = "row"  BY <1>4, RowGoesSteps
    <2>2. ask[r].tpl # DefaultTemplate  BY <2>1 DEF GapInv, Dropping
    <2>3. /\ DOMAIN layout' = DOMAIN layout \ {ask[r].tpl}
          /\ \A c \in Cards : card'[c].tpl = IF card[c].tpl = ask[r].tpl THEN NoTemplate
                                             ELSE card[c].tpl
      BY <1>4, RowGoesSteps
    <2>. QED  BY <2>2, <2>3 DEF RefsInv
  <1>5. CASE Regrants
    <2>1. card' = card /\ DOMAIN layout' = DOMAIN layout  BY <1>5 DEF Regrants
    <2>. QED  BY <2>1 DEF RefsInv
  <1>6. CASE ExportAsked \/ ExportPage \/ UNCHANGED regVars
    BY <1>6 DEF ExportAsked, ExportPage, regVars, RefsInv
  <1>. QED  BY <1>1, <1>2, <1>3, <1>4, <1>5, <1>6 DEF RegistryNext, RegistryStep

(* The rows stay rows, a card has a template that exists or none, and the  *)
(* default one always exists (TemplateService.delete).                     *)
THEOREM RegistryTypes == RegistrySpec => []RegistryTypeOK
PROOF
  <1>1. RegistryInit => RefsInv  BY DEF RegistryInit, RefsInv, Rows
  <1>2. CardTypes /\ RefsInv => RegistryTypeOK  BY DEF CardTypes, RefsInv, RegistryTypeOK
  <1>. QED
    BY <1>1, <1>2, TypesInitially, TypesKept, GapInitially, GapKept, RefsKept, PTL
       DEF RegistrySpec

===============================================================================
