------------------------------ MODULE PanelProofs ------------------------------
(***************************************************************************)
(* Proofs about the session of the admin panel, for any number of tabs,    *)
(* requests, accounts and tokens.                                          *)
(***************************************************************************)
EXTENDS PanelSession, TLAPS

(* Nothing that arrived in the token's family is newer; a tab may present  *)
(* it.                                                                     *)
Newest(k)        == \A j \in delivered : family[j] = family[k] => j <= k
Presentable(k, t) == rotator[k] # t \/ Newest(k)

(* The live token of a family is its last.                                 *)
FamiliesInv ==
  /\ \A k \in Issued : family[k] \in Issued
  /\ \A k \in live, j \in Issued : family[j] = family[k] => j <= k

(* What a tab holds, or would load, has arrived.                           *)
Arrived(k) == k = 0 \/ k \in delivered
HeldInv ==
  /\ \A t \in Tabs : \A s \in {store[t]} \cup session[t] : Arrived(s.tok)
  /\ \A s \in local : Arrived(s.tok)
  /\ \A r \in Requests : Arrived(call[r].tok)

(* A refresh is its tab's only one, and for the token the tab has, unless  *)
(* its user has logged out or in since. The token it brings is the last of *)
(* its family, after the newest that arrived.                              *)
Rotation(r) ==
  LET k == call[r].tok  n == call[r].new IN
  /\ k # 0 /\ n \in Issued \ delivered
  /\ family[n] = family[k] /\ owner[n] = owner[k] /\ rotator[k] = TabOf[r]
  /\ Newest(k) /\ \A j \in Issued : family[j] = family[n] => j <= n
CallInv ==
  \A r \in Requests :
    /\ call[r].state = "none" => call[r].tok = 0
    /\ call[r].state # "none" => refreshing[TabOf[r]] = r
    /\ call[r].state = "sent" => call[r].tok # 0
    /\ call[r].state = "rotated" => Rotation(r)
    /\ call[r].tok = 0 \/ r \in late \/ store[TabOf[r]].tok = call[r].tok

(* No old token comes back: what localStorage has is the newest of its     *)
(* family, and what a tab has it has not exchanged for one that arrived.   *)
ReuseInv ==
  /\ \A s \in local : s.tok = 0 \/ Newest(s.tok)
  /\ \A t \in Tabs : \A s \in {store[t]} \cup session[t] :
       s.tok = 0 \/ Presentable(s.tok, t)
  /\ \A r \in Requests : call[r].tok = 0 \/ Presentable(call[r].tok, TabOf[r])

(* Tokens are held with the user they belong to.                           *)
Belongs(s) ==
  IF s.tok = 0 THEN s.user = Nobody
  ELSE owner[s.tok] = s.user \/ family[s.tok] \in raced
IdentityInv ==
  /\ \A t \in Tabs : \A s \in {store[t]} \cup session[t] : Belongs(s)
  /\ \A s \in local : Belongs(s)

(* What must not get into localStorage.                                    *)
MayStay(k) == k # 0 /\ family[k] \in forgotten => flipped # {} \/ family[k] \in raced
RememberInv ==
  /\ \A s \in local : MayStay(s.tok)
  /\ \A t \in Tabs : toSession[t] \/ MayStay(store[t].tok)

PanelInv ==
  /\ TypeOK /\ FamiliesInv /\ HeldInv /\ CallInv /\ ReuseInv /\ IdentityInv /\ RememberInv

USE SessionAssumption

LEMMA InitialPanel == Init => PanelInv
PROOF
  <1>1. Init => TypeOK
    BY DEF Init, TypeOK, Issued, Tokens, Sessions, Empty, NoLogout, NoCall
  <1>2. Init => FamiliesInv /\ HeldInv /\ CallInv /\ ReuseInv
    BY DEF Init, FamiliesInv, HeldInv, CallInv, ReuseInv, Issued, Empty, NoCall, Arrived
  <1>3. Init => IdentityInv /\ RememberInv
    BY DEF Init, IdentityInv, RememberInv, Belongs, MayStay, Empty
  <1>. QED  BY <1>1, <1>2, <1>3 DEF PanelInv

(* ------------------------------------------------------------------------ *)
(* What the parts of the steps do                                           *)

LEMMA StoreIsSet ==
  ASSUME TypeOK, NEW t \in Tabs, NEW s \in Sessions, NEW b \in BOOLEAN, SetStore(t, s, b)
  PROVE  /\ store' \in [Tabs -> Sessions] /\ local' \in {{}} \cup {{x} : x \in Sessions}
         /\ session' \in [Tabs -> {{}} \cup {{x} : x \in Sessions}]
         /\ store'[t] = s /\ \A x \in session'[t] \cup local' : x = s
         /\ b => local' = {}
         /\ \A u \in Tabs \ {t} : store'[u] = store[u] /\ session'[u] = session[u]
  BY DEF TypeOK, SetStore

LEMMA ClientIsReset ==
  ASSUME TypeOK, NEW t \in Tabs, ClientReset(t)
  PROVE  /\ req' \in [Requests -> {"idle", "sent", "waiting"}]
         /\ bearer' \in [Requests -> Tokens \cup {0}] /\ retried' \in [Requests -> BOOLEAN]
         /\ waitsOn' \in [Requests -> Requests \cup {0}]
         /\ refreshing' \in [Tabs -> Requests \cup {0}]
         /\ leaving' \in [Tabs -> [tok : Tokens \cup {0}, answered : BOOLEAN]]
         /\ call' \in [Requests -> [state : {"none", "sent", "rotated", "refused"},
                                    tok : Tokens \cup {0}, new : Tokens \cup {0}]]
         /\ \A r \in Requests : call'[r] = IF TabOf[r] = t THEN NoCall ELSE call[r]
         /\ \A u \in Tabs \ {t} : refreshing'[u] = refreshing[u]
         /\ late' \subseteq late /\ \A r \in late : TabOf[r] # t => r \in late'
PROOF
  <1>1. /\ req' = [r \in Requests |-> IF TabOf[r] = t THEN "idle" ELSE req[r]]
        /\ bearer' = [r \in Requests |-> IF TabOf[r] = t THEN 0 ELSE bearer[r]]
        /\ retried' = [r \in Requests |-> IF TabOf[r] = t THEN FALSE ELSE retried[r]]
        /\ waitsOn' = [r \in Requests |-> IF TabOf[r] = t THEN 0 ELSE waitsOn[r]]
        /\ call' = [r \in Requests |-> IF TabOf[r] = t THEN NoCall ELSE call[r]]
        /\ refreshing' = [refreshing EXCEPT ![t] = 0]
        /\ leaving' = [leaving EXCEPT ![t] = NoLogout]
    BY DEF ClientReset
  <1>2. NoCall \in [state : {"none", "sent", "rotated", "refused"},
                    tok : Tokens \cup {0}, new : Tokens \cup {0}]
    BY DEF NoCall
  <1>3. NoLogout \in [tok : Tokens \cup {0}, answered : BOOLEAN]  BY DEF NoLogout
  <1>4. /\ req' \in [Requests -> {"idle", "sent", "waiting"}]
        /\ bearer' \in [Requests -> Tokens \cup {0}] /\ retried' \in [Requests -> BOOLEAN]
        /\ waitsOn' \in [Requests -> Requests \cup {0}]
    BY <1>1 DEF TypeOK
  <1>5. /\ refreshing' \in [Tabs -> Requests \cup {0}]
        /\ leaving' \in [Tabs -> [tok : Tokens \cup {0}, answered : BOOLEAN]]
    BY <1>1, <1>3 DEF TypeOK
  <1>6. call' \in [Requests -> [state : {"none", "sent", "rotated", "refused"},
                                tok : Tokens \cup {0}, new : Tokens \cup {0}]]
    BY <1>1, <1>2 DEF TypeOK
  <1>7. late' \subseteq late /\ \A r \in late : TabOf[r] # t => r \in late'
    BY DEF ClientReset
  <1>. QED  BY <1>1, <1>4, <1>5, <1>6, <1>7 DEF TypeOK

(* A token that is issued is new in its family, and the others keep theirs.*)
LEMMA IssueAdds ==
  ASSUME TypeOK, NEW f \in Tokens, NEW a \in Accounts \cup {Nobody}, Issue(f, a)
  PROVE  /\ count' = count + 1 /\ count' \in 0..MaxTokens /\ count' \in Tokens
         /\ family' \in [Tokens -> Tokens] /\ owner' \in [Tokens -> Accounts \cup {Nobody}]
         /\ family'[count + 1] = f /\ owner'[count + 1] = a
         /\ \A k \in Issued : k \in Tokens /\ family'[k] = family[k] /\ owner'[k] = owner[k]
         /\ Issued' = Issued \cup {count + 1} /\ count + 1 \notin Issued
  BY DEF TypeOK, Issue, Issued, Tokens

(* ------------------------------------------------------------------------ *)
(* The steps                                                                *)

LEMMA QuietStep ==
  ASSUME PanelInv, TypeOK', live' \subseteq live,
         UNCHANGED <<count, family, owner, tab, call, refreshing, history>>
  PROVE  PanelInv'
PROOF
  <1>1. FamiliesInv' /\ HeldInv'
    BY DEF PanelInv, FamiliesInv, HeldInv, Arrived, Issued, tab, history
  <1>2. CallInv'
    BY DEF PanelInv, CallInv, Rotation, Newest, Issued, tab, history
  <1>3. ReuseInv' /\ IdentityInv' /\ RememberInv'
    BY DEF PanelInv, ReuseInv, Presentable, Newest, IdentityInv, Belongs, RememberInv, MayStay,
           Issued, tab, history
  <1>. QED  BY <1>1, <1>2, <1>3 DEF PanelInv

LEMMA QuietSteps ==
  ASSUME PanelInv,
         \/ \E r \in Requests : Send(r) \/ Answered(r)
         \/ \E t \in Tabs : Logout(t) \/ ServerLogout(t) \/ OpenAdmin(t)
         \/ \E k \in Tokens : Expire(k)
         \/ \E a \in Accounts : CutAccount(a)
  PROVE  PanelInv'
PROOF
  <1>0. TypeOK  BY DEF PanelInv
  <1>1. ASSUME NEW r \in Requests, Send(r)  PROVE PanelInv'
    <2>1. TypeOK'  BY <1>0, <1>1 DEF Send, TypeOK, server, tab, history, Issued, Sessions
    <2>. QED  BY <1>1, <2>1, QuietStep DEF Send, server, tab, history
  <1>2. ASSUME NEW r \in Requests, Answered(r)  PROVE PanelInv'
    <2>1. TypeOK'
      BY <1>0, <1>2 DEF Answered, Finished, TypeOK, server, tab, history, Issued
    <2>. QED  BY <1>2, <2>1, QuietStep DEF Answered, server, tab, history
  <1>3. ASSUME NEW t \in Tabs, Logout(t)  PROVE PanelInv'
    <2>1. store[t].tok \in Tokens \cup {0}  BY <1>0 DEF TypeOK, Sessions
    <2>2. TypeOK'
      BY <1>0, <1>3, <2>1 DEF Logout, TypeOK, server, tab, client, history, Issued
    <2>. QED  BY <1>3, <2>2, QuietStep DEF Logout, server, tab, client, history
  <1>4. ASSUME NEW t \in Tabs, ServerLogout(t)  PROVE PanelInv'
    <2>1. live' \subseteq live  BY <1>4 DEF ServerLogout
    <2>2. leaving' \in [Tabs -> [tok : Tokens \cup {0}, answered : BOOLEAN]]
      <3>1. leaving' = [leaving EXCEPT ![t].answered = TRUE]  BY <1>4 DEF ServerLogout
      <3>2. leaving \in [Tabs -> [tok : Tokens \cup {0}, answered : BOOLEAN]]
        BY <1>0 DEF TypeOK
      <3>. QED  BY <3>1, <3>2
    <2>3. TypeOK'
      BY <1>0, <1>4, <2>1, <2>2 DEF ServerLogout, TypeOK, tab, client, history, Issued
    <2>. QED  BY <1>4, <2>1, <2>3, QuietStep DEF ServerLogout, tab, client, history
  <1>5. ASSUME NEW t \in Tabs, OpenAdmin(t)  PROVE PanelInv'
    <2>1. TypeOK'  BY <1>0, <1>5 DEF OpenAdmin, TypeOK, server, tab, client, history, Issued
    <2>. QED  BY <1>5, <2>1, QuietStep DEF OpenAdmin, server, tab, client, history
  <1>6. ASSUME NEW k \in Tokens, Expire(k)  PROVE PanelInv'
    <2>1. TypeOK'  BY <1>0, <1>6 DEF Expire, TypeOK, tab, client, history, Issued
    <2>. QED  BY <1>6, <2>1, QuietStep DEF Expire, tab, client, history
  <1>7. ASSUME NEW a \in Accounts, CutAccount(a)  PROVE PanelInv'
    <2>1. TypeOK'  BY <1>0, <1>7 DEF CutAccount, TypeOK, tab, client, history, Issued
    <2>. QED  BY <1>7, <2>1, QuietStep DEF CutAccount, tab, client, history
  <1>. QED  BY <1>1, <1>2, <1>3, <1>4, <1>5, <1>6, <1>7

(* A refresh starts with the token that the tab has.                       *)
LEMMA UnauthorizedStep ==
  ASSUME PanelInv, NEW r \in Requests, Unauthorized(r)
  PROVE  PanelInv'
PROOF
  <1> DEFINE t == TabOf[r]
             k == store[t].tok
             q == RefreshFor(r)
             begun == [state |-> IF k = 0 THEN "refused" ELSE "sent", tok |-> k, new |-> 0]
  <1>0. TypeOK /\ t \in Tabs /\ k \in Tokens \cup {0}  BY DEF PanelInv, TypeOK, Sessions
  <1>1. UNCHANGED <<server, tab, page, leaving, history>>  BY DEF Unauthorized
  <1>2. CASE retried[r]
    <2>1. Finished(r) /\ UNCHANGED <<waitsOn, refreshing, call>>
      BY <1>2 DEF Unauthorized
    <2>2. TypeOK'
      BY <1>0, <1>1, <2>1 DEF Finished, TypeOK, server, tab, history, Issued
    <2>. QED  BY <1>1, <2>1, <2>2, QuietStep DEF server, tab, history
  <1>3. CASE ~retried[r]
    <2>1. /\ req' = [req EXCEPT ![r] = "waiting"] /\ bearer' = [bearer EXCEPT ![r] = 0]
          /\ retried' = [retried EXCEPT ![r] = TRUE] /\ waitsOn' = [waitsOn EXCEPT ![r] = q]
          /\ refreshing' = [refreshing EXCEPT ![t] = q]
          /\ call' = IF q # r THEN call ELSE [call EXCEPT ![r] = begun]
      BY <1>3 DEF Unauthorized
    <2>2. q \in Requests /\ (q = r \/ refreshing[t] = q) /\ refreshing[t] \in {0, q}
      BY <1>0 DEF RefreshFor, TypeOK
    <2>3. /\ begun \in [state : {"none", "sent", "rotated", "refused"},
                        tok : Tokens \cup {0}, new : Tokens \cup {0}]
          /\ begun.tok = k /\ begun.state \in {"sent", "refused"}
          /\ begun.state = "sent" => k # 0
      BY <1>0
    <2> HIDE DEF q, begun
    <2>4. TypeOK'
      <3>1. call' \in [Requests -> [state : {"none", "sent", "rotated", "refused"},
                                    tok : Tokens \cup {0}, new : Tokens \cup {0}]]
        BY <1>0, <2>1, <2>3 DEF TypeOK
      <3>2. /\ req' \in [Requests -> {"idle", "sent", "waiting"}]
            /\ bearer' \in [Requests -> Tokens \cup {0}] /\ retried' \in [Requests -> BOOLEAN]
            /\ waitsOn' \in [Requests -> Requests \cup {0}]
            /\ refreshing' \in [Tabs -> Requests \cup {0}]
        BY <1>0, <2>1, <2>2 DEF TypeOK
      <3>. QED  BY <1>0, <1>1, <3>1, <3>2 DEF TypeOK, server, tab, history, Issued
    <2>5. CASE q # r
      <3>1. refreshing' = refreshing  BY <1>0, <2>1, <2>2, <2>5 DEF TypeOK
      <3>. QED  BY <1>1, <2>1, <2>4, <2>5, <3>1, QuietStep DEF server, tab, history
    <2>6. CASE q = r
      <3>1. /\ call'[r] = begun /\ \A w \in Requests \ {r} : call'[w] = call[w]
            /\ refreshing'[t] = r /\ \A u \in Tabs \ {t} : refreshing'[u] = refreshing[u]
        BY <1>0, <2>1, <2>6 DEF TypeOK
      <3>2. FamiliesInv' /\ IdentityInv' /\ RememberInv'
        BY <1>1 DEF PanelInv, FamiliesInv, IdentityInv, Belongs, RememberInv, MayStay,
                    server, tab, history, Issued
      <3>3. k = 0 \/ (k \in delivered /\ Presentable(k, t))
        BY <1>0 DEF PanelInv, HeldInv, Arrived, ReuseInv
      <3>4. HeldInv'
        <4>1. \A w \in Requests : Arrived(call'[w].tok)
          BY <2>3, <3>1, <3>3 DEF PanelInv, HeldInv, Arrived
        <4>. QED  BY <1>1, <4>1 DEF PanelInv, HeldInv, Arrived, tab, history
      <3>5. ReuseInv'
        <4>1. \A w \in Requests : call'[w].tok = 0 \/ Presentable(call'[w].tok, TabOf[w])
          BY <2>3, <3>1, <3>3 DEF PanelInv, ReuseInv
        <4>. QED
          BY <1>1, <4>1 DEF PanelInv, ReuseInv, Presentable, Newest, server, tab, history
      <3>6. CallInv'
        <4>. SUFFICES ASSUME NEW w \in Requests
             PROVE  /\ call'[w].state = "none" => call'[w].tok = 0
                    /\ call'[w].state # "none" => refreshing'[TabOf[w]] = w
                    /\ call'[w].state = "sent" => call'[w].tok # 0
                    /\ call'[w].state = "rotated" => Rotation(w)'
                    /\ \/ call'[w].tok = 0 \/ w \in late'
                       \/ store'[TabOf[w]].tok = call'[w].tok
          BY DEF CallInv
        <4>1. CASE w = r  BY <1>1, <2>3, <3>1, <4>1 DEF tab
        <4>2. CASE w # r
          <5>1. call'[w] = call[w]  BY <3>1, <4>2
          <5>2. call[w].state # "none" => refreshing'[TabOf[w]] = w
            BY <1>0, <2>2, <2>6, <3>1, <4>2 DEF PanelInv, CallInv
          <5>3. /\ call[w].state = "none" => call[w].tok = 0
                /\ call[w].state = "sent" => call[w].tok # 0
                /\ call[w].state = "rotated" => Rotation(w)
                /\ \/ call[w].tok = 0 \/ w \in late
                   \/ store[TabOf[w]].tok = call[w].tok
            BY DEF PanelInv, CallInv
          <5>4. call[w].state = "rotated" => Rotation(w)'
            BY <1>1, <5>1, <5>3 DEF Rotation, Newest, Issued, server, history
          <5>. QED  BY <1>1, <5>1, <5>2, <5>3, <5>4 DEF server, tab, history
        <4>. QED  BY <4>1, <4>2
      <3>. QED  BY <2>4, <3>2, <3>4, <3>5, <3>6 DEF PanelInv
    <2>. QED  BY <2>5, <2>6
  <1>. QED  BY <1>2, <1>3

(* Two refreshes that were answered are of different families.             *)
LEMMA RotationsApart ==
  ASSUME TypeOK, CallInv, HeldInv, NEW r \in Requests, NEW q \in Requests, q # r,
         call[r].state = "rotated", call[q].state = "rotated"
  PROVE  family[call[q].new] # family[call[r].new]
PROOF
  <1> SUFFICES ASSUME family[call[q].new] = family[call[r].new]  PROVE FALSE
    OBVIOUS
  <1>1. Rotation(r) /\ Rotation(q)  BY DEF CallInv
  <1>2. call[r].tok \in delivered /\ call[q].tok \in delivered
    BY <1>1 DEF HeldInv, Arrived, Rotation
  <1>3. call[r].tok \in Int /\ call[q].tok \in Int  BY DEF TypeOK, Tokens
  <1>4. call[r].tok = call[q].tok  BY <1>1, <1>2, <1>3 DEF Rotation, Newest
  <1>5. TabOf[r] = TabOf[q]  BY <1>1, <1>4 DEF Rotation
  <1>. QED  BY <1>5 DEF CallInv

LEMMA ServerRefreshStep ==
  ASSUME PanelInv, NEW r \in Requests, ServerRefresh(r)
  PROVE  PanelInv'
PROOF
  <1> DEFINE k == call[r].tok
             n == count + 1
  <1>0. /\ TypeOK /\ FamiliesInv /\ HeldInv /\ CallInv /\ ReuseInv /\ IdentityInv /\ RememberInv
        /\ call[r].state = "sent" /\ k # 0 /\ k \in delivered /\ k \in Issued
        /\ k \in Tokens /\ family[k] \in Tokens /\ owner[k] \in Accounts \cup {Nobody}
    <2>1. call[r].state = "sent"  BY DEF ServerRefresh
    <2>. QED  BY <2>1 DEF PanelInv, CallInv, HeldInv, Arrived, TypeOK, Issued, Tokens
  <1>1. /\ UNCHANGED <<stale, tab, page, leaving, req, bearer, retried, waitsOn, refreshing,
                       late, raced, forgotten, flipped, delivered>>
    BY DEF ServerRefresh
  <1>2. CASE k \notin live
    <2>1. /\ live' \subseteq live /\ call' = [call EXCEPT ![r].state = "refused"]
          /\ UNCHANGED <<count, family, owner, rotator>>
      BY <1>2 DEF ServerRefresh
    <2>2. /\ call' \in [Requests -> [state : {"none", "sent", "rotated", "refused"},
                                     tok : Tokens \cup {0}, new : Tokens \cup {0}]]
          /\ call'[r].state = "refused" /\ \A q \in Requests : call'[q].tok = call[q].tok
          /\ \A q \in Requests \ {r} : call'[q] = call[q]
      BY <1>0, <2>1 DEF TypeOK
    <2>3. TypeOK'  BY <1>0, <1>1, <2>1, <2>2 DEF TypeOK, tab, Issued
    <2>4. FamiliesInv' /\ HeldInv' /\ IdentityInv' /\ RememberInv'
      BY <1>0, <1>1, <2>1, <2>2 DEF FamiliesInv, HeldInv, Arrived, IdentityInv, Belongs,
         RememberInv, MayStay, tab, Issued
    <2>5. ReuseInv'
      BY <1>0, <1>1, <2>1, <2>2 DEF ReuseInv, Presentable, Newest, tab
    <2>6. CallInv'
      <3>1. \A q \in Requests : Rotation(q) /\ q # r => Rotation(q)'
        BY <1>1, <2>1, <2>2 DEF Rotation, Newest, Issued
      <3>. QED  BY <1>0, <1>1, <2>1, <2>2, <3>1 DEF CallInv, tab
    <2>. QED  BY <2>3, <2>4, <2>5, <2>6 DEF PanelInv
  <1>3. CASE k \in live
    <2>1. /\ Issue(family[k], owner[k]) /\ live' = (live \ {k}) \cup {n}
          /\ call' = [call EXCEPT ![r].state = "rotated", ![r].new = n]
          /\ rotator' = [rotator EXCEPT ![k] = TabOf[r]]
      BY <1>3 DEF ServerRefresh
    <2>2. /\ count' = n /\ n \in 0..MaxTokens /\ n \in Tokens
          /\ family' \in [Tokens -> Tokens] /\ owner' \in [Tokens -> Accounts \cup {Nobody}]
          /\ family'[n] = family[k] /\ owner'[n] = owner[k]
          /\ \A j \in Issued : j \in Tokens /\ family'[j] = family[j] /\ owner'[j] = owner[j]
          /\ Issued' = Issued \cup {n} /\ n \notin Issued
      BY <1>0, <2>1, IssueAdds
    <2>3. /\ call' \in [Requests -> [state : {"none", "sent", "rotated", "refused"},
                                     tok : Tokens \cup {0}, new : Tokens \cup {0}]]
          /\ call'[r].state = "rotated" /\ call'[r].new = n /\ call'[r].tok = k
          /\ \A q \in Requests : call'[q].tok = call[q].tok
          /\ \A q \in Requests \ {r} : call'[q] = call[q]
      BY <1>0, <2>1, <2>2 DEF TypeOK
    <2>4. /\ rotator' \in [Tokens -> Tabs \cup {Nobody}] /\ rotator'[k] = TabOf[r]
          /\ \A j \in Tokens \ {k} : rotator'[j] = rotator[j]
      BY <1>0, <2>1 DEF TypeOK
    <2>5. TypeOK'
      BY <1>0, <1>1, <2>1, <2>2, <2>3, <2>4 DEF TypeOK, tab
    <2>6. \A j \in Issued : j <= n /\ j \in Nat  BY <1>0 DEF Issued, TypeOK
    <2>7. FamiliesInv'
      <3>1. ASSUME NEW j \in live, family[j] = family[k]  PROVE j = k
        <4>1. j \in Issued  BY <1>0 DEF TypeOK
        <4>2. j <= k /\ k <= j  BY <1>0, <1>3, <3>1, <4>1 DEF FamiliesInv
        <4>. QED  BY <1>0, <2>6, <4>1, <4>2
      <3>. QED  BY <1>0, <2>1, <2>2, <2>6, <3>1 DEF FamiliesInv, TypeOK
    <2>8. \A j \in delivered : j \in Issued  BY <1>0 DEF TypeOK
    <2>9. \A j \in delivered : Newest(j)' <=> Newest(j)
      BY <1>1, <2>2, <2>8 DEF Newest
    <2>10. Newest(k)  BY <1>0, <1>3, <2>8 DEF Newest, FamiliesInv
    <2>11. \A j \in delivered, t \in Tabs : Presentable(j, t) => Presentable(j, t)'
      BY <2>2, <2>4, <2>8, <2>9, <2>10 DEF Presentable
    <2>12. HeldInv' /\ ReuseInv'
      BY <1>0, <1>1, <2>3, <2>9, <2>11 DEF HeldInv, Arrived, ReuseInv, tab
    <2>13. IdentityInv' /\ RememberInv'
      <3>1. /\ \A t \in Tabs : \A s \in {store[t]} \cup session[t] : s.tok = 0 \/ s.tok \in Issued
            /\ \A s \in local : s.tok = 0 \/ s.tok \in Issued
        BY <1>0, <2>8 DEF HeldInv, Arrived
      <3>. QED
        BY <1>0, <1>1, <2>2, <3>1 DEF IdentityInv, Belongs, RememberInv, MayStay, tab
    <2>14. Rotation(r)'
      <3>1. \A j \in Issued' : family'[j] = family'[n] => j <= n  BY <2>2, <2>6
      <3>. QED
        BY <1>0, <1>1, <2>2, <2>3, <2>4, <2>8, <2>9, <2>10, <3>1 DEF Rotation
    <2>15. ASSUME NEW q \in Requests, q # r, call[q].state = "rotated"  PROVE Rotation(q)'
      <3>1. Rotation(q)  BY <1>0, <2>15 DEF CallInv
      <3>2. call[q].new # k /\ call[q].new \in Issued /\ call[q].tok \in delivered
        BY <1>0, <3>1 DEF Rotation, HeldInv, Arrived
      <3>3. family[call[q].new] # family[k]
        BY <1>0, <1>3, <2>6, <3>1, <3>2 DEF Rotation, FamiliesInv
      <3>4. call[q].tok # k /\ call[q].tok \in Issued  BY <2>8, <3>1, <3>2, <3>3 DEF Rotation
      <3>5. \A j \in Issued' : family'[j] = family'[call[q].new] => j <= call[q].new
        BY <2>2, <3>1, <3>2, <3>3 DEF Rotation
      <3>. QED
        BY <1>1, <2>2, <2>3, <2>4, <2>9, <2>15, <3>1, <3>2, <3>4, <3>5 DEF Rotation
    <2>16. CallInv'
      <3>. SUFFICES ASSUME NEW w \in Requests
           PROVE  /\ call'[w].state = "none" => call'[w].tok = 0
                  /\ call'[w].state # "none" => refreshing'[TabOf[w]] = w
                  /\ call'[w].state = "sent" => call'[w].tok # 0
                  /\ call'[w].state = "rotated" => Rotation(w)'
                  /\ \/ call'[w].tok = 0 \/ w \in late'
                     \/ store'[TabOf[w]].tok = call'[w].tok
        BY DEF CallInv
      <3>1. call'[w].tok = 0 \/ w \in late' \/ store'[TabOf[w]].tok = call'[w].tok
        BY <1>0, <1>1, <2>3 DEF CallInv, tab
      <3>3. CASE w = r
        BY <1>0, <1>1, <2>3, <2>14, <3>1, <3>3 DEF CallInv
      <3>4. CASE w # r
        BY <1>0, <1>1, <2>3, <2>15, <3>1, <3>4 DEF CallInv
      <3>. QED  BY <3>3, <3>4
    <2>. QED  BY <2>5, <2>7, <2>12, <2>13, <2>16 DEF PanelInv
  <1>. QED  BY <1>2, <1>3

(* The token that arrives takes the place of the tab's own everywhere.     *)
LEMMA RenewedStep ==
  ASSUME PanelInv, NEW r \in Requests, Renewed(r)
  PROVE  PanelInv'
PROOF
  <1>a. PICK k : k = call[r].new  OBVIOUS
  <1> DEFINE t == TabOf[r]
  <1>b. PICK s : s = [store[t] EXCEPT !.tok = k]  OBVIOUS
  <1>0. /\ TypeOK /\ FamiliesInv /\ HeldInv /\ CallInv /\ ReuseInv /\ IdentityInv /\ RememberInv
        /\ call[r].state = "rotated" /\ Rotation(r) /\ t \in Tabs
    <2>1. call[r].state = "rotated"  BY DEF Renewed
    <2>. QED  BY <2>1 DEF PanelInv, CallInv, TypeOK
  <1>1. /\ SetStore(t, s, toSession[t]) /\ refreshing' = [refreshing EXCEPT ![t] = 0]
        /\ call' = [call EXCEPT ![r] = NoCall] /\ delivered' = delivered \cup {k}
        /\ raced' = (IF r \in late THEN raced \cup {family[k]} ELSE raced)
        /\ late' = late \ {r}
        /\ UNCHANGED <<server, toSession, page, leaving, retried, forgotten, flipped, rotator>>
    BY <1>a, <1>b DEF Renewed
  <1>2. /\ k \in Issued \ delivered /\ k \in Tokens /\ k # 0 /\ call[r].tok \in delivered
        /\ call[r].tok \in Issued /\ \A j \in Issued : j \in Nat
        /\ family[k] = family[call[r].tok] /\ owner[k] = owner[call[r].tok]
    BY <1>a, <1>0 DEF Rotation, Issued, Tokens, TypeOK, HeldInv, Arrived
  <1>3. s \in Sessions /\ s.tok = k /\ s.user = store[t].user /\ toSession[t] \in BOOLEAN
    <2>1. store[t] \in Sessions  BY <1>0 DEF TypeOK
    <2>2. toSession[t] \in BOOLEAN  BY <1>0 DEF TypeOK
    <2>. QED  BY <1>b, <1>2, <2>1, <2>2 DEF Sessions
  <1>4. /\ store' \in [Tabs -> Sessions] /\ local' \in {{}} \cup {{x} : x \in Sessions}
        /\ session' \in [Tabs -> {{}} \cup {{x} : x \in Sessions}]
        /\ store'[t] = s /\ \A x \in session'[t] \cup local' : x = s
        /\ toSession[t] => local' = {}
        /\ \A u \in Tabs \ {t} : store'[u] = store[u] /\ session'[u] = session[u]
    <2>1. PICK b \in BOOLEAN : b = toSession[t]  BY <1>3
    <2>2. SetStore(t, s, b)  BY <1>1, <2>1
    <2>3. /\ store' \in [Tabs -> Sessions] /\ local' \in {{}} \cup {{x} : x \in Sessions}
          /\ session' \in [Tabs -> {{}} \cup {{x} : x \in Sessions}]
          /\ store'[t] = s /\ \A x \in session'[t] \cup local' : x = s
          /\ b => local' = {}
          /\ \A u \in Tabs \ {t} : store'[u] = store[u] /\ session'[u] = session[u]
      BY <1>0, <1>3, <2>2, StoreIsSet
    <2>. QED  BY <2>1, <2>3
  <1>5. /\ call' \in [Requests -> [state : {"none", "sent", "rotated", "refused"},
                                   tok : Tokens \cup {0}, new : Tokens \cup {0}]]
        /\ call'[r].state = "none" /\ call'[r].tok = 0
        /\ \A q \in Requests \ {r} : call'[q] = call[q]
    <2>1. NoCall \in [state : {"none", "sent", "rotated", "refused"},
                      tok : Tokens \cup {0}, new : Tokens \cup {0}]
      BY DEF NoCall
    <2>. QED  BY <1>0, <1>1, <2>1 DEF TypeOK, NoCall
  <1>6. /\ refreshing' \in [Tabs -> Requests \cup {0}]
        /\ \A u \in Tabs \ {t} : refreshing'[u] = refreshing[u]
    BY <1>0, <1>1 DEF TypeOK
  <1>7. TypeOK'
    <2>1. /\ req' = [w \in Requests |-> IF w \in Waiters(r) THEN "sent" ELSE req[w]]
          /\ bearer' = [w \in Requests |-> IF w \in Waiters(r) THEN k ELSE bearer[w]]
          /\ waitsOn' = [w \in Requests |-> IF w \in Waiters(r) THEN 0 ELSE waitsOn[w]]
      BY <1>a DEF Renewed
    <2>2. /\ req' \in [Requests -> {"idle", "sent", "waiting"}]
          /\ bearer' \in [Requests -> Tokens \cup {0}]
          /\ waitsOn' \in [Requests -> Requests \cup {0}]
      BY <1>0, <1>2, <2>1 DEF TypeOK
    <2>3. raced' \subseteq Issued /\ late' \subseteq Requests
      BY <1>0, <1>1, <1>2 DEF FamiliesInv, TypeOK
    <2>. QED
      BY <1>0, <1>1, <1>2, <1>4, <1>5, <1>6, <2>2, <2>3 DEF TypeOK, server, Issued
  <1>8. UNCHANGED <<count, family, owner, live, stale>> /\ Issued' = Issued
    BY <1>1 DEF server, Issued
  <1>9. FamiliesInv'  BY <1>0, <1>8 DEF FamiliesInv
  <1>10. HeldInv'
    BY <1>0, <1>1, <1>3, <1>4, <1>5 DEF HeldInv, Arrived
  <1>11. Newest(k)'
    BY <1>a, <1>0, <1>1, <1>2, <1>8 DEF Newest, Rotation, TypeOK
  (* Another tab that has exchanged its token for one that did not arrive. *)
  <1>12. ASSUME NEW j \in delivered, NEW u \in Tabs, Presentable(j, u), u # t
         PROVE  Presentable(j, u)'
    <2>1. CASE rotator[j] # u  BY <1>1, <2>1 DEF Presentable
    <2>2. CASE Newest(j) /\ family[j] # family[k]
      BY <1>1, <1>8, <2>2 DEF Presentable, Newest
    <2>3. CASE rotator[j] = u /\ Newest(j) /\ family[j] = family[k]
      <3>1. j <= call[r].tok /\ call[r].tok <= j
        BY <1>a, <1>0, <1>2, <2>3 DEF Newest, Rotation
      <3>2. j \in Nat  BY <1>0, <1>2 DEF TypeOK
      <3>3. j = call[r].tok  BY <1>2, <3>1, <3>2
      <3>. QED  BY <1>0, <1>12, <2>3, <3>3 DEF Rotation
    <2>. QED  BY <1>12, <2>1, <2>2, <2>3 DEF Presentable
  <1>13. ASSUME NEW q \in Requests, q # r, call[q].state # "none"  PROVE TabOf[q] # t
    BY <1>0, <1>13 DEF CallInv
  <1>14. ReuseInv'
    <2>1. \A x \in local' : x.tok = 0 \/ Newest(x.tok)'
      BY <1>3, <1>4, <1>11
    <2>2. ASSUME NEW u \in Tabs, NEW x \in {store'[u]} \cup session'[u]
          PROVE  x.tok = 0 \/ Presentable(x.tok, u)'
      <3>1. CASE u = t  BY <1>3, <1>4, <1>11, <2>2, <3>1 DEF Presentable
      <3>2. CASE u # t
        <4>1. x \in {store[u]} \cup session[u]  BY <1>4, <2>2, <3>2
        <4>2. x.tok = 0 \/ (x.tok \in delivered /\ Presentable(x.tok, u))
          BY <1>0, <4>1 DEF HeldInv, Arrived, ReuseInv
        <4>. QED  BY <1>12, <3>2, <4>2
      <3>. QED  BY <3>1, <3>2
    <2>3. ASSUME NEW q \in Requests
          PROVE  (call[q].tok = 0 \/ Presentable(call[q].tok, TabOf[q]))'
      <3>1. CASE call[q].tok = 0 \/ q = r  BY <1>5, <3>1
      <3>2. CASE call[q].tok # 0 /\ q # r
        <4>1. TabOf[q] # t /\ TabOf[q] \in Tabs  BY <1>0, <1>13, <3>2 DEF CallInv
        <4>2. call[q].tok \in delivered /\ Presentable(call[q].tok, TabOf[q])
          BY <1>0, <3>2 DEF HeldInv, Arrived, ReuseInv
        <4>. QED  BY <1>5, <1>12, <3>2, <4>1, <4>2
      <3>. QED  BY <3>1, <3>2
    <2>. QED  BY <2>1, <2>2, <2>3 DEF ReuseInv
  <1>15. CallInv'
    <2>1. ASSUME NEW q \in Requests, q # r, call[q].state = "rotated"  PROVE Rotation(q)'
      <3>1. Rotation(q)  BY <1>0, <2>1 DEF CallInv
      <3>2. family[call[q].new] # family[k]  BY <1>a, <1>0, <2>1, RotationsApart
      <3>. QED
        BY <1>1, <1>5, <1>8, <2>1, <3>1, <3>2 DEF Rotation, Newest
    <2>2. ASSUME NEW q \in Requests, q # r, call[q].tok # 0
          PROVE  q \in late' \/ store'[TabOf[q]].tok = call[q].tok
      <3>1. TabOf[q] # t /\ TabOf[q] \in Tabs  BY <1>0, <1>13, <2>2 DEF CallInv
      <3>. QED  BY <1>0, <1>1, <1>4, <2>2, <3>1 DEF CallInv
    <2>3. ASSUME NEW q \in Requests, q # r, call[q].state # "none"
          PROVE  refreshing'[TabOf[q]] = q
      <3>1. TabOf[q] # t /\ TabOf[q] \in Tabs  BY <1>0, <1>13, <2>3
      <3>. QED  BY <1>0, <1>6, <2>3, <3>1 DEF CallInv
    <2>. QED  BY <1>0, <1>1, <1>5, <1>8, <2>1, <2>2, <2>3 DEF CallInv
  <1>16. /\ raced \subseteq raced'
         /\ family[k] \in raced' \/ (store[t].tok = call[r].tok /\ call[r].tok # 0)
    BY <1>0, <1>1, <1>2 DEF CallInv, Rotation
  <1>17. IdentityInv'
    <2>1. owner[k] = store[t].user \/ family[k] \in raced'
      BY <1>0, <1>2, <1>16 DEF IdentityInv, Belongs
    <2>2. Belongs(s)'  BY <1>1, <1>2, <1>3, <1>8, <2>1 DEF Belongs
    <2>3. \A u \in Tabs : \A x \in {store[u]} \cup session[u] : Belongs(x)'
      BY <1>0, <1>8, <1>16 DEF IdentityInv, Belongs
    <2>. QED  BY <1>4, <2>2, <2>3 DEF IdentityInv
  <1>18. RememberInv'
    <2>1. toSession[t] \/ MayStay(k)'
      BY <1>0, <1>1, <1>2, <1>8, <1>16 DEF RememberInv, MayStay
    <2>2. \A j : MayStay(j) => MayStay(j)'  BY <1>1, <1>8, <1>16 DEF MayStay
    <2>. QED  BY <1>0, <1>1, <1>3, <1>4, <1>8, <2>1, <2>2 DEF RememberInv
  <1>. QED  BY <1>7, <1>9, <1>10, <1>14, <1>15, <1>17, <1>18 DEF PanelInv

(* A tab that empties its storages, or loads what is in them.              *)
LEMMA TabStep ==
  ASSUME PanelInv, TypeOK', NEW t \in Tabs,
         UNCHANGED <<server, rotator, delivered, forgotten>>,
         raced' = raced, flipped \subseteq flipped',
         \A x \in local' : x = Empty \/ x \in local,
         \A x \in {store'[t]} \cup session'[t] :
           x = Empty \/ x \in {store[t]} \cup session[t] \cup local,
         \A u \in Tabs \ {t} : /\ store'[u] = store[u] /\ session'[u] = session[u]
                               /\ toSession'[u] = toSession[u],
         toSession'[t] \/ MayStay(store[t].tok)',
         \A r \in Requests :
           \/ call'[r] = NoCall
           \/ /\ call'[r] = call[r] /\ refreshing'[TabOf[r]] = refreshing[TabOf[r]]
              /\ r \in late => r \in late'
              /\ TabOf[r] = t => call[r].tok = 0 \/ r \in late'
  PROVE  PanelInv'
PROOF
  <1>1. /\ TypeOK /\ FamiliesInv /\ HeldInv /\ CallInv /\ ReuseInv /\ IdentityInv /\ RememberInv
        /\ Issued' = Issued /\ Empty.tok = 0 /\ Empty.user = Nobody
        /\ NoCall.state = "none" /\ NoCall.tok = 0
    BY DEF PanelInv, server, Issued, Empty, NoCall
  <1>2. FamiliesInv'  BY <1>1 DEF FamiliesInv, server
  <1>3. \A r \in Requests : call'[r].tok \in {0, call[r].tok}  BY <1>1
  <1>4. HeldInv'
    <2>1. \A u \in Tabs : \A x \in {store'[u]} \cup session'[u] : Arrived(x.tok)
      BY <1>1 DEF HeldInv, Arrived
    <2>2. \A x \in local' : Arrived(x.tok)  BY <1>1 DEF HeldInv, Arrived
    <2>3. \A r \in Requests : Arrived(call'[r].tok)  BY <1>1, <1>3 DEF HeldInv, Arrived
    <2>. QED  BY <2>1, <2>2, <2>3 DEF HeldInv, Arrived
  <1>5. ReuseInv'
    <2>1. \A x \in local' : x.tok = 0 \/ Newest(x.tok)  BY <1>1 DEF ReuseInv
    <2>2. \A u \in Tabs : \A x \in {store'[u]} \cup session'[u] :
            x.tok = 0 \/ Presentable(x.tok, u)
      BY <1>1 DEF ReuseInv, Presentable
    <2>3. \A r \in Requests : call'[r].tok = 0 \/ Presentable(call'[r].tok, TabOf[r])
      BY <1>1, <1>3 DEF ReuseInv
    <2>. QED  BY <2>1, <2>2, <2>3 DEF ReuseInv, Presentable, Newest, server
  <1>6. CallInv'
    <2>. SUFFICES ASSUME NEW r \in Requests, call'[r] # NoCall
         PROVE  /\ call'[r].state = "none" => call'[r].tok = 0
                /\ call'[r].state # "none" => refreshing'[TabOf[r]] = r
                /\ call'[r].state = "sent" => call'[r].tok # 0
                /\ call'[r].state = "rotated" => Rotation(r)'
                /\ call'[r].tok = 0 \/ r \in late' \/ store'[TabOf[r]].tok = call'[r].tok
      BY <1>1 DEF CallInv
    <2>1. /\ call'[r] = call[r] /\ refreshing'[TabOf[r]] = refreshing[TabOf[r]]
          /\ r \in late => r \in late'
          /\ TabOf[r] = t => call[r].tok = 0 \/ r \in late'
      OBVIOUS
    <2>2. Rotation(r) => Rotation(r)'
      BY <1>1, <2>1 DEF Rotation, Newest, server
    <2>. QED  BY <1>1, <2>1, <2>2 DEF CallInv, server
  <1>7. IdentityInv'
    <2>1. \A u \in Tabs : \A x \in {store'[u]} \cup session'[u] : Belongs(x)
      BY <1>1 DEF IdentityInv, Belongs
    <2>2. \A x \in local' : Belongs(x)  BY <1>1 DEF IdentityInv, Belongs
    <2>3. \A x : Belongs(x) => Belongs(x)'  BY DEF Belongs, server
    <2>. QED  BY <2>1, <2>2, <2>3 DEF IdentityInv
  <1>8. RememberInv'
    <2>1. \A j : MayStay(j) => MayStay(j)'  BY DEF MayStay, server
    <2>2. \A x \in local' : MayStay(x.tok)  BY <1>1 DEF RememberInv, MayStay
    <2>. QED  BY <1>1, <2>1, <2>2 DEF RememberInv
  <1>. QED  BY <1>2, <1>4, <1>5, <1>6, <1>7, <1>8 DEF PanelInv

(* Emptied storages, into the one in use.                                  *)
LEMMA StoreIsEmptied ==
  ASSUME TypeOK, NEW t \in Tabs, SetStore(t, Empty, toSession[t])
  PROVE  /\ store' \in [Tabs -> Sessions] /\ local' \in {{}} \cup {{x} : x \in Sessions}
         /\ session' \in [Tabs -> {{}} \cup {{x} : x \in Sessions}]
         /\ \A x \in {store'[t]} \cup session'[t] \cup local' : x = Empty
         /\ \A u \in Tabs \ {t} : store'[u] = store[u] /\ session'[u] = session[u]
PROOF
  <1>1. Empty \in Sessions  BY DEF Empty, Sessions
  <1>2. PICK b \in BOOLEAN : b = toSession[t]  BY DEF TypeOK
  <1>3. SetStore(t, Empty, b)  BY <1>2
  <1>. QED  BY <1>1, <1>3, StoreIsSet

LEMMA ThrownOutStep ==
  ASSUME PanelInv, NEW r \in Requests, ThrownOut(r)
  PROVE  PanelInv'
PROOF
  <1> DEFINE t == TabOf[r]
  <1>1. /\ SetStore(t, Empty, toSession[t]) /\ ClientReset(t)
        /\ page' = [page EXCEPT ![t] = "login"]
        /\ UNCHANGED <<server, toSession, raced, forgotten, flipped, rotator, delivered>>
    BY DEF ThrownOut
  <1>2. TypeOK /\ t \in Tabs  BY DEF PanelInv, TypeOK
  <1>3. TypeOK'
    BY <1>1, <1>2, StoreIsEmptied, ClientIsReset DEF TypeOK, server, Issued
  <1>4. MayStay(store[t].tok)'
    BY <1>1, <1>2, StoreIsEmptied DEF MayStay, Empty
  <1>5. /\ \A x \in {store'[t]} \cup session'[t] \cup local' : x = Empty
        /\ \A u \in Tabs \ {t} : store'[u] = store[u] /\ session'[u] = session[u]
    BY <1>1, <1>2, StoreIsEmptied
  <1>6. \A q \in Requests :
          \/ call'[q] = NoCall
          \/ /\ call'[q] = call[q] /\ TabOf[q] # t
             /\ refreshing'[TabOf[q]] = refreshing[TabOf[q]] /\ (q \in late => q \in late')
    <2>1. \A q \in Requests : TabOf[q] \in Tabs  OBVIOUS
    <2>. QED  BY <1>1, <1>2, <2>1, ClientIsReset
  <1> HIDE DEF t
  <1>. QED  BY <1>1, <1>2, <1>3, <1>4, <1>5, <1>6, TabStep

LEMMA LogoutDoneStep ==
  ASSUME PanelInv, NEW t \in Tabs, LogoutDone(t)
  PROVE  PanelInv'
PROOF
  <1>1. /\ SetStore(t, Empty, toSession[t])
        /\ page' = [page EXCEPT ![t] = "login"] /\ leaving' = [leaving EXCEPT ![t] = NoLogout]
        /\ late' = late \cup ({refreshing[t]} \cap Requests)
        /\ UNCHANGED <<server, toSession, client, raced, forgotten, flipped, rotator, delivered>>
    BY DEF LogoutDone, LeftBehind
  <1>2. TypeOK /\ HeldInv /\ CallInv  BY DEF PanelInv
  <1>5. TypeOK'
    BY <1>1, <1>2, StoreIsEmptied DEF TypeOK, server, client, Issued, NoLogout
  <1>6. MayStay(store[t].tok)'
    BY <1>1, <1>2, StoreIsEmptied DEF MayStay, Empty
  <1>7. ASSUME NEW r \in Requests, TabOf[r] = t, call[r].tok # 0
        PROVE  r \in late'
    <2>1. r = refreshing[t]  BY <1>2, <1>7 DEF CallInv
    <2>. QED  BY <1>1, <2>1
  <1>8. /\ \A x \in {store'[t]} \cup session'[t] \cup local' : x = Empty
        /\ \A u \in Tabs \ {t} : store'[u] = store[u] /\ session'[u] = session[u]
    BY <1>1, <1>2, StoreIsEmptied
  <1>9. call' = call /\ refreshing' = refreshing /\ late \subseteq late'
    BY <1>1 DEF client
  <1>. QED  BY <1>1, <1>5, <1>6, <1>7, <1>8, <1>9, TabStep

LEMMA ReloadStep ==
  ASSUME PanelInv, NEW t \in Tabs, Reload(t)
  PROVE  PanelInv'
PROOF
  <1>1. PICK s : s = Hydrated(t)  OBVIOUS
  <1>2. /\ store' = [store EXCEPT ![t] = s]
        /\ toSession' = [toSession EXCEPT ![t] = ChosenAtLoad(t)]
        /\ page' = [page EXCEPT ![t] = IF s.tok = 0 THEN "login" ELSE @] /\ ClientReset(t)
        /\ flipped' = IF session[t] # {} /\ local # {} THEN flipped \cup {t} ELSE flipped
        /\ UNCHANGED <<server, local, session, raced, forgotten, rotator, delivered>>
    BY <1>1 DEF Reload, Guarded
  <1>3. TypeOK /\ RememberInv  BY DEF PanelInv
  <1>4. /\ session[t] # {} => s \in session[t]
        /\ session[t] = {} => s = Empty \/ s \in local
    BY <1>1 DEF Hydrated
  <1>5. s \in Sessions
    <2>1. Empty \in Sessions  BY DEF Empty, Sessions
    <2>. QED  BY <1>3, <1>4, <2>1 DEF TypeOK
  <1>6. TypeOK'
    <2>1. toSession' \in [Tabs -> BOOLEAN]
      BY <1>2, <1>3 DEF TypeOK, ChosenAtLoad
    <2>2. page' \in [Tabs -> {"login", "admin"}]  BY <1>2, <1>3 DEF TypeOK
    <2>3. store' \in [Tabs -> Sessions]  BY <1>2, <1>3, <1>5 DEF TypeOK
    <2>4. flipped' \subseteq Tabs  BY <1>2, <1>3 DEF TypeOK
    <2>. QED
      BY <1>2, <1>3, <2>1, <2>2, <2>3, <2>4, ClientIsReset DEF TypeOK, server, Issued
  <1>7. store'[t] = s /\ \A u \in Tabs \ {t} : store'[u] = store[u] /\ toSession'[u] = toSession[u]
    BY <1>2, <1>3 DEF TypeOK
  <1>8. toSession'[t] \/ MayStay(store[t].tok)'
    <2>1. CASE session[t] # {} /\ local = {}
      <3>1. toSession'[t] = TRUE  BY <1>2, <1>3, <2>1 DEF TypeOK, ChosenAtLoad
      <3>. QED  BY <3>1
    <2>2. CASE session[t] # {} /\ local # {}  BY <1>2, <2>2 DEF MayStay
    <2>3. CASE session[t] = {}
      <3>1. s = Empty \/ MayStay(s.tok)  BY <1>3, <1>4, <2>3 DEF RememberInv
      <3>. QED  BY <1>2, <1>7, <2>3, <3>1 DEF MayStay, server, Empty
    <2>. QED  BY <2>1, <2>2, <2>3
  <1>. QED  BY <1>2, <1>3, <1>4, <1>6, <1>7, <1>8, TabStep, ClientIsReset

LEMMA LoginStep ==
  ASSUME PanelInv, NEW t \in Tabs, NEW a \in Accounts, NEW remember \in BOOLEAN,
         ApplyTokens(t, a, remember)
  PROVE  PanelInv'
PROOF
  <1>0. /\ TypeOK /\ FamiliesInv /\ HeldInv /\ CallInv /\ ReuseInv /\ IdentityInv /\ RememberInv
    BY DEF PanelInv
  <1>1. PICK k : k = count + 1  OBVIOUS
  <1>2. PICK s : s = [tok |-> k, user |-> a]  OBVIOUS
  <1>3. PICK b \in BOOLEAN : b = ~remember  OBVIOUS
  <1>4. /\ Issue(k, a) /\ live' = live \cup {k} /\ SetStore(t, s, b)
        /\ toSession' = [toSession EXCEPT ![t] = b]
        /\ page' = [page EXCEPT ![t] = "admin"]
        /\ late' = late \cup ({refreshing[t]} \cap Requests) /\ delivered' = delivered \cup {k}
        /\ forgotten' = IF b THEN forgotten \cup {k} ELSE forgotten
        /\ UNCHANGED <<stale, leaving, client, raced, flipped, rotator>>
    BY <1>1, <1>2, <1>3 DEF ApplyTokens
  <1>5. k \in Tokens /\ k # 0  BY <1>0, <1>1, <1>4 DEF Issue, TypeOK, Tokens
  <1>6. /\ count' = k /\ k \in 0..MaxTokens
        /\ family' \in [Tokens -> Tokens] /\ owner' \in [Tokens -> Accounts \cup {Nobody}]
        /\ family'[k] = k /\ owner'[k] = a
        /\ \A j \in Issued : j \in Tokens /\ family'[j] = family[j] /\ owner'[j] = owner[j]
        /\ Issued' = Issued \cup {k} /\ k \notin Issued
    BY <1>0, <1>1, <1>4, <1>5, IssueAdds
  <1>7. s \in Sessions /\ s.tok = k /\ s.user = a  BY <1>2, <1>5 DEF Sessions
  <1>8. /\ store' \in [Tabs -> Sessions] /\ local' \in {{}} \cup {{x} : x \in Sessions}
        /\ session' \in [Tabs -> {{}} \cup {{x} : x \in Sessions}]
        /\ store'[t] = s /\ \A x \in session'[t] \cup local' : x = s
        /\ b => local' = {}
        /\ \A u \in Tabs \ {t} : store'[u] = store[u] /\ session'[u] = session[u]
    BY <1>0, <1>4, <1>7, StoreIsSet
  <1>9. /\ \A j \in delivered : j \in Issued
        /\ \A j \in Issued : family'[j] # k /\ j \in Nat /\ j <= k
    BY <1>0, <1>1, <1>6 DEF TypeOK, FamiliesInv, Issued
  <1>10. \A r \in Requests : call[r].tok = 0 \/ (call[r].tok \in delivered /\ call[r].tok \in Issued)
    BY <1>0, <1>9 DEF HeldInv, Arrived
  <1>12. TypeOK'
    <2>1. toSession' \in [Tabs -> BOOLEAN]  BY <1>0, <1>4 DEF TypeOK
    <2>2. /\ live' \subseteq Issued' /\ stale' \subseteq Issued' /\ raced' \subseteq Issued'
          /\ forgotten' \subseteq Issued' /\ delivered' \subseteq Issued'
      BY <1>0, <1>4, <1>6 DEF TypeOK
    <2>3. page' \in [Tabs -> {"login", "admin"}]  BY <1>0, <1>4 DEF TypeOK
    <2>. QED
      BY <1>0, <1>4, <1>6, <1>8, <2>1, <2>2, <2>3 DEF TypeOK, client
  <1>13. FamiliesInv'
    <2>1. \A j \in Issued' : family'[j] \in Issued'  BY <1>0, <1>6 DEF FamiliesInv
    <2>2. ASSUME NEW l \in live', NEW j \in Issued', family'[j] = family'[l]  PROVE j <= l
      <3>1. CASE l = k  BY <1>5, <1>6, <1>9, <3>1 DEF Tokens
      <3>2. CASE l # k
        <4>1. l \in live /\ l \in Issued  BY <1>0, <1>4, <2>2, <3>2 DEF TypeOK
        <4>2. j \in Issued  BY <1>6, <1>9, <2>2, <4>1
        <4>. QED  BY <1>0, <1>6, <2>2, <4>1, <4>2 DEF FamiliesInv
      <3>. QED  BY <3>1, <3>2
    <2>. QED  BY <2>1, <2>2 DEF FamiliesInv
  <1>14. HeldInv'
    BY <1>0, <1>4, <1>7, <1>8 DEF HeldInv, Arrived, client
  <1>15. \A j \in delivered : Newest(j) => Newest(j)'
    BY <1>4, <1>6, <1>9 DEF Newest
  <1>16. Newest(k)'
    BY <1>4, <1>5, <1>6, <1>9 DEF Newest, Tokens
  <1>17. ReuseInv'
    <2>1. \A j \in delivered, u \in Tabs : Presentable(j, u) => Presentable(j, u)'
      BY <1>4, <1>15 DEF Presentable
    <2>2. \A x \in local' : Newest(x.tok)'  BY <1>7, <1>8, <1>16
    <2>3. ASSUME NEW u \in Tabs, NEW x \in {store'[u]} \cup session'[u]
          PROVE  x.tok = 0 \/ Presentable(x.tok, u)'
      <3>1. CASE u = t  BY <1>7, <1>8, <1>16, <2>3, <3>1 DEF Presentable
      <3>2. CASE u # t
        <4>1. x \in {store[u]} \cup session[u]  BY <1>8, <2>3, <3>2
        <4>2. x.tok = 0 \/ (x.tok \in delivered /\ Presentable(x.tok, u))
          BY <1>0, <4>1 DEF HeldInv, Arrived, ReuseInv
        <4>. QED  BY <2>1, <4>2
      <3>. QED  BY <3>1, <3>2
    <2>4. call' = call  BY <1>4 DEF client
    <2>5. \A r \in Requests : (call[r].tok = 0 \/ Presentable(call[r].tok, TabOf[r]))'
      BY <1>0, <1>10, <2>1, <2>4 DEF ReuseInv, TypeOK
    <2>. QED  BY <2>2, <2>3, <2>5 DEF ReuseInv
  <1>18. CallInv'
    <2>. SUFFICES ASSUME NEW r \in Requests
         PROVE  /\ call[r].state = "none" => call[r].tok = 0
                /\ call[r].state # "none" => refreshing[TabOf[r]] = r
                /\ call[r].state = "sent" => call[r].tok # 0
                /\ call[r].state = "rotated" => Rotation(r)'
                /\ call[r].tok = 0 \/ r \in late' \/ store'[TabOf[r]].tok = call[r].tok
      BY <1>4 DEF CallInv, client
    <2>1. call[r].tok = 0 \/ r \in late' \/ store'[TabOf[r]].tok = call[r].tok
      <3>1. CASE call[r].tok # 0 /\ TabOf[r] = t
        <4>1. r = refreshing[t]  BY <1>0, <3>1 DEF CallInv
        <4>. QED  BY <1>4, <4>1
      <3>2. CASE call[r].tok # 0 /\ TabOf[r] # t
        <4>1. TabOf[r] \in Tabs /\ store'[TabOf[r]] = store[TabOf[r]]  BY <1>8, <3>2
        <4>. QED  BY <1>0, <1>4, <3>2, <4>1 DEF CallInv
      <3>. QED  BY <3>1, <3>2
    <2>2. call[r].state = "rotated" => Rotation(r)'
      <3>. SUFFICES ASSUME call[r].state = "rotated"  PROVE Rotation(r)'
        OBVIOUS
      <3>1. Rotation(r)  BY <1>0 DEF CallInv
      <3>2. call[r].new \in Issued /\ call[r].new # k /\ call[r].new \notin delivered'
        BY <1>4, <1>6, <3>1 DEF Rotation
      <3>3. call[r].tok \in Issued /\ Newest(call[r].tok)'
        BY <1>10, <1>15, <3>1, <1>4 DEF Rotation, client
      <3>4. \A j \in Issued' : family'[j] = family'[call[r].new] => j <= call[r].new
        BY <1>6, <1>9, <3>1, <3>2 DEF Rotation
      <3>. QED  BY <1>4, <1>6, <3>1, <3>2, <3>3, <3>4 DEF Rotation, client
    <2>. QED  BY <1>0, <2>1, <2>2 DEF CallInv
  <1>19. IdentityInv'
    <2>1. \A x : (x.tok = 0 \/ x.tok \in delivered) /\ Belongs(x) => Belongs(x)'
      BY <1>4, <1>6, <1>9 DEF Belongs
    <2>2. Belongs(s)'  BY <1>5, <1>6, <1>7 DEF Belongs
    <2>3. \A u \in Tabs : \A x \in {store[u]} \cup session[u] : Belongs(x)'
      BY <1>0, <2>1 DEF IdentityInv, HeldInv, Arrived
    <2>. QED  BY <1>8, <2>2, <2>3 DEF IdentityInv
  <1>20. RememberInv'
    <2>1. ASSUME NEW u \in Tabs  PROVE toSession'[u] \/ MayStay(store[u].tok)'
      <3>1. CASE u = t /\ b  BY <1>0, <1>4, <3>1 DEF TypeOK
      <3>2. CASE u = t /\ ~b
        <4>1. forgotten' = forgotten /\ k \notin forgotten
          BY <1>0, <1>4, <1>6, <3>2 DEF TypeOK
        <4>. QED  BY <1>6, <1>7, <1>8, <3>2, <4>1 DEF MayStay
      <3>3. CASE u # t
        <4>1. store'[u] = store[u] /\ toSession'[u] = toSession[u]
          BY <1>0, <1>4, <1>8, <3>3 DEF TypeOK
        <4>2. store[u].tok = 0 \/ store[u].tok \in Issued
          BY <1>0, <1>9 DEF HeldInv, Arrived
        <4>. QED  BY <1>0, <1>4, <1>6, <1>9, <4>1, <4>2 DEF RememberInv, MayStay
      <3>. QED  BY <3>1, <3>2, <3>3
    <2>2. ASSUME NEW x \in local'  PROVE MayStay(x.tok)'
      <3>1. ~b /\ x = s  BY <1>8, <2>2
      <3>2. forgotten' = forgotten /\ k \notin forgotten
        BY <1>0, <1>4, <1>6, <3>1 DEF TypeOK
      <3>. QED  BY <1>6, <1>7, <3>1, <3>2 DEF MayStay
    <2>. QED  BY <2>1, <2>2 DEF RememberInv
  <1>. QED  BY <1>12, <1>13, <1>14, <1>17, <1>18, <1>19, <1>20 DEF PanelInv

(* ------------------------------------------------------------------------ *)

LEMMA PanelKept == PanelInv /\ [Next]_vars => PanelInv'
PROOF
  <1> SUFFICES ASSUME PanelInv, [Next]_vars  PROVE PanelInv'
    OBVIOUS
  <1>1. CASE UNCHANGED vars
    <2>1. TypeOK'
      BY <1>1 DEF PanelInv, TypeOK, vars, server, tab, client, history, Issued
    <2>. QED  BY <1>1, <2>1, QuietStep DEF vars, server, tab, client, history
  <1>2. CASE Next
    BY <1>2, QuietSteps, UnauthorizedStep, ServerRefreshStep, RenewedStep, ThrownOutStep,
       LogoutDoneStep, ReloadStep, LoginStep DEF Next
  <1>. QED  BY <1>1, <1>2

LEMMA PanelInvariance == Spec => []PanelInv
  BY InitialPanel, PanelKept, PTL DEF Spec

(* A tab never presents a refresh token that it has exchanged for one it   *)
(* received (the shared refresh of the client's interceptor).              *)
THEOREM NoReuse == Spec => []NoSelfInflictedReuse
PROOF
  <1>1. PanelInv => NoSelfInflictedReuse
    BY DEF PanelInv, ReuseInv, Presentable, Newest, NoSelfInflictedReuse
  <1>. QED  BY <1>1, PanelInvariance, PTL

(* The tokens of a tab belong to the user it shows, and those that are not *)
(* to be remembered stay out of localStorage (rememberAwareStorage), but   *)
(* for a refresh that outlived a login or a logout.                        *)
THEOREM TokensKeptHome == Spec => []TokensStayHome
PROOF
  <1>1. PanelInv => TokensStayHome
    BY DEF PanelInv, IdentityInv, RememberInv, Belongs, MayStay, TokensStayHome, IdentityKept,
           RememberKept
  <1>. QED  BY <1>1, PanelInvariance, PTL

===============================================================================
