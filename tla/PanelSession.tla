------------------------------ MODULE PanelSession ------------------------------
(***************************************************************************)
(* The admin panel's session in the tabs of one browser: the axios client  *)
(* that refreshes an expired access token, the store of tokens with its    *)
(* two storages, what a login and a logout set in it, and the guard of     *)
(* the routes. An access token is named by the refresh token that was      *)
(* issued with it. The server is reduced to what the panel depends on:     *)
(* families of rotated tokens, of which the last is live.                  *)
(***************************************************************************)
EXTENDS Integers, FiniteSets

CONSTANTS
  Tabs, Requests,
  TabOf,      \* the tab that sends each request
  Accounts,
  Nobody,
  MaxTokens   \* bound of the model: refresh tokens issued

ASSUME SessionAssumption ==
  /\ TabOf \in [Requests -> Tabs]
  /\ Nobody \notin Accounts
  /\ MaxTokens \in Nat
  /\ 0 \notin Requests

Tokens == 1..MaxTokens

VARIABLES
  count, family, owner,  \* the tokens issued: 1..count, their login, their account
  live,        \* refresh tokens that are not revoked
  stale,       \* access tokens that are answered 401
  store,       \* each tab's memory: refresh token (0: null) and user
  toSession,   \* useSessionStorage
  local,       \* localStorage, shared by the tabs; {} for no item
  session,     \* sessionStorage of each tab
  page,        \* the route: the login page or one behind the guard
  leaving,     \* the logout that a tab awaits: token and whether it is answered
  req, bearer, retried, waitsOn,  \* each request: state, token sent, _retry, refresh awaited
  refreshing,  \* the request that started a tab's refresh, 0 for null
  call,        \* refreshes under way, by the request that started them
  late,        \* history: refreshes under way since before their tab last logged out or in
  raced,       \* history: families of which the answer to such a refresh was then stored
  forgotten,   \* history: families of logins without "remember me"
  flipped,     \* history: tabs reloaded with items in both storages
  rotator, delivered  \* history: who rotated a token, what arrived

server  == <<count, family, owner, live, stale>>
tab     == <<store, toSession, local, session>>
client  == <<req, bearer, retried, waitsOn, refreshing, call>>
history == <<late, raced, forgotten, flipped, rotator, delivered>>
vars    == <<server, tab, page, leaving, client, history>>

Empty    == [tok |-> 0, user |-> Nobody]
NoLogout == [tok |-> 0, answered |-> FALSE]
NoCall   == [state |-> "none", tok |-> 0, new |-> 0]
Issued   == 1..count
Members(f) == {k \in Issued : family[k] = f}
Sessions == [tok : Tokens \cup {0}, user : Accounts \cup {Nobody}]

TypeOK ==
  /\ count \in 0..MaxTokens
  /\ family \in [Tokens -> Tokens] /\ owner \in [Tokens -> Accounts \cup {Nobody}]
  /\ live \subseteq Issued /\ stale \subseteq Issued
  /\ store \in [Tabs -> Sessions] /\ toSession \in [Tabs -> BOOLEAN]
  /\ local \in {{}} \cup {{s} : s \in Sessions}
  /\ session \in [Tabs -> {{}} \cup {{s} : s \in Sessions}]
  /\ page \in [Tabs -> {"login", "admin"}]
  /\ leaving \in [Tabs -> [tok : Tokens \cup {0}, answered : BOOLEAN]]
  /\ req \in [Requests -> {"idle", "sent", "waiting"}]
  /\ bearer \in [Requests -> Tokens \cup {0}]
  /\ retried \in [Requests -> BOOLEAN]
  /\ waitsOn \in [Requests -> Requests \cup {0}]
  /\ refreshing \in [Tabs -> Requests \cup {0}]
  /\ call \in [Requests -> [state : {"none", "sent", "rotated", "refused"},
                            tok : Tokens \cup {0}, new : Tokens \cup {0}]]
  /\ late \subseteq Requests /\ raced \subseteq Issued /\ flipped \subseteq Tabs
  /\ forgotten \subseteq Issued /\ delivered \subseteq Issued
  /\ rotator \in [Tokens -> Tabs \cup {Nobody}]

Init ==
  /\ count = 0 /\ live = {} /\ stale = {}
  /\ family = [k \in Tokens |-> k] /\ owner = [k \in Tokens |-> Nobody]
  /\ store = [t \in Tabs |-> Empty] /\ toSession = [t \in Tabs |-> FALSE]
  /\ local = {} /\ session = [t \in Tabs |-> {}]
  /\ page = [t \in Tabs |-> "login"]
  /\ leaving = [t \in Tabs |-> NoLogout]
  /\ req = [r \in Requests |-> "idle"] /\ bearer = [r \in Requests |-> 0]
  /\ retried = [r \in Requests |-> FALSE] /\ waitsOn = [r \in Requests |-> 0]
  /\ refreshing = [t \in Tabs |-> 0] /\ call = [r \in Requests |-> NoCall]
  /\ late = {} /\ raced = {} /\ flipped = {}
  /\ forgotten = {} /\ delivered = {}
  /\ rotator = [k \in Tokens |-> Nobody]

-----------------------------------------------------------------------------
(* The store and its storages                                              *)

(* set() of the store, with the copy that persist writes: to the storage   *)
(* chosen at the login, and out of the other one.                          *)
SetStore(t, s, inSession) ==
  /\ store' = [store EXCEPT ![t] = s]
  /\ local' = IF inSession THEN {} ELSE {s}
  /\ session' = [session EXCEPT ![t] = IF inSession THEN {s} ELSE {}]

(* The storage in use after a page load is the one that holds an item.     *)
ChosenAtLoad(t) == session[t] # {} /\ local = {}

Hydrated(t) ==
  IF session[t] # {} THEN CHOOSE s \in session[t] : TRUE
  ELSE IF local # {} THEN CHOOSE s \in local : TRUE ELSE Empty

(* What a page load drops: requests, refreshes and a logout under way.     *)
ClientReset(t) ==
  LET mine == {r \in Requests : TabOf[r] = t}
      Reset(f, v) == [r \in Requests |-> IF r \in mine THEN v ELSE f[r]]
  IN /\ req' = Reset(req, "idle") /\ bearer' = Reset(bearer, 0)
     /\ retried' = Reset(retried, FALSE) /\ waitsOn' = Reset(waitsOn, 0)
     /\ call' = Reset(call, NoCall)
     /\ refreshing' = [refreshing EXCEPT ![t] = 0]
     /\ leaving' = [leaving EXCEPT ![t] = NoLogout]
     /\ late' = late \ mine

(* RequireAuth shows the login page to a tab without an access token.      *)
Guarded(t, s) == page' = [page EXCEPT ![t] = IF s.tok = 0 THEN "login" ELSE @]

Reload(t) ==
  /\ store' = [store EXCEPT ![t] = Hydrated(t)]
  /\ toSession' = [toSession EXCEPT ![t] = ChosenAtLoad(t)]
  /\ Guarded(t, Hydrated(t))
  /\ ClientReset(t)
  /\ flipped' = IF session[t] # {} /\ local # {} THEN flipped \cup {t} ELSE flipped
  /\ UNCHANGED <<server, local, session, raced, forgotten, rotator, delivered>>

-----------------------------------------------------------------------------
(* Requests of the panel's pages                                           *)

Send(r) ==
  LET t == TabOf[r]
  IN /\ page[t] = "admin" /\ req[r] = "idle"
     /\ req' = [req EXCEPT ![r] = "sent"]
     /\ bearer' = [bearer EXCEPT ![r] = store[t].tok]
     /\ UNCHANGED <<server, tab, page, leaving, retried, waitsOn, refreshing, call, history>>

Finished(r) ==
  /\ req' = [req EXCEPT ![r] = "idle"]
  /\ bearer' = [bearer EXCEPT ![r] = 0]
  /\ retried' = [retried EXCEPT ![r] = FALSE]

(* Any answer but 401, an error of the network included.                   *)
Answered(r) ==
  /\ req[r] = "sent" /\ bearer[r] \notin stale
  /\ Finished(r)
  /\ UNCHANGED <<server, tab, page, leaving, waitsOn, refreshing, call, history>>

(* A slip: every 401 starts a refresh of its own.                          *)
RefreshAlone(r) == r

(* refreshing ||= refreshAccessToken()                                     *)
RefreshFor(r) == IF refreshing[TabOf[r]] = 0 THEN r ELSE refreshing[TabOf[r]]

(* refreshAccessToken reads the refresh token of the moment it is called.  *)
Unauthorized(r) ==
  LET t == TabOf[r]
      k == store[t].tok
  IN /\ req[r] = "sent" /\ bearer[r] \in stale
     /\ IF retried[r]
          THEN Finished(r) /\ UNCHANGED <<waitsOn, refreshing, call>>
          ELSE /\ req' = [req EXCEPT ![r] = "waiting"]
               /\ bearer' = [bearer EXCEPT ![r] = 0]
               /\ retried' = [retried EXCEPT ![r] = TRUE]
               /\ waitsOn' = [waitsOn EXCEPT ![r] = RefreshFor(r)]
               /\ refreshing' = [refreshing EXCEPT ![t] = RefreshFor(r)]
               /\ call' = IF RefreshFor(r) # r THEN call
                          ELSE [call EXCEPT ![r] =
                                 [state |-> IF k = 0 THEN "refused" ELSE "sent",
                                  tok |-> k, new |-> 0]]
     /\ UNCHANGED <<server, tab, page, leaving, history>>

Issue(f, a) ==
  /\ count < MaxTokens
  /\ count' = count + 1
  /\ family' = [family EXCEPT ![count + 1] = f]
  /\ owner' = [owner EXCEPT ![count + 1] = a]

(* The server rotates a live token, and ends the family of any other.      *)
ServerRefresh(r) ==
  LET k == call[r].tok
  IN /\ call[r].state = "sent"
     /\ \/ /\ k \in live
           /\ Issue(family[k], owner[k])
           /\ live' = (live \ {k}) \cup {count + 1}
           /\ call' = [call EXCEPT ![r].state = "rotated", ![r].new = count + 1]
           /\ rotator' = [rotator EXCEPT ![k] = TabOf[r]]
        \/ /\ k \notin live
           /\ live' = live \ Members(family[k])
           /\ call' = [call EXCEPT ![r].state = "refused"]
           /\ UNCHANGED <<count, family, owner, rotator>>
     /\ UNCHANGED <<stale, tab, page, leaving, req, bearer, retried, waitsOn,
                    refreshing, late, raced, forgotten, flipped, delivered>>

(* A slip: only the request that started the refresh goes on.              *)
WaiterAlone(r) == {w \in Requests : waitsOn[w] = r /\ w = r}

(* The requests that go on when a refresh is settled.                      *)
Waiters(r) == {w \in Requests : waitsOn[w] = r}

(* setTokens, and every request that awaited the refresh is sent again.    *)
Renewed(r) ==
  LET t == TabOf[r]
      k == call[r].new
  IN /\ call[r].state = "rotated"
     /\ SetStore(t, [store[t] EXCEPT !.tok = k], toSession[t])
     /\ req' = [w \in Requests |-> IF w \in Waiters(r) THEN "sent" ELSE req[w]]
     /\ bearer' = [w \in Requests |-> IF w \in Waiters(r) THEN k ELSE bearer[w]]
     /\ waitsOn' = [w \in Requests |-> IF w \in Waiters(r) THEN 0 ELSE waitsOn[w]]
     /\ refreshing' = [refreshing EXCEPT ![t] = 0]
     /\ call' = [call EXCEPT ![r] = NoCall]
     /\ delivered' = delivered \cup {k}
     /\ raced' = IF r \in late THEN raced \cup {family[k]} ELSE raced
     /\ late' = late \ {r}
     /\ UNCHANGED <<server, toSession, page, leaving, retried, forgotten, flipped, rotator>>

(* No token: refused, an answer that is lost, or nothing to present. The   *)
(* store is emptied and the login page is loaded anew.                     *)
ThrownOut(r) ==
  LET t == TabOf[r]
  IN /\ call[r].state # "none"
     /\ SetStore(t, Empty, toSession[t])
     /\ page' = [page EXCEPT ![t] = "login"]
     /\ ClientReset(t)
     /\ UNCHANGED <<server, toSession, raced, forgotten, flipped, rotator, delivered>>

-----------------------------------------------------------------------------
(* Login and logout                                                        *)

(* applyTokens: the storage is chosen first, then tokens and user are set. *)
ApplyTokens(t, a, remember) ==
  LET k == count + 1
  IN /\ page[t] = "login"
     /\ Issue(k, a)
     /\ live' = live \cup {k}
     /\ toSession' = [toSession EXCEPT ![t] = ~remember]
     /\ SetStore(t, [tok |-> k, user |-> a], ~remember)
     /\ page' = [page EXCEPT ![t] = "admin"]
     /\ late' = late \cup ({refreshing[t]} \cap Requests)
     /\ forgotten' = IF remember THEN forgotten ELSE forgotten \cup {k}
     /\ delivered' = delivered \cup {k}
     /\ UNCHANGED <<stale, leaving, client, raced, flipped, rotator>>

(* handleLogout awaits the server, whose answer it ignores.                *)
Logout(t) ==
  /\ page[t] = "admin" /\ leaving[t] = NoLogout /\ store[t].tok # 0
  /\ leaving' = [leaving EXCEPT ![t] = [tok |-> store[t].tok, answered |-> FALSE]]
  /\ UNCHANGED <<server, tab, page, client, history>>

(* The service ends the family of a token that is live.                    *)
ServerLogout(t) ==
  LET k == leaving[t].tok
  IN /\ k # 0 /\ ~leaving[t].answered
     /\ live' = IF k \in live THEN live \ Members(family[k]) ELSE live
     /\ leaving' = [leaving EXCEPT ![t].answered = TRUE]
     /\ UNCHANGED <<count, family, owner, stale, tab, page, client, history>>

(* A slip: only the user is cleared.                                       *)
LeftTokens(t) == [store[t] EXCEPT !.user = Nobody]

(* What logout() leaves in the store.                                      *)
LeftBehind(t) == Empty

LogoutDone(t) ==
  /\ leaving[t] # NoLogout
  /\ SetStore(t, LeftBehind(t), toSession[t])
  /\ page' = [page EXCEPT ![t] = "login"]
  /\ leaving' = [leaving EXCEPT ![t] = NoLogout]
  /\ late' = late \cup ({refreshing[t]} \cap Requests)
  /\ UNCHANGED <<server, toSession, client, raced, forgotten, flipped, rotator, delivered>>

(* The guard lets in whoever has an access token.                          *)
OpenAdmin(t) ==
  /\ page[t] = "login" /\ store[t].tok # 0
  /\ page' = [page EXCEPT ![t] = "admin"]
  /\ UNCHANGED <<server, tab, leaving, client, history>>

-----------------------------------------------------------------------------
(* The server of its own                                                   *)

Expire(k) ==
  /\ k \in Issued \ stale /\ count < MaxTokens
  /\ stale' = stale \cup {k}
  /\ UNCHANGED <<count, family, owner, live, tab, page, leaving, client, history>>

(* An admin ends every session of an account.                              *)
CutAccount(a) ==
  LET theirs == {k \in Issued : owner[k] = a}
  IN /\ theirs \cap live # {}
     /\ live' = live \ theirs
     /\ stale' = stale \cup theirs
     /\ UNCHANGED <<count, family, owner, tab, page, leaving, client, history>>

Next ==
  \/ \E r \in Requests : \/ Send(r) \/ Answered(r) \/ Unauthorized(r)
                         \/ ServerRefresh(r) \/ Renewed(r) \/ ThrownOut(r)
  \/ \E t \in Tabs : \/ \E a \in Accounts, b \in BOOLEAN : ApplyTokens(t, a, b)
                     \/ Logout(t) \/ ServerLogout(t) \/ LogoutDone(t)
                     \/ OpenAdmin(t) \/ Reload(t)
  \/ \E k \in Tokens : Expire(k)
  \/ \E a \in Accounts : CutAccount(a)

Spec == Init /\ [][Next]_vars

(* The server and the network answer; the user need not do anything. At    *)
(* the bound of the model, where no token can be issued, the answer to a   *)
(* refresh is lost.                                                        *)
FairSpec ==
  /\ Spec
  /\ \A r \in Requests :
       WF_vars(\/ Answered(r) \/ Unauthorized(r) \/ ServerRefresh(r) \/ Renewed(r)
               \/ ThrownOut(r) /\ (call[r].state = "refused" \/ count = MaxTokens))

-----------------------------------------------------------------------------
(* Properties                                                              *)

(* A tab never presents a token that it has itself exchanged for another   *)
(* one it received: requests that expire together share one refresh, and   *)
(* no reload or login brings an old token back. (The server would take it  *)
(* for a theft and end the session.)                                       *)
NoSelfInflictedReuse ==
  \A r \in Requests :
    call[r].state = "refused" /\ call[r].tok # 0
      => \/ rotator[call[r].tok] # TabOf[r]
         \/ \A k \in delivered : family[k] = family[call[r].tok] => k <= call[r].tok

(* The tokens in a tab's memory belong to the user it shows, and a tab     *)
(* whose user has logged out has none: but once the answer to a refresh of *)
(* before a logout or a login has been stored after it, the tokens it      *)
(* brought are in the place of the user's, or of nobody's.                 *)
IdentityKept ==
  \A t \in Tabs : IF store[t].tok = 0 THEN store[t].user = Nobody
                    ELSE \/ owner[store[t].tok] = store[t].user
                         \/ family[store[t].tok] \in raced

(* Tokens of a login without "remember me" do not get into localStorage,   *)
(* unless a tab was reloaded while both storages held an item, or such a   *)
(* late answer brought them.                                               *)
RememberKept ==
  \A s \in local :
    s.tok # 0 /\ family[s.tok] \in forgotten => flipped # {} \/ family[s.tok] \in raced

(* Tokens stay with the login they were issued for, in memory and in the   *)
(* storages, through the reloads, logins and logouts of several users in   *)
(* several tabs. Nothing keeps the answer to a refresh that outlived its   *)
(* login from being stored; a refresh under way does no harm until then.   *)
TokensStayHome == IdentityKept /\ RememberKept

(* Every request of a page is answered to the page, or the page is left.   *)
RequestsEnd == \A r \in Requests : req[r] # "idle" ~> req[r] = "idle"

=============================================================================
