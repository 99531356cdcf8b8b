----------------------------- MODULE MCPanelSession -----------------------------
(***************************************************************************)
(* Two scenes in two tabs. "Tabs": one user, two requests at a time in one *)
(* tab and one in the other, and one rotation. "Logins": two users follow  *)
(* each other in the first tab, with a third token, so that a refresh may  *)
(* outlive the logout, the next login and its own rotation; the other tab  *)
(* is at the login page and only reads the shared storage when loaded.     *)
(***************************************************************************)
EXTENDS PanelSession

CONSTANTS t1, t2, r1, r2, r3, ann, bob

VARIABLE scene

MCTabOf == [r \in Requests |-> IF r = r3 THEN t2 ELSE t1]

\* Tokens a scene may issue.
Bound == IF scene = "tabs" THEN 2 ELSE MaxTokens

\* No token expires that the bound would keep from being renewed.
OneUser ==
  /\ scene = "tabs" /\ count' <= Bound
  /\ count = Bound => stale' = stale \/ live' # live
  /\ \A k \in Tokens : owner'[k] # bob

\* Sessions end by a logout there, not by an admin of the server.
TwoUsers ==
  /\ scene = "logins"
  /\ \A r \in Requests \ {r1} : req'[r] = "idle"
  /\ page'[t2] = "login" /\ leaving'[t2] = NoLogout
  /\ stale' = stale \/ live' = live

SceneInit == Init /\ scene \in {"tabs", "logins"}
SceneNext == Next /\ (OneUser \/ TwoUsers) /\ UNCHANGED scene

\* FairSpec, with the bound of the scene.
ScenesSpec ==
  /\ SceneInit /\ [][SceneNext]_<<scene, vars>>
  /\ \A r \in Requests :
       WF_vars(\/ Answered(r) \/ Unauthorized(r) \/ Renewed(r)
               \/ ServerRefresh(r) /\ count' <= Bound
               \/ ThrownOut(r) /\ (call[r].state = "refused" \/ count = Bound))

=============================================================================
