------------------------------ MODULE MCAdmins ------------------------------
(***************************************************************************)
(* The accounts of the panel: the requests of super admins at the server,  *)
(* and the page that shows the accounts and sends such requests. Neither   *)
(* needs the other to go wrong: a behaviour exercises one of them while    *)
(* the other rests.                                                        *)
(***************************************************************************)
EXTENDS MCAdminGuard, AdminsPanel

\* One choice of requests is enough for the page.
Resting ==
  /\ Init /\ actor = [r \in Requests |-> eve] /\ target = actor
  /\ change = [r \in Requests |-> Deletion]

ServerSteps == AdminsPanelInit /\ Next /\ UNCHANGED admVars
PageSteps   == Resting /\ AdminsPanelNext /\ UNCHANGED vars

AdminsInit == Init /\ AdminsPanelInit
AdminsNext == ServerSteps \/ PageSteps
AdminsSpec == AdminsInit /\ [][AdminsNext]_<<vars, admVars>>

=============================================================================
