------------------------------- MODULE MCCards -------------------------------
(***************************************************************************)
(* Where cards come from and what becomes of them: the imports, and the    *)
(* registry with its templates and its export. An import meets the         *)
(* registry as one more creation of a card, which CardRegistry has: a      *)
(* behaviour exercises one of the two while the other rests.               *)
(***************************************************************************)
EXTENDS MCImportJobs, CardRegistry

CONSTANTS r1, r2, x, y, gold, plain, ann

TwoSlots == {r1, r2}

Card(k, t, who, b) == [state |-> "live", cat |-> k, tpl |-> t, owner |-> who, born |-> b]

(* A third card may be created in the moment of the first.                 *)
SomeCards ==
  {<<Card(x, gold, Nobody, 1), Card(y, NoTemplate, ann, 0),
     [state |-> "free", cat |-> x, tpl |-> NoTemplate, owner |-> Nobody, born |-> 0]>>}

SomeGrants  == [a \in Admins |-> {x}]
SomeLayouts == (gold :> y) @@ (plain :> x)

(* Another category; another with a template; to oneself; to nobody, and   *)
(* without a template.                                                     *)
Body(k, t, who) == [cat |-> k, tpl |-> t, owner |-> who]
SomePatches ==
  {Body(y, Unset, Unset), Body(x, gold, Unset), Body(Unset, Unset, ann),
   Body(Unset, NoTemplate, Nobody)}

RegistryRests == askCount = 0 /\ regrantCount = 0 /\ sheet.at = "none"
(* An export meets two other requests at most.                             *)
FewerRequests == sheet.at # "none" => askCount + regrantCount <= 2

(* Which slot a request takes makes no difference.                         *)
InTurn == askCount' # askCount => (askCount = 0 <=> ask'[r1] # ask[r1])

ImportSteps   == RegistryRests /\ Next /\ UNCHANGED regVars
RegistrySteps ==
  Init /\ RegistryNext /\ InTurn /\ FewerRequests' /\ UNCHANGED vars

CardsInit == Init /\ RegistryInit
CardsNext == ImportSteps \/ RegistrySteps
CardsSpec == CardsInit /\ [][CardsNext]_<<vars, regVars>> /\ Fairness

=============================================================================
