---------------------------- MODULE MCImportJobs ----------------------------
(***************************************************************************)
(* TLC instances of ImportJobs: the cfg files choose the jobs, the bounds  *)
(* and the faults.                                                         *)
(***************************************************************************)
EXTENDS ImportProperties, TLC

CONSTANTS j1, j2

OneJob == {j1}
TwoJobs == {j1, j2}
JobSymmetry == Permutations(TwoJobs)

AllFaults == FaultKinds
(* The worker and the storage behave, the publication may fail.            *)
PublishFaults == {"publish"}

=============================================================================
