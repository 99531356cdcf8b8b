--------------------------- MODULE MCScanPipeline ---------------------------
(* Instances of the scan pipeline: interchangeable page views.             *)
EXTENDS ScanProperties, TLC

CONSTANTS s1, s2, s3

TwoScans == {s1, s2}
ThreeScans == {s1, s2, s3}

(* Page views are interchangeable: no action or invariant tells them apart.*)
Interchangeable == Permutations(Scans)

=============================================================================
