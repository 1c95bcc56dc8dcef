---------------------------- MODULE MCAlertEngine ----------------------------
(***************************************************************************)
(* Small instances of the alert engine: two keys of two types for the      *)
(* lifecycle of an incident, and a prolific type against a quiet one for   *)
(* eviction.                                                               *)
(***************************************************************************)
EXTENDS AlertEngine, TLC

CONSTANTS k1, k2, k3, k4

TwoKeys    == {k1, k2}
FourKeys   == {k1, k2, k3, k4}
ByPairs    == [k \in TwoKeys |-> IF k = k1 THEN "roam" ELSE "deauth"]
Prolific   == [k \in FourKeys |-> IF k = k4 THEN "deauth" ELSE "roam"]
\* the keys of the prolific type are interchangeable
Rivals     == Permutations({k1, k2, k3})
TypeNames  == {"roam", "deauth"}
=============================================================================
