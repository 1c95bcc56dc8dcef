---------------------------- MODULE MCAlertExport ----------------------------
(***************************************************************************)
(* A small instance of the side table: three interchangeable keys against  *)
(* two entries and two rows.                                               *)
(***************************************************************************)
EXTENDS AlertExport, TLC

CONSTANTS k1, k2, k3

ThreeKeys == {k1, k2, k3}
AnyOrder  == Permutations(ThreeKeys)
=============================================================================
