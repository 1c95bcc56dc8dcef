---------------------------- MODULE MCDataSocket ----------------------------
(***************************************************************************)
(* The data socket for TLC: peers are alike, and so are connections.       *)
(***************************************************************************)
EXTENDS DataSocket, TLC

Alike == Permutations(Peers) \cup Permutations(Conns)
=============================================================================
