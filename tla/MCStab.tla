------------------------------- MODULE MCStab -------------------------------
(***************************************************************************)
(* The bounded table for TLC: keys are only compared, so they are          *)
(* interchangeable.                                                        *)
(***************************************************************************)
EXTENDS Stab, TLC

KeysAlike == Permutations(Keys)
=============================================================================
