----------------------------- MODULE MCDispatch -----------------------------
(***************************************************************************)
(* Instances of Dispatch for TLC.                                            *)
(***************************************************************************)
EXTENDS Dispatch, TLC

CONSTANTS j1, j2, d1, d2

Symmetry == Permutations(Dispatchers)
=============================================================================
