------------------------------- MODULE MCAccess -------------------------------
(***************************************************************************)
(* AccessControl for TLC.  No property tells two token requests apart.     *)
(***************************************************************************)
EXTENDS AccessControl, TLC

EditorSymmetry == Permutations(Editors)
=============================================================================
