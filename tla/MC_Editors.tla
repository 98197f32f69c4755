----------------------------- MODULE MC_Editors -----------------------------
(* Small instances of Editors. *)
EXTENDS Editors, TLC

CONSTANTS e1, e2

EditorSymmetry == Permutations(Editors)
=============================================================================
