----------------------------- MODULE MCSession ------------------------------
(***************************************************************************)
(* Session on small instances.                                             *)
(***************************************************************************)
EXTENDS Session, TLC

CONSTANTS left, right

BothTabs == {left, right}
TabSymmetry == Permutations(BothTabs)
=============================================================================
