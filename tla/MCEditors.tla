------------------------------- MODULE MCEditors -------------------------------
(***************************************************************************)
(* The two editors on small instances: two tabs, which are interchangeable. *)
(***************************************************************************)
EXTENDS Editors, TLC

CONSTANTS one, two

BothTabs == {one, two}
TabSymmetry == Permutations(BothTabs)
=============================================================================
