------------------------------- MODULE MCTeam -------------------------------
(***************************************************************************)
(* Instance of Team for TLC: three people, one of whom cannot be invited;  *)
(* the other two are alike.                                                *)
(***************************************************************************)
EXTENDS Team, TLC

CONSTANTS ann, bob, cem

People == {ann, bob, cem}
Invitable == {ann, bob}
Alike == Permutations(Invitable)
=============================================================================
