----------------------------- MODULE MCRowLocks -----------------------------
(***************************************************************************)
(* Instance of RowLocks for TLC: three commands of two members.  Two are   *)
(* of one member with one key: a request and its repetition, or two that   *)
(* should not have shared a key.                                           *)
(***************************************************************************)
EXTENDS RowLocks

People == <<"owner", "admin">>

GivenBy == [c1 |-> "owner", c2 |-> "admin", c3 |-> "admin"]
SentWith == [c1 |-> "k1", c2 |-> "k2", c3 |-> "k2"]
About == [c1 |-> "admin", c2 |-> "owner", c3 |-> "admin"]
=============================================================================
