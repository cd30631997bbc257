--------------------------- MODULE MCPrivateFile ----------------------------
(***************************************************************************)
(* PrivateFile on small instances.                                         *)
(***************************************************************************)
EXTENDS PrivateFile
=============================================================================
