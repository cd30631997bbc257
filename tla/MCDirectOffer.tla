--------------------------- MODULE MCDirectOffer ----------------------------
(***************************************************************************)
(* DirectOffer on small instances.                                         *)
(***************************************************************************)
EXTENDS DirectOffer
=============================================================================
