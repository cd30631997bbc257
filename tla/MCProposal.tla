----------------------------- MODULE MCProposal -----------------------------
(***************************************************************************)
(* Proposal on small instances.                                            *)
(***************************************************************************)
EXTENDS Proposal
=============================================================================
