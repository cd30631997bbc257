---------------------------- MODULE TokenFamily -----------------------------
(***************************************************************************)
(* What a session promises (project-documents/40_BACKEND_ARCHITECTURE.md,  *)
(* section 4): a proof of identity opens one family of tokens, once; of a  *)
(* family one token is accepted at a time; it is replaced by a later one   *)
(* until the family ends, and a family that has ended accepts none.        *)
(* Nothing here knows of cookies, requests or replays.  Session implements *)
(* it.                                                                     *)
(***************************************************************************)
EXTENDS Naturals

CONSTANTS Proofs   \* what a session can be opened with

VARIABLE family    \* per proof: its stage, and the number of the accepted token

Unopened == family = [p \in Proofs |-> [stage |-> "unopened", token |-> 0]]

Open(p) ==
  /\ family[p].stage = "unopened"
  /\ family' = [family EXCEPT ![p] = [stage |-> "open", token |-> 1]]

Rotate(p) ==
  /\ family[p].stage = "open"
  /\ family'[p].token > family[p].token
  /\ family' = [family EXCEPT ![p].token = family'[p].token]

End(p) ==
  /\ family[p].stage = "open"
  /\ family' = [family EXCEPT ![p].stage = "ended"]

FamilySpec == Unopened /\ [][\E p \in Proofs : Open(p) \/ Rotate(p) \/ End(p)]_family
=============================================================================
