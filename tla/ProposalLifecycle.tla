-------------------------- MODULE ProposalLifecycle -------------------------
(***************************************************************************)
(* The canonical lifecycle of a proposal (packages/domain/src/proposal.ts) *)
(* as the two parties know it: the stage it is in, and the contents the    *)
(* organization may read.  The organization reads a content from when the  *)
(* owner hands it in until its grant lapses, and moves the proposal on     *)
(* only in between; versions, tokens, clocks and evidence rows are         *)
(* nobody's business here.                                                 *)
(***************************************************************************)
CONSTANT Contents

VARIABLES
  stage,  \* the state of the proposal, "none" before it exists
  seen    \* the contents the organization may read

vars == <<stage, seen>>

OwnerMoves == {
  <<"clarification_requested", "clarification_submitted">>,
  <<"revision_requested", "revision_draft">> }

OrganizationMoves == {
  <<"submitted", "eligibility_review">>,
  <<"eligibility_review", "eligible">>,
  <<"eligibility_review", "ineligible">>,
  <<"eligible", "clarification_requested">>,
  <<"clarification_submitted", "reviewing">>,
  <<"reviewing", "revision_requested">>,
  <<"resubmitted", "reviewing">>,
  <<"reviewing", "selected">>,
  <<"reviewing", "rejected">> }

HandingIn == {<<"draft", "submitted">>, <<"revision_draft", "resubmitted">>}

Init == stage = "none" /\ seen = {}

Open == stage = "none" /\ stage' = "draft" /\ UNCHANGED seen

Answer == <<stage, stage'>> \in OwnerMoves /\ UNCHANGED seen

Review ==
  /\ <<stage, stage'>> \in OrganizationMoves
  /\ seen # {}
  /\ UNCHANGED seen

HandIn ==
  /\ <<stage, stage'>> \in HandingIn
  /\ \E content \in Contents : seen' = {content}

Lapse == seen # {} /\ seen' = {} /\ UNCHANGED stage

Next == Open \/ Answer \/ Review \/ HandIn \/ Lapse

Spec == Init /\ [][Next]_vars
=============================================================================
