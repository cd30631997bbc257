--------------------------- MODULE ProposalProofs ---------------------------
(***************************************************************************)
(* The safety of a proposal on the server, for any contents, clocks and    *)
(* bounds, and, in the second part, that of the two editors in the browser *)
(* (Editors), for any tabs and bounds.                                     *)
(***************************************************************************)
EXTENDS Proposal, Editors, SequenceTheorems, TLAPS

-----------------------------------------------------------------------------
(***************************************************************************)
(* Rows are inserted at the end and updated in place.                      *)
(***************************************************************************)

LEMMA AppendRow ==
  ASSUME NEW S, NEW s \in Seq(S), NEW e \in S
  PROVE  /\ Append(s, e) \in Seq(S)
         /\ Len(Append(s, e)) = Len(s) + 1
         /\ DOMAIN Append(s, e) = 1..(Len(s) + 1)
         /\ DOMAIN s = 1..Len(s)
         /\ Append(s, e)[Len(s) + 1] = e
         /\ \A i \in 1..Len(s) : Append(s, e)[i] = s[i]
  OBVIOUS

LEMMA UpdateRow ==
  ASSUME NEW S, NEW s \in Seq(S), NEW i \in DOMAIN s, NEW e \in S
  PROVE  /\ [s EXCEPT ![i] = e] \in Seq(S)
         /\ Len([s EXCEPT ![i] = e]) = Len(s)
         /\ DOMAIN [s EXCEPT ![i] = e] = DOMAIN s
         /\ [s EXCEPT ![i] = e][i] = e
         /\ \A j \in DOMAIN s \ {i} : [s EXCEPT ![i] = e][j] = s[j]
  BY ExceptSeq

\* What resubmit does to the one grant there is: it is updated, and another one follows.
LEMMA ReplaceRow ==
  ASSUME NEW S, NEW s \in Seq(S), Len(s) = 1, NEW d \in S, NEW e \in S
  PROVE  LET t == Append([s EXCEPT ![1] = d], e)
         IN  Len(t) = 2 /\ DOMAIN t = {1, 2} /\ t[1] = d /\ t[2] = e
<1> DEFINE u == [s EXCEPT ![1] = d]
<1>1. 1 \in DOMAIN s
  BY LenProperties
<1>2. u \in Seq(S) /\ Len(u) = 1 /\ u[1] = d
  BY <1>1, UpdateRow
<1> HIDE DEF u
<1>3. ASSUME NEW w \in Seq(S), Len(w) = 1
      PROVE  /\ Len(Append(w, e)) = 2 /\ DOMAIN Append(w, e) = 1..2
             /\ Append(w, e)[2] = e /\ Append(w, e)[1] = w[1]
  BY <1>3, AppendRow
<1>4. QED
  BY <1>2, <1>3 DEF u

LEMMA InsertVersionRow ==
  ASSUME TypeOK, NEW number \in Nat, NEW what \in Contents,
         NEW lock \in {"unlocked", "submission", "resubmission"}, NEW at \in Times,
         InsertVersion(number, what, lock, at)
  PROVE  /\ versions' \in Seq(Version)
         /\ Len(versions') = Len(versions) + 1
         /\ DOMAIN versions' = 1..(Len(versions) + 1)
         /\ DOMAIN versions = 1..Len(versions)
         /\ current' = Len(versions) + 1 /\ current' \in DOMAIN versions'
         /\ versions'[Len(versions) + 1] =
              [number |-> number, base |-> current, content |-> what, lock |-> lock, at |-> at]
         /\ \A i \in 1..Len(versions) : versions'[i] = versions[i]
<1> DEFINE row == [number |-> number, base |-> current, content |-> what, lock |-> lock, at |-> at]
<1>1. row \in Version
  BY DEF TypeOK, Version
<1>2. versions \in Seq(Version) /\ versions' = Append(versions, row)
  BY DEF TypeOK, InsertVersion
<1>3. current' = Len(versions) + 1 /\ Len(versions) \in Nat
  BY <1>2, LenProperties DEF InsertVersion
<1> HIDE DEF row
<1>4. QED
  BY <1>1, <1>2, <1>3, AppendRow DEF row

LEMMA AcceptRow ==
  ASSUME TypeOK, NEW action \in Actions, NEW expected \in Nat, Accept(action, expected)
  PROVE  /\ lockVersion' = lockVersion + 1
         /\ lockVersion' \in Nat
         /\ evidence' \in Seq([action : Actions, basis : Nat])
         /\ Len(evidence') = Len(evidence) + 1
         /\ DOMAIN evidence' = 1..(Len(evidence) + 1)
         /\ DOMAIN evidence = 1..Len(evidence)
         /\ evidence'[Len(evidence) + 1] = [action |-> action, basis |-> expected]
         /\ \A i \in 1..Len(evidence) : evidence'[i] = evidence[i]
<1> DEFINE row == [action |-> action, basis |-> expected]
<1> DEFINE Row == [action : Actions, basis : Nat]
<1>1. row \in Row
  OBVIOUS
<1>2. evidence \in Seq(Row) /\ evidence' = Append(evidence, row) /\ lockVersion' = lockVersion + 1
  BY DEF TypeOK, Accept
<1>3. lockVersion' \in Nat
  BY <1>2 DEF TypeOK
<1> HIDE DEF row, Row
<1>4. QED
  BY <1>1, <1>2, <1>3, AppendRow DEF row, Row

LEMMA UpdateClarification ==
  ASSUME TypeOK, NEW i \in DOMAIN clarifications, NEW at \in Times,
         NEW status \in {"requested", "submitted", "resolved"}
  PROVE  [clarifications EXCEPT ![i] = [@ EXCEPT !.state = status, !.at = at]]
           \in Seq(Clarification)
<1>1. clarifications[i] \in Clarification
  BY ElementOfSeq DEF TypeOK
<1>2. [clarifications[i] EXCEPT !.state = status, !.at = at] \in Clarification
  BY <1>1 DEF Clarification
<1>3. QED
  BY <1>2, UpdateRow DEF TypeOK

LEMMA NewGrantType ==
  ASSUME TypeOK, NEW begin \in TransactionClock
  PROVE  NewGrant(begin) \in Grant
  BY ProposalAssumption, LenProperties DEF TypeOK, TransactionClock, Times, NewGrant, Grant

-----------------------------------------------------------------------------
(***************************************************************************)
(* Types.                                                                  *)
(***************************************************************************)

LEMMA TypeInit == Init => TypeOK
  BY ProposalAssumption DEF Init, TypeOK, Times, Deadlines, States

\* What the organization's commands leave well typed, whatever question or request they add.
LEMMA OrganizationType ==
  ASSUME TypeOK, NEW from \in States \ {"none"}, NEW to \in States \ {"none"},
         NEW action \in Actions, NEW at, OrganizationTransition(from, to, action, at),
         clarifications' \in Seq(Clarification), revisions' \in Seq(Revision)
  PROVE  TypeOK'
<1>1. PICK expected \in Expected : Accept(action, expected)
  BY DEF OrganizationTransition
<1>2. expected \in Nat
  BY DEF Expected, TypeOK
<1>3. lockVersion' \in Nat /\ evidence' \in Seq([action : Actions, basis : Nat])
  BY <1>1, <1>2, AcceptRow
<1>4. state' \in States /\ state' # "none" /\ state # "none"
  BY DEF OrganizationTransition
<1>5. /\ now' = now /\ call' = call /\ standing' = standing /\ createdAt' = createdAt
      /\ current' = current /\ versions' = versions /\ grants' = grants
  BY DEF OrganizationTransition, environment, content
<1>6. current \in DOMAIN versions
  BY <1>4 DEF TypeOK
<1>7. QED
  BY <1>3, <1>4, <1>5, <1>6 DEF TypeOK

LEMMA CurrentIsNat == TypeOK => current \in Nat
<1> SUFFICES ASSUME TypeOK PROVE current \in Nat
  OBVIOUS
<1>1. versions \in Seq(Version) /\ (current = 0 \/ current \in DOMAIN versions)
  BY DEF TypeOK
<1>2. DOMAIN versions \subseteq Nat
  BY <1>1, ElementOfSeq, LenProperties
<1>3. QED
  BY <1>1, <1>2

LEMMA CurrentContent ==
  TypeOK /\ state # "none" => versions[current] \in Version /\ versions[current].content \in Contents
<1> SUFFICES ASSUME TypeOK, state # "none" PROVE versions[current] \in Version
  BY DEF Version
<1>1. versions \in Seq(Version) /\ current \in DOMAIN versions
  BY DEF TypeOK
<1>2. QED
  BY <1>1, ElementOfSeq

LEMMA TypeStep == TypeOK /\ [Next]_vars => TypeOK'
<1> SUFFICES ASSUME TypeOK, [Next]_vars PROVE TypeOK'
  OBVIOUS
<1> USE ProposalAssumption
<1>0. /\ \A expected \in Expected : expected \in Nat
      /\ \A at \in ApiClock \cup TransactionClock : at \in Times /\ at \in Nat
      /\ Times \subseteq Nat /\ Deadlines \subseteq Nat
      /\ lockVersion + 1 \in Nat /\ NextNumber \in Nat
  BY DEF Expected, ApiClock, TransactionClock, Times, Deadlines, TypeOK, NextNumber
<1>1. CASE Tick
  BY <1>1 DEF Tick, TypeOK, aggregate, content
<1>2. CASE ChangeStanding
  BY <1>2 DEF ChangeStanding, TypeOK, aggregate, content
<1>3. CASE ExtendDeadline
  BY <1>3 DEF ExtendDeadline, TypeOK, aggregate, content
<1>4. CASE ChangePublicationState
  BY <1>4 DEF ChangePublicationState, TypeOK, aggregate, content
<1>5. CASE Create
  <2>1. PICK at \in ApiClock, what \in Contents :
          createdAt' = at /\ InsertVersion(1, what, "unlocked", at)
    BY <1>5 DEF Create
  <2>2. versions' \in Seq(Version) /\ current' \in DOMAIN versions'
    BY <1>0, <2>1, InsertVersionRow DEF TypeOK
  <2>3. lockVersion' \in Nat /\ evidence' \in Seq([action : Actions, basis : Nat])
    BY <1>5, AcceptRow DEF Create, Actions
  <2>4. createdAt' \in Times /\ state' \in States
    BY <1>0, <1>5, <2>1 DEF Create, States
  <2>5. QED
    BY <1>5, <2>2, <2>3, <2>4 DEF Create, TypeOK, environment
<1>6. CASE Patch
  <2>1. PICK expected \in Expected, at \in ApiClock, what \in Contents :
          InsertVersion(NextNumber, what, "unlocked", at) /\ Accept("updated", expected)
    BY <1>6 DEF Patch
  <2>2. versions' \in Seq(Version) /\ current' \in DOMAIN versions'
    BY <1>0, <2>1, InsertVersionRow DEF TypeOK
  <2>3. lockVersion' \in Nat /\ evidence' \in Seq([action : Actions, basis : Nat])
    BY <1>0, <2>1, AcceptRow DEF Actions
  <2>4. QED
    BY <1>6, <2>2, <2>3 DEF Patch, TypeOK, environment, Editable
<1>7. CASE Submit
  <2>1. PICK expected \in Expected, begin \in TransactionClock :
          /\ InsertVersion(lockVersion + 1, versions[current].content, "submission", begin)
          /\ grants' = Append(grants, NewGrant(begin))
          /\ Accept("submitted", expected)
    BY <1>7 DEF Submit
  <2>2. versions[current].content \in Contents
    BY <1>7, CurrentContent DEF Submit
  <2>3. versions' \in Seq(Version) /\ current' \in DOMAIN versions'
    BY <1>0, <2>1, <2>2, InsertVersionRow DEF TypeOK
  <2>4. grants' \in Seq(Grant)
    BY <1>0, <2>1, NewGrantType, AppendRow DEF TypeOK
  <2>5. lockVersion' \in Nat /\ evidence' \in Seq([action : Actions, basis : Nat])
    BY <1>0, <2>1, AcceptRow DEF Actions
  <2>6. QED
    BY <1>7, <2>3, <2>4, <2>5 DEF Submit, TypeOK, environment, States
<1>8. CASE SubmitClarification
  <2>1. PICK expected \in Expected, at \in ApiClock, i \in DOMAIN clarifications :
          /\ clarifications' =
               [clarifications EXCEPT ![i] = [@ EXCEPT !.state = "submitted", !.at = at]]
          /\ Accept("clarification.submitted", expected)
    BY <1>8 DEF SubmitClarification
  <2>2. clarifications' \in Seq(Clarification)
    BY <1>0, <2>1, UpdateClarification
  <2>3. lockVersion' \in Nat /\ evidence' \in Seq([action : Actions, basis : Nat])
    BY <1>0, <2>1, AcceptRow DEF Actions
  <2>4. QED
    BY <1>8, <2>2, <2>3 DEF SubmitClarification, TypeOK, environment, content, States
<1>9. CASE StartRevision
  <2>1. PICK expected \in Expected, at \in ApiClock, i \in DOMAIN revisions :
          /\ revisions' = [revisions EXCEPT ![i] = [@ EXCEPT !.state = "in_progress", !.at = at]]
          /\ InsertVersion(NextNumber, versions[current].content, "unlocked", at)
          /\ Accept("revision.draft.created", expected)
    BY <1>9 DEF StartRevision
  <2>2. revisions' \in Seq(Revision)
    <3>1. revisions[i] \in Revision
      BY ElementOfSeq DEF TypeOK
    <3>2. [revisions[i] EXCEPT !.state = "in_progress", !.at = at] \in Revision
      BY <1>0, <3>1 DEF Revision
    <3>3. QED
      BY <2>1, <3>2, UpdateRow DEF TypeOK
  <2>3. versions[current].content \in Contents
    BY <1>9, CurrentContent DEF StartRevision
  <2>4. versions' \in Seq(Version) /\ current' \in DOMAIN versions'
    BY <1>0, <2>1, <2>3, InsertVersionRow DEF TypeOK
  <2>5. lockVersion' \in Nat /\ evidence' \in Seq([action : Actions, basis : Nat])
    BY <1>0, <2>1, AcceptRow DEF Actions
  <2>6. QED
    BY <1>9, <2>2, <2>4, <2>5 DEF StartRevision, TypeOK, environment, States
<1>10. CASE Resubmit
  <2>1. PICK expected \in Expected, begin \in TransactionClock, i \in DOMAIN revisions :
          /\ InsertVersion(NextNumber, versions[current].content, "resubmission", begin)
          /\ revisions' = [revisions EXCEPT ![i] =
               [@ EXCEPT !.state = "resubmitted", !.at = begin, !.result = Len(versions) + 1]]
          /\ Supersede(begin)
          /\ Accept("resubmitted", expected)
    BY <1>10 DEF Resubmit
  <2>2. Len(versions) + 1 \in Nat
    BY LenProperties DEF TypeOK
  <2>3. revisions' \in Seq(Revision)
    <3>1. revisions[i] \in Revision
      BY ElementOfSeq DEF TypeOK
    <3>2. [revisions[i] EXCEPT !.state = "resubmitted", !.at = begin,
                               !.result = Len(versions) + 1] \in Revision
      BY <1>0, <2>2, <3>1 DEF Revision
    <3>3. QED
      BY <2>1, <3>2, UpdateRow DEF TypeOK
  <2>4. versions[current].content \in Contents
    BY <1>10, CurrentContent DEF Resubmit
  <2>5. versions' \in Seq(Version) /\ current' \in DOMAIN versions'
    BY <1>0, <2>1, <2>4, InsertVersionRow DEF TypeOK
  <2>6. grants' \in Seq(Grant)
    <3>1. PICK j \in DOMAIN grants :
            grants' = Append([grants EXCEPT ![j] = [@ EXCEPT !.state = "revoked"]],
                             NewGrant(begin))
      BY <2>1 DEF Supersede
    <3>2. [grants EXCEPT ![j] = [@ EXCEPT !.state = "revoked"]] \in Seq(Grant)
      <4>1. grants[j] \in Grant
        BY ElementOfSeq DEF TypeOK
      <4>2. [grants[j] EXCEPT !.state = "revoked"] \in Grant
        BY <4>1 DEF Grant
      <4>3. QED
        BY <4>2, UpdateRow DEF TypeOK
    <3>3. QED
      BY <3>1, <3>2, NewGrantType, AppendRow
  <2>7. lockVersion' \in Nat /\ evidence' \in Seq([action : Actions, basis : Nat])
    BY <1>0, <2>1, AcceptRow DEF Actions
  <2>8. QED
    BY <1>10, <2>3, <2>5, <2>6, <2>7 DEF Resubmit, TypeOK, environment, States
<1>11. CASE StartEligibilityReview
  <2>1. PICK at \in ApiClock :
          OrganizationTransition("submitted", "eligibility_review", "eligibility.started", at)
    BY <1>11 DEF StartEligibilityReview
  <2>2. QED
    BY <1>11, <2>1, OrganizationType DEF StartEligibilityReview, TypeOK, States, Actions
<1>12. CASE DecideEligibility
  <2>1. PICK at \in ApiClock, decision \in {"eligible", "ineligible"} :
          OrganizationTransition("eligibility_review", decision, decision, at)
    BY <1>12 DEF DecideEligibility
  <2>2. QED
    BY <1>12, <2>1, OrganizationType DEF DecideEligibility, TypeOK, States, Actions
<1>13. CASE RequestClarification
  <2>1. PICK at \in ApiClock :
          /\ OrganizationTransition("eligible", "clarification_requested",
                                    "clarification.requested", at)
          /\ clarifications' = Append(clarifications,
               [version |-> current, state |-> "requested", at |-> at])
    BY <1>13 DEF RequestClarification
  <2>2. current \in Nat
    BY <2>1, CurrentIsNat
  <2>3. clarifications' \in Seq(Clarification)
    BY <1>0, <2>1, <2>2, AppendRow DEF TypeOK, Clarification
  <2>4. QED
    BY <1>13, <2>1, <2>3, OrganizationType DEF RequestClarification, TypeOK, States, Actions
<1>14. CASE ResolveClarification
  <2>1. PICK at \in ApiClock, i \in DOMAIN clarifications :
          /\ OrganizationTransition("clarification_submitted", "reviewing", "review.started", at)
          /\ Resolve(i, at)
    BY <1>14 DEF ResolveClarification
  <2>2. clarifications' \in Seq(Clarification)
    BY <1>0, <2>1, UpdateClarification DEF Resolve
  <2>3. QED
    BY <1>14, <2>1, <2>2, OrganizationType DEF ResolveClarification, TypeOK, States, Actions
<1>15. CASE RequestRevision
  <2>1. PICK at \in ApiClock, deadline \in Deadlines :
          /\ OrganizationTransition("reviewing", "revision_requested", "revision.requested", at)
          /\ revisions' = Append(revisions, NewRevision(deadline, at))
    BY <1>15 DEF RequestRevision
  <2>2. current \in Nat
    BY <2>1, CurrentIsNat
  <2>3. revisions' \in Seq(Revision)
    BY <1>0, <2>1, <2>2, AppendRow DEF TypeOK, Revision, NewRevision
  <2>4. QED
    BY <1>15, <2>1, <2>3, OrganizationType DEF RequestRevision, TypeOK, States, Actions
<1>16. CASE UNCHANGED vars
  BY <1>16 DEF vars, environment, aggregate, content, TypeOK
<1>17. QED
  BY <1>1, <1>2, <1>3, <1>4, <1>5, <1>6, <1>7, <1>8, <1>9, <1>10, <1>11, <1>12, <1>13, <1>14,
     <1>15, <1>16 DEF Next, Owner, Organization, Environment

(***************************************************************************)
(* Every row the commands write is of its type: a version pointer that     *)
(* names a row, a lock that is one of three, no instant before the run.    *)
(***************************************************************************)
THEOREM TypeCorrect == Spec => []TypeOK
  BY TypeInit, TypeStep, PTL DEF Spec

-----------------------------------------------------------------------------
(***************************************************************************)
(* The invariant.  The properties are not inductive: that every version    *)
(* extends the last one rests on lock_version and versions agreeing while  *)
(* the proposal is a draft; that exactly one grant is live, on how many    *)
(* grants, questions and requests there are in each state.                 *)
(***************************************************************************)

Unsubmitted == {"none", "draft"}
Unquestioned == Unsubmitted \cup {"submitted", "eligibility_review", "eligible", "ineligible"}
Revised == {"revision_requested", "revision_draft", "resubmitted"}

\* Where the numbering of submit, lock_version + 1, is that of the versions.
DraftNumbers ==
  /\ state = "none" => lockVersion = 0 /\ Len(versions) = 0
  /\ state = "draft" => lockVersion = Len(versions)

RowCounts ==
  /\ Len(clarifications) = IF state \in Unquestioned THEN 0 ELSE 1
  /\ Len(revisions) = IF state \in Revised THEN 1 ELSE 0
  /\ Len(grants) = IF state \in Unsubmitted THEN 0 ELSE IF state = "resubmitted" THEN 2 ELSE 1

LastGrant == grants[Len(grants)]

\* The version the last grant is for is the last one handed in, and only drafts follow it.
GrantedVersion ==
  IF state \in Unsubmitted
  THEN \A v \in DOMAIN versions : versions[v].lock = "unlocked"
  ELSE /\ LastGrant.version \in DOMAIN versions
       /\ versions[LastGrant.version].lock # "unlocked"
       /\ \A v \in DOMAIN versions :
            v > LastGrant.version => versions[v].lock = "unlocked"
       /\ state # "revision_draft" => LastGrant.version = Len(versions)

\* Every grant but the last is revoked.
LiveGrant ==
  \A i \in DOMAIN grants : grants[i].state = "active" <=> i = Len(grants)

OpenRequestsCiteLast ==
  /\ \A c \in DOMAIN clarifications :
       clarifications[c].state # "resolved" => clarifications[c].version = LastGrant.version
  /\ \A r \in DOMAIN revisions :
       revisions[r].state # "resubmitted" => revisions[r].base = LastGrant.version

IInv ==
  /\ TypeOK
  /\ NoLostUpdate
  /\ HistoryIsChain
  /\ DraftNumbers
  /\ RowCounts
  /\ GrantedVersion
  /\ LiveGrant
  /\ EvidenceMatchesState
  /\ OpenRequestsCiteLast
  /\ HandedInOnTime

LEMMA InvInit == Init => IInv
<1> SUFFICES ASSUME Init PROVE IInv
  OBVIOUS
<1>1. /\ Len(versions) = 0 /\ Len(grants) = 0 /\ Len(clarifications) = 0
      /\ Len(revisions) = 0 /\ Len(evidence) = 0
      /\ DOMAIN versions = {} /\ DOMAIN grants = {} /\ DOMAIN clarifications = {}
      /\ DOMAIN revisions = {} /\ DOMAIN evidence = {}
  BY DEF Init
<1>2. state = "none" /\ current = 0 /\ lockVersion = 0
  BY DEF Init
<1>3. NoLostUpdate /\ HistoryIsChain /\ DraftNumbers
  BY <1>1, <1>2 DEF NoLostUpdate, HistoryIsChain, DraftNumbers
<1>4. RowCounts /\ GrantedVersion /\ LiveGrant
  BY <1>1, <1>2 DEF RowCounts, GrantedVersion, LiveGrant, Unsubmitted, Unquestioned, Revised
<1>5. EvidenceMatchesState /\ OpenRequestsCiteLast /\ HandedInOnTime
  BY <1>1 DEF EvidenceMatchesState, OpenRequestsCiteLast, HandedInOnTime
<1>6. QED
  BY <1>3, <1>4, <1>5, TypeInit DEF IInv

-----------------------------------------------------------------------------
(***************************************************************************)
(* Steps by what they leave alone.                                         *)
(***************************************************************************)

LEMMA EnvironmentStep ==
  ASSUME TypeOK, Environment \/ UNCHANGED vars
  PROVE  /\ UNCHANGED <<state, lockVersion, createdAt, evidence, current, versions, grants,
                        clarifications, revisions>>
         /\ call.deadline \in Nat /\ call'.deadline \in Nat
         /\ call'.deadline >= call.deadline
<1>1. /\ call \in [state : {"open", "paused", "closed", "cancelled"}, deadline : Deadlines]
      /\ Deadlines \subseteq Nat
  BY ProposalAssumption DEF TypeOK, Deadlines
<1>2. /\ UNCHANGED <<state, lockVersion, createdAt, evidence, current, versions, grants,
                     clarifications, revisions>>
  BY DEF Environment, Tick, ChangeStanding, ExtendDeadline, ChangePublicationState, vars,
         environment, aggregate, content
<1>3. CASE ExtendDeadline
  BY <1>1, <1>2, <1>3 DEF ExtendDeadline
<1>4. CASE ChangePublicationState
  BY <1>1, <1>2, <1>4 DEF ChangePublicationState
<1>5. call' = call => call.deadline \in Nat /\ call'.deadline \in Nat
                      /\ call'.deadline >= call.deadline
  <2>1. call.deadline \in Nat
    BY <1>1
  <2>2. QED
    BY <2>1
<1>6. CASE Tick
  BY <1>2, <1>5, <1>6 DEF Tick
<1>7. CASE ChangeStanding
  BY <1>2, <1>5, <1>7 DEF ChangeStanding
<1>8. CASE UNCHANGED vars
  BY <1>2, <1>5, <1>8 DEF vars, environment
<1>9. QED
  BY <1>3, <1>4, <1>6, <1>7, <1>8 DEF Environment

\* A command of the organization goes from one handed-in state to another and writes no version.
LEMMA OrganizationStep ==
  ASSUME Organization
  PROVE  /\ UNCHANGED <<now, call, createdAt, current, versions, grants>>
         /\ state \notin Unsubmitted \cup {"revision_draft"}
         /\ state' \notin Unsubmitted \cup {"revision_draft", "resubmitted"}
         /\ state # "resubmitted"
         /\ \E expected \in Expected, action \in Actions :
              Fresh(expected) /\ Accept(action, expected)
  BY DEF Organization, StartEligibilityReview, DecideEligibility, RequestClarification,
         ResolveClarification, RequestRevision, OrganizationTransition, environment, content,
         Unsubmitted, Actions

LEMMA OwnerStep ==
  ASSUME TypeOK, Owner
  PROVE  /\ UNCHANGED call
         /\ \/ \E expected \in Expected, action \in Actions :
                 Fresh(expected) /\ Accept(action, expected)
            \/ state = "none" /\ Accept("created", 0)
<1>1. UNCHANGED call
  BY DEF Owner, Create, Patch, Submit, SubmitClarification, StartRevision, Resubmit, environment
<1>2. CASE Create
  BY <1>1, <1>2 DEF Create
<1>3. CASE Patch \/ Submit \/ SubmitClarification \/ StartRevision \/ Resubmit
  BY <1>1, <1>3
     DEF Patch, Submit, SubmitClarification, StartRevision, Resubmit, Actions
<1>4. QED
  BY <1>2, <1>3 DEF Owner

-----------------------------------------------------------------------------
(***************************************************************************)
(* The token and the history.                                              *)
(***************************************************************************)

LEMMA TokenStep == IInv /\ [Next]_vars => NoLostUpdate'
<1> SUFFICES ASSUME IInv, [Next]_vars PROVE NoLostUpdate'
  OBVIOUS
<1>1. TypeOK /\ NoLostUpdate /\ DraftNumbers /\ lockVersion \in Nat
  BY DEF IInv, TypeOK
<1>2. CASE Environment \/ UNCHANGED vars
  BY <1>1, <1>2, EnvironmentStep DEF NoLostUpdate
<1>3. CASE Owner \/ Organization
  <2>1. PICK expected \in Nat, action \in Actions :
          expected = lockVersion /\ Accept(action, expected)
    BY <1>1, <1>3, OwnerStep, OrganizationStep DEF Fresh, Expected, DraftNumbers, Actions
  <2>2. /\ lockVersion' = lockVersion + 1
        /\ Len(evidence') = Len(evidence) + 1
        /\ DOMAIN evidence' = 1..(Len(evidence) + 1)
        /\ DOMAIN evidence = 1..Len(evidence)
        /\ evidence'[Len(evidence) + 1] = [action |-> action, basis |-> expected]
        /\ \A i \in 1..Len(evidence) : evidence'[i] = evidence[i]
    BY <1>1, <2>1, AcceptRow
  <2>3. Len(evidence) \in Nat /\ lockVersion = Len(evidence)
    BY <1>1 DEF NoLostUpdate
  <2>4. ASSUME NEW i \in DOMAIN evidence' PROVE evidence'[i].basis = i - 1
    <3>1. CASE i = Len(evidence) + 1
      BY <2>1, <2>2, <2>3, <3>1
    <3>2. CASE i \in DOMAIN evidence
      BY <1>1, <2>2, <3>2 DEF NoLostUpdate
    <3>3. QED
      BY <2>2, <2>3, <2>4, <3>1, <3>2
  <2>5. QED
    BY <2>2, <2>3, <2>4 DEF NoLostUpdate
<1>4. QED
  BY <1>2, <1>3 DEF Next

LEMMA ChainExtends ==
  ASSUME TypeOK, HistoryIsChain, NEW number \in Nat, number = Len(versions) + 1,
         NEW what \in Contents, NEW lock \in {"unlocked", "submission", "resubmission"},
         NEW at \in Times, InsertVersion(number, what, lock, at)
  PROVE  HistoryIsChain' /\ Len(versions') = Len(versions) + 1
<1>0. Len(versions) \in Nat
  BY LenProperties DEF TypeOK
<1>1. /\ Len(versions') = Len(versions) + 1
      /\ DOMAIN versions' = 1..(Len(versions) + 1) /\ DOMAIN versions = 1..Len(versions)
      /\ current' = Len(versions) + 1
      /\ versions'[Len(versions) + 1] =
           [number |-> number, base |-> current, content |-> what, lock |-> lock, at |-> at]
      /\ \A i \in 1..Len(versions) : versions'[i] = versions[i]
  BY InsertVersionRow
<1>2. /\ current = Len(versions)
      /\ \A i \in DOMAIN versions : versions[i].number = i /\ versions[i].base = i - 1
  BY DEF HistoryIsChain
<1>3. ASSUME NEW i \in DOMAIN versions'
      PROVE  versions'[i].number = i /\ versions'[i].base = i - 1
  <2>1. CASE i = Len(versions) + 1
    BY <1>0, <1>1, <1>2, <2>1
  <2>2. CASE i \in DOMAIN versions
    BY <1>1, <1>2, <2>2
  <2>3. QED
    BY <1>0, <1>1, <1>3, <2>1, <2>2
<1>4. QED
  BY <1>1, <1>3 DEF HistoryIsChain

LEMMA HistoryStep == IInv /\ [Next]_vars => HistoryIsChain' /\ DraftNumbers'
<1> SUFFICES ASSUME IInv, [Next]_vars PROVE HistoryIsChain' /\ DraftNumbers'
  OBVIOUS
<1>1. /\ TypeOK /\ HistoryIsChain /\ DraftNumbers
      /\ lockVersion \in Nat /\ Len(versions) \in Nat /\ NextNumber = Len(versions) + 1
  BY LenProperties DEF IInv, TypeOK, NextNumber
<1>2. \A at \in ApiClock \cup TransactionClock : at \in Times
  BY DEF ApiClock, TransactionClock
<1>3. CASE Environment \/ UNCHANGED vars
  BY <1>1, <1>3, EnvironmentStep DEF HistoryIsChain, DraftNumbers
<1>4. CASE Organization
  BY <1>1, <1>4, OrganizationStep DEF HistoryIsChain, DraftNumbers, Unsubmitted
<1>5. CASE Create
  <2>1. PICK at \in ApiClock, what \in Contents : InsertVersion(1, what, "unlocked", at)
    BY <1>5 DEF Create
  <2>2. lockVersion = 0 /\ Len(versions) = 0 /\ lockVersion' = 1 /\ state' = "draft"
    BY <1>1, <1>5 DEF Create, DraftNumbers, Accept
  <2>3. QED
    BY <1>1, <1>2, <2>1, <2>2, ChainExtends DEF DraftNumbers
<1>6. CASE Patch
  <2>1. PICK at \in ApiClock, what \in Contents :
          InsertVersion(NextNumber, what, "unlocked", at)
    BY <1>6 DEF Patch
  <2>2. state' = state /\ state # "none" /\ lockVersion' = lockVersion + 1
    BY <1>6 DEF Patch, Editable, Accept
  <2>3. QED
    BY <1>1, <1>2, <2>1, <2>2, ChainExtends DEF DraftNumbers
<1>7. CASE Submit
  <2>1. PICK begin \in TransactionClock :
          InsertVersion(lockVersion + 1, versions[current].content, "submission", begin)
    BY <1>7 DEF Submit
  <2>2. lockVersion = Len(versions) /\ state' = "submitted" /\ versions[current].content \in Contents
    BY <1>1, <1>7, CurrentContent DEF Submit, DraftNumbers
  <2>3. QED
    BY <1>1, <1>2, <2>1, <2>2, ChainExtends DEF DraftNumbers
<1>8. CASE SubmitClarification
  BY <1>1, <1>8 DEF SubmitClarification, content, HistoryIsChain, DraftNumbers
<1>9. CASE StartRevision
  <2>1. PICK at \in ApiClock :
          InsertVersion(NextNumber, versions[current].content, "unlocked", at)
    BY <1>9 DEF StartRevision
  <2>2. state' = "revision_draft" /\ versions[current].content \in Contents
    BY <1>1, <1>9, CurrentContent DEF StartRevision
  <2>3. QED
    BY <1>1, <1>2, <2>1, <2>2, ChainExtends DEF DraftNumbers
<1>10. CASE Resubmit
  <2>1. PICK begin \in TransactionClock :
          InsertVersion(NextNumber, versions[current].content, "resubmission", begin)
    BY <1>10 DEF Resubmit
  <2>2. state' = "resubmitted" /\ versions[current].content \in Contents
    BY <1>1, <1>10, CurrentContent DEF Resubmit
  <2>3. QED
    BY <1>1, <1>2, <2>1, <2>2, ChainExtends DEF DraftNumbers
<1>11. QED
  BY <1>3, <1>4, <1>5, <1>6, <1>7, <1>8, <1>9, <1>10 DEF Next, Owner

-----------------------------------------------------------------------------
(***************************************************************************)
(* The grants, the questions and the requests.                             *)
(***************************************************************************)

LEMMA Domains ==
  ASSUME TypeOK
  PROVE  /\ Len(versions) \in Nat /\ DOMAIN versions = 1..Len(versions)
         /\ Len(grants) \in Nat /\ DOMAIN grants = 1..Len(grants)
         /\ Len(clarifications) \in Nat /\ DOMAIN clarifications = 1..Len(clarifications)
         /\ Len(revisions) \in Nat /\ DOMAIN revisions = 1..Len(revisions)
<1>1. /\ versions \in Seq(Version) /\ grants \in Seq(Grant)
      /\ clarifications \in Seq(Clarification) /\ revisions \in Seq(Revision)
  BY DEF TypeOK
<1>2. QED
  BY <1>1, LenProperties

LEMMA RowStates ==
  ASSUME TypeOK
  PROVE  /\ \A c \in DOMAIN clarifications :
              clarifications[c].state \in {"requested", "submitted", "resolved"}
         /\ \A r \in DOMAIN revisions :
              revisions[r].state \in {"requested", "in_progress", "resubmitted"}
         /\ \A i \in DOMAIN grants : grants[i].state \in {"active", "revoked"}
<1>1. /\ \A c \in DOMAIN clarifications : clarifications[c] \in Clarification
      /\ \A r \in DOMAIN revisions : revisions[r] \in Revision
      /\ \A i \in DOMAIN grants : grants[i] \in Grant
  BY ElementOfSeq DEF TypeOK
<1>2. QED
  BY <1>1 DEF Clarification, Revision, Grant

LEMMA InsertedLock ==
  ASSUME TypeOK, NEW number \in Nat, NEW what \in Contents,
         NEW lock \in {"unlocked", "submission", "resubmission"}, NEW at \in Times,
         InsertVersion(number, what, lock, at)
  PROVE  /\ Len(versions') = Len(versions) + 1
         /\ DOMAIN versions' = DOMAIN versions \cup {Len(versions) + 1}
         /\ Len(versions) + 1 \notin DOMAIN versions
         /\ versions'[Len(versions) + 1].lock = lock
         /\ versions'[Len(versions) + 1].content = what
         /\ versions'[Len(versions) + 1].at = at
         /\ \A v \in DOMAIN versions : versions'[v] = versions[v] /\ v <= Len(versions)
<1>1. /\ Len(versions') = Len(versions) + 1
      /\ DOMAIN versions' = 1..(Len(versions) + 1)
      /\ DOMAIN versions = 1..Len(versions)
      /\ versions'[Len(versions) + 1] =
           [number |-> number, base |-> current, content |-> what, lock |-> lock, at |-> at]
      /\ \A i \in 1..Len(versions) : versions'[i] = versions[i]
  BY InsertVersionRow
<1>2. Len(versions) \in Nat
  BY Domains
<1>3. DOMAIN versions' = DOMAIN versions \cup {Len(versions) + 1}
  BY <1>1, <1>2
<1>4. /\ Len(versions) + 1 \notin DOMAIN versions
      /\ \A v \in DOMAIN versions : v <= Len(versions)
  BY <1>1, <1>2
<1>5. QED
  BY <1>1, <1>3, <1>4

Story == RowCounts /\ GrantedVersion /\ LiveGrant /\ EvidenceMatchesState /\ OpenRequestsCiteLast

LEMMA StoryStep == IInv /\ [Next]_vars => Story'
<1> SUFFICES ASSUME IInv, [Next]_vars PROVE Story'
  OBVIOUS
<1>0. /\ TypeOK /\ RowCounts /\ GrantedVersion /\ LiveGrant /\ EvidenceMatchesState
      /\ OpenRequestsCiteLast /\ HistoryIsChain /\ DraftNumbers
  BY DEF IInv
<1>1. /\ Len(versions) \in Nat /\ DOMAIN versions = 1..Len(versions)
      /\ Len(grants) \in Nat /\ DOMAIN grants = 1..Len(grants)
      /\ Len(clarifications) \in Nat /\ DOMAIN clarifications = 1..Len(clarifications)
      /\ Len(revisions) \in Nat /\ DOMAIN revisions = 1..Len(revisions)
  BY <1>0, Domains
<1>2. /\ \A at \in ApiClock \cup TransactionClock : at \in Times
      /\ lockVersion + 1 \in Nat /\ NextNumber \in Nat
  BY <1>0, <1>1 DEF ApiClock, TransactionClock, TypeOK, NextNumber
<1>3. state # "none" => versions[current].content \in Contents
  BY <1>0, CurrentContent
<1>4. CASE Environment \/ UNCHANGED vars
  <2>1. UNCHANGED <<state, current, versions, grants, clarifications, revisions>>
    BY <1>0, <1>4, EnvironmentStep
  <2>2. QED
    BY <1>0, <2>1 DEF Story, RowCounts, GrantedVersion, LiveGrant, EvidenceMatchesState,
                      OpenRequestsCiteLast, LastGrant
<1>5. CASE Create
  <2>1. PICK at \in ApiClock, what \in Contents : InsertVersion(1, what, "unlocked", at)
    BY <1>5 DEF Create
  <2>2. /\ DOMAIN versions' = DOMAIN versions \cup {Len(versions) + 1}
        /\ versions'[Len(versions) + 1].lock = "unlocked"
        /\ \A v \in DOMAIN versions : versions'[v] = versions[v]
    BY <1>0, <1>2, <2>1, InsertedLock
  <2>3. /\ state = "none" /\ state' = "draft" /\ UNCHANGED <<grants, clarifications, revisions>>
        /\ Len(revisions) = 0 /\ Len(grants) = 0 /\ Len(clarifications) = 0
    BY <1>0, <1>5 DEF Create, RowCounts, Unquestioned, Unsubmitted, Revised
  <2>4. RowCounts'
    BY <2>3 DEF RowCounts, Unquestioned, Unsubmitted, Revised
  <2>5. GrantedVersion'
    BY <1>0, <2>2, <2>3 DEF GrantedVersion, Unsubmitted
  <2>6. LiveGrant' /\ EvidenceMatchesState' /\ OpenRequestsCiteLast'
    BY <1>1, <2>3 DEF LiveGrant, EvidenceMatchesState, OpenRequestsCiteLast
  <2>7. QED
    BY <2>4, <2>5, <2>6 DEF Story
<1>6. CASE Patch
  <2>1. PICK at \in ApiClock, what \in Contents :
          InsertVersion(NextNumber, what, "unlocked", at)
    BY <1>6 DEF Patch
  <2>2. /\ DOMAIN versions' = DOMAIN versions \cup {Len(versions) + 1}
        /\ versions'[Len(versions) + 1].lock = "unlocked"
        /\ \A v \in DOMAIN versions : versions'[v] = versions[v]
    BY <1>0, <1>2, <2>1, InsertedLock
  <2>3. /\ state \in {"draft", "revision_draft"} /\ state' = state
        /\ UNCHANGED <<grants, clarifications, revisions>>
    BY <1>6 DEF Patch, Editable
  <2>4. RowCounts' /\ LiveGrant' /\ OpenRequestsCiteLast'
    BY <1>0, <2>3 DEF RowCounts, LiveGrant, OpenRequestsCiteLast, LastGrant
  <2>5. GrantedVersion'
    BY <1>0, <2>2, <2>3 DEF GrantedVersion, Unsubmitted, LastGrant
  <2>6. EvidenceMatchesState'
    <3>1. ASSUME NEW r \in DOMAIN revisions PROVE revisions[r].state # "resubmitted"
      BY <1>0, <1>1, <2>3 DEF EvidenceMatchesState, RowCounts, Revised
    <3>2. QED
      BY <1>0, <2>3, <3>1 DEF EvidenceMatchesState
  <2>7. QED
    BY <2>4, <2>5, <2>6 DEF Story
<1>7. CASE Submit
  <2>1. PICK begin \in TransactionClock :
          /\ InsertVersion(lockVersion + 1, versions[current].content, "submission", begin)
          /\ grants' = Append(grants, NewGrant(begin))
    BY <1>7 DEF Submit
  <2>2. /\ Len(versions') = Len(versions) + 1
        /\ DOMAIN versions' = DOMAIN versions \cup {Len(versions) + 1}
        /\ versions'[Len(versions) + 1].lock = "submission"
        /\ \A v \in DOMAIN versions : versions'[v] = versions[v] /\ v <= Len(versions)
    BY <1>0, <1>2, <1>3, <1>7, <2>1, InsertedLock DEF Submit
  <2>3. /\ state = "draft" /\ state' = "submitted" /\ UNCHANGED <<clarifications, revisions>>
        /\ Len(revisions) = 0 /\ Len(grants) = 0 /\ Len(clarifications) = 0
    BY <1>0, <1>7 DEF Submit, RowCounts, Unquestioned, Unsubmitted, Revised
  <2>4. /\ Len(grants') = 1 /\ DOMAIN grants' = {1}
        /\ grants'[1].version = Len(versions) + 1 /\ grants'[1].state = "active"
    BY <1>0, <2>1, <2>3, NewGrantType, AppendRow DEF TypeOK, NewGrant
  <2>5. RowCounts'
    BY <2>3, <2>4 DEF RowCounts, Unquestioned, Unsubmitted, Revised
  <2>6. GrantedVersion'
    BY <1>1, <2>2, <2>3, <2>4 DEF GrantedVersion, Unsubmitted, LastGrant
  <2>7. LiveGrant' /\ EvidenceMatchesState' /\ OpenRequestsCiteLast'
    BY <1>1, <2>3, <2>4 DEF LiveGrant, EvidenceMatchesState, OpenRequestsCiteLast
  <2>8. QED
    BY <2>5, <2>6, <2>7 DEF Story
<1>8. CASE SubmitClarification
  <2>1. PICK at \in ApiClock, c \in DOMAIN clarifications :
          clarifications' = [clarifications EXCEPT ![c] = [@ EXCEPT !.state = "submitted", !.at = at]]
    BY <1>8 DEF SubmitClarification
  <2>2. /\ state = "clarification_requested" /\ state' = "clarification_submitted"
        /\ UNCHANGED <<versions, current, grants, revisions>>
    BY <1>8 DEF SubmitClarification, content
  <2>3. Len(clarifications) = 1 /\ c = 1
    BY <1>0, <1>1, <2>2 DEF RowCounts, Unquestioned, Unsubmitted
  <2>4. /\ Len(clarifications') = 1 /\ DOMAIN clarifications' = {1}
        /\ clarifications'[1].state = "submitted"
        /\ clarifications'[1].version = clarifications[1].version
        /\ clarifications[1].state = "requested"
    <3>1. clarifications[1] \in Clarification /\ at \in Times
      BY <1>0, <1>1, <1>2, <2>3, ElementOfSeq DEF TypeOK
    <3>2. [clarifications[1] EXCEPT !.state = "submitted", !.at = at] \in Clarification
      BY <3>1 DEF Clarification
    <3>3. /\ Len(clarifications') = 1 /\ DOMAIN clarifications' = {1}
          /\ clarifications'[1] = [clarifications[1] EXCEPT !.state = "submitted", !.at = at]
      BY <1>0, <1>1, <2>1, <2>3, <3>2, UpdateRow DEF TypeOK
    <3>4. clarifications[1].state = "requested"
      BY <1>0, <1>1, <2>2, <2>3 DEF EvidenceMatchesState
    <3>5. QED
      BY <3>1, <3>3, <3>4 DEF Clarification
  <2>5. RowCounts' /\ GrantedVersion' /\ LiveGrant'
    BY <1>0, <2>2, <2>3, <2>4
       DEF RowCounts, GrantedVersion, LiveGrant, LastGrant, Unquestioned, Unsubmitted, Revised
  <2>6. EvidenceMatchesState' /\ OpenRequestsCiteLast'
    BY <1>0, <1>1, <2>2, <2>3, <2>4
       DEF EvidenceMatchesState, OpenRequestsCiteLast, LastGrant, RowCounts, Revised
  <2>7. QED
    BY <2>5, <2>6 DEF Story
<1>9. CASE StartRevision
  <2>1. PICK at \in ApiClock, r \in DOMAIN revisions :
          /\ revisions' = [revisions EXCEPT ![r] = [@ EXCEPT !.state = "in_progress", !.at = at]]
          /\ InsertVersion(NextNumber, versions[current].content, "unlocked", at)
    BY <1>9 DEF StartRevision
  <2>2. /\ DOMAIN versions' = DOMAIN versions \cup {Len(versions) + 1}
        /\ versions'[Len(versions) + 1].lock = "unlocked"
        /\ \A v \in DOMAIN versions : versions'[v] = versions[v]
    BY <1>0, <1>2, <1>3, <1>9, <2>1, InsertedLock DEF StartRevision
  <2>3. /\ state = "revision_requested" /\ state' = "revision_draft"
        /\ UNCHANGED <<grants, clarifications>>
    BY <1>9 DEF StartRevision
  <2>4. Len(revisions) = 1 /\ r = 1
    BY <1>0, <1>1, <2>3 DEF RowCounts, Revised
  <2>5. /\ Len(revisions') = 1 /\ DOMAIN revisions' = {1}
        /\ revisions'[1].state = "in_progress" /\ revisions'[1].base = revisions[1].base
        /\ revisions[1].state = "requested"
    <3>1. revisions[1] \in Revision /\ at \in Times
      BY <1>0, <1>1, <1>2, <2>4, ElementOfSeq DEF TypeOK
    <3>2. [revisions[1] EXCEPT !.state = "in_progress", !.at = at] \in Revision
      BY <3>1 DEF Revision
    <3>3. /\ Len(revisions') = 1 /\ DOMAIN revisions' = {1}
          /\ revisions'[1] = [revisions[1] EXCEPT !.state = "in_progress", !.at = at]
      BY <1>0, <1>1, <2>1, <2>4, <3>2, UpdateRow DEF TypeOK
    <3>4. revisions[1].state = "requested"
      BY <1>0, <1>1, <2>3, <2>4 DEF EvidenceMatchesState
    <3>5. QED
      BY <3>1, <3>3, <3>4 DEF Revision
  <2>6. RowCounts' /\ LiveGrant'
    BY <1>0, <2>3, <2>5 DEF RowCounts, LiveGrant, Unquestioned, Unsubmitted, Revised
  <2>7. GrantedVersion'
    BY <1>0, <2>2, <2>3 DEF GrantedVersion, Unsubmitted, LastGrant
  <2>8. EvidenceMatchesState' /\ OpenRequestsCiteLast'
    BY <1>0, <1>1, <2>3, <2>4, <2>5 DEF EvidenceMatchesState, OpenRequestsCiteLast, LastGrant
  <2>9. QED
    BY <2>6, <2>7, <2>8 DEF Story
<1>10. CASE Resubmit
  <2>1. PICK begin \in TransactionClock, r \in DOMAIN revisions :
          /\ InsertVersion(NextNumber, versions[current].content, "resubmission", begin)
          /\ revisions' = [revisions EXCEPT ![r] =
               [@ EXCEPT !.state = "resubmitted", !.at = begin, !.result = Len(versions) + 1]]
          /\ Supersede(begin)
    BY <1>10 DEF Resubmit
  <2>2. /\ Len(versions') = Len(versions) + 1
        /\ DOMAIN versions' = DOMAIN versions \cup {Len(versions) + 1}
        /\ versions'[Len(versions) + 1].lock = "resubmission"
        /\ \A v \in DOMAIN versions : versions'[v] = versions[v] /\ v <= Len(versions)
    BY <1>0, <1>2, <1>3, <1>10, <2>1, InsertedLock DEF Resubmit
  <2>3. /\ state = "revision_draft" /\ state' = "resubmitted" /\ UNCHANGED clarifications
        /\ current' = Len(versions) + 1
    BY <1>10 DEF Resubmit, InsertVersion
  <2>4. Len(revisions) = 1 /\ r = 1 /\ Len(grants) = 1 /\ Len(clarifications) = 1
    BY <1>0, <1>1, <2>3 DEF RowCounts, Revised, Unquestioned, Unsubmitted
  <2>5. /\ Len(revisions') = 1 /\ DOMAIN revisions' = {1}
        /\ revisions'[1].state = "resubmitted" /\ revisions'[1].result = Len(versions) + 1
    <3>1. revisions[1] \in Revision /\ begin \in Times
      BY <1>0, <1>1, <1>2, <2>4, ElementOfSeq DEF TypeOK
    <3>2. [revisions[1] EXCEPT !.state = "resubmitted", !.at = begin,
                               !.result = Len(versions) + 1] \in Revision
      <4>1. Len(versions) + 1 \in Nat
        BY <1>1
      <4>2. QED
        BY <3>1, <4>1 DEF Revision
    <3>3. /\ Len(revisions') = 1 /\ DOMAIN revisions' = {1}
          /\ revisions'[1] = [revisions[1] EXCEPT !.state = "resubmitted", !.at = begin,
                                                  !.result = Len(versions) + 1]
      BY <1>0, <1>1, <2>1, <2>4, <3>2, UpdateRow DEF TypeOK
    <3>4. QED
      BY <3>1, <3>3 DEF Revision
  <2>6. /\ Len(grants') = 2 /\ DOMAIN grants' = {1, 2}
        /\ grants'[2].version = Len(versions) + 1 /\ grants'[2].state = "active"
        /\ grants'[1].state = "revoked"
    <3>1. PICK i \in DOMAIN grants :
            grants' = Append([grants EXCEPT ![i] = [@ EXCEPT !.state = "revoked"]],
                             NewGrant(begin))
      BY <2>1 DEF Supersede
    <3>2. i = 1 /\ grants[1] \in Grant
      <4>1. i = 1
        BY <1>1, <2>4
      <4>2. QED
        BY <1>0, <4>1, ElementOfSeq DEF TypeOK
    <3>3. [grants[1] EXCEPT !.state = "revoked"] \in Grant
      BY <3>2 DEF Grant
    <3>4. NewGrant(begin) \in Grant
      BY <1>0, NewGrantType
    <3>5. /\ Len(grants') = 2 /\ DOMAIN grants' = {1, 2}
          /\ grants'[1] = [grants[1] EXCEPT !.state = "revoked"]
          /\ grants'[2] = NewGrant(begin)
      BY <1>0, <2>4, <3>1, <3>2, <3>3, <3>4, ReplaceRow DEF TypeOK
    <3>6. grants'[1].state = "revoked"
      BY <3>2, <3>5 DEF Grant
    <3>7. QED
      BY <3>5, <3>6 DEF NewGrant
  <2>7. RowCounts'
    BY <2>3, <2>4, <2>5, <2>6 DEF RowCounts, Revised, Unquestioned, Unsubmitted
  <2>8. GrantedVersion'
    BY <1>1, <2>2, <2>3, <2>6 DEF GrantedVersion, Unsubmitted, LastGrant
  <2>9. LiveGrant'
    BY <2>6 DEF LiveGrant
  <2>10. \A c \in DOMAIN clarifications : clarifications[c].state = "resolved"
    BY <1>0, <2>3, RowStates DEF EvidenceMatchesState
  <2>11. EvidenceMatchesState' /\ OpenRequestsCiteLast'
    BY <2>3, <2>5, <2>10 DEF EvidenceMatchesState, OpenRequestsCiteLast
  <2>12. QED
    BY <2>7, <2>8, <2>9, <2>11 DEF Story
<1>11. CASE StartEligibilityReview
  <2>1. /\ state = "submitted" /\ state' = "eligibility_review"
        /\ UNCHANGED <<versions, current, grants, clarifications, revisions>>
    BY <1>11 DEF StartEligibilityReview, OrganizationTransition, content
  <2>2. QED
    BY <1>0, <1>1, <2>1
       DEF Story, RowCounts, GrantedVersion, LiveGrant, EvidenceMatchesState,
           OpenRequestsCiteLast, LastGrant, Unquestioned, Unsubmitted, Revised
<1>12. CASE DecideEligibility
  <2>1. /\ state = "eligibility_review" /\ state' \in {"eligible", "ineligible"}
        /\ UNCHANGED <<versions, current, grants, clarifications, revisions>>
    BY <1>12 DEF DecideEligibility, OrganizationTransition, content
  <2>2. QED
    BY <1>0, <1>1, <2>1
       DEF Story, RowCounts, GrantedVersion, LiveGrant, EvidenceMatchesState,
           OpenRequestsCiteLast, LastGrant, Unquestioned, Unsubmitted, Revised
<1>13. CASE RequestClarification
  <2>1. PICK at \in ApiClock :
          clarifications' = Append(clarifications,
            [version |-> current, state |-> "requested", at |-> at])
    BY <1>13 DEF RequestClarification
  <2>2. /\ state = "eligible" /\ state' = "clarification_requested"
        /\ UNCHANGED <<versions, current, grants, revisions>>
    BY <1>13 DEF RequestClarification, OrganizationTransition, content
  <2>3. /\ Len(clarifications) = 0 /\ Len(revisions) = 0 /\ Len(grants) = 1
        /\ current = LastGrant.version
    BY <1>0, <2>2 DEF RowCounts, GrantedVersion, HistoryIsChain, Unquestioned, Unsubmitted, Revised
  <2>4. /\ Len(clarifications') = 1 /\ DOMAIN clarifications' = {1}
        /\ clarifications'[1] = [version |-> current, state |-> "requested", at |-> at]
    <3>1. [version |-> current, state |-> "requested", at |-> at] \in Clarification
      BY <1>0, <1>2, CurrentIsNat DEF Clarification
    <3>2. QED
      BY <1>0, <2>1, <2>3, <3>1, AppendRow DEF TypeOK
  <2>5. RowCounts' /\ GrantedVersion' /\ LiveGrant'
    BY <1>0, <2>2, <2>3, <2>4
       DEF RowCounts, GrantedVersion, LiveGrant, LastGrant, Unquestioned, Unsubmitted, Revised
  <2>6. EvidenceMatchesState' /\ OpenRequestsCiteLast'
    BY <1>1, <2>2, <2>3, <2>4 DEF EvidenceMatchesState, OpenRequestsCiteLast, LastGrant
  <2>7. QED
    BY <2>5, <2>6 DEF Story
<1>14. CASE ResolveClarification
  <2>1. PICK at \in ApiClock, c \in DOMAIN clarifications :
          clarifications' = [clarifications EXCEPT ![c] = [@ EXCEPT !.state = "resolved", !.at = at]]
    BY <1>14 DEF ResolveClarification, Resolve
  <2>2. /\ state = "clarification_submitted" /\ state' = "reviewing"
        /\ UNCHANGED <<versions, current, grants, revisions>>
    BY <1>14 DEF ResolveClarification, OrganizationTransition, content
  <2>3. Len(clarifications) = 1 /\ c = 1 /\ Len(revisions) = 0
    BY <1>0, <1>1, <2>2 DEF RowCounts, Unquestioned, Unsubmitted, Revised
  <2>4. /\ Len(clarifications') = 1 /\ DOMAIN clarifications' = {1}
        /\ clarifications'[1].state = "resolved"
    <3>1. clarifications[1] \in Clarification /\ at \in Times
      BY <1>0, <1>1, <1>2, <2>3, ElementOfSeq DEF TypeOK
    <3>2. [clarifications[1] EXCEPT !.state = "resolved", !.at = at] \in Clarification
      BY <3>1 DEF Clarification
    <3>3. /\ Len(clarifications') = 1 /\ DOMAIN clarifications' = {1}
          /\ clarifications'[1] = [clarifications[1] EXCEPT !.state = "resolved", !.at = at]
      BY <1>0, <1>1, <2>1, <2>3, <3>2, UpdateRow DEF TypeOK
    <3>4. QED
      BY <3>1, <3>3 DEF Clarification
  <2>5. RowCounts' /\ GrantedVersion' /\ LiveGrant'
    BY <1>0, <2>2, <2>3, <2>4
       DEF RowCounts, GrantedVersion, LiveGrant, LastGrant, Unquestioned, Unsubmitted, Revised
  <2>6. EvidenceMatchesState' /\ OpenRequestsCiteLast'
    BY <1>1, <2>2, <2>3, <2>4 DEF EvidenceMatchesState, OpenRequestsCiteLast
  <2>7. QED
    BY <2>5, <2>6 DEF Story
<1>15. CASE RequestRevision
  <2>1. PICK at \in ApiClock, deadline \in Deadlines :
          revisions' = Append(revisions, NewRevision(deadline, at))
    BY <1>15 DEF RequestRevision
  <2>2. /\ state = "reviewing" /\ state' = "revision_requested"
        /\ UNCHANGED <<versions, current, grants, clarifications>>
    BY <1>15 DEF RequestRevision, OrganizationTransition, content
  <2>3. /\ Len(clarifications) = 1 /\ Len(revisions) = 0 /\ Len(grants) = 1
        /\ current = LastGrant.version
    BY <1>0, <2>2 DEF RowCounts, GrantedVersion, HistoryIsChain, Unquestioned, Unsubmitted, Revised
  <2>4. /\ Len(revisions') = 1 /\ DOMAIN revisions' = {1}
        /\ revisions'[1].state = "requested" /\ revisions'[1].base = current
    <3>1. NewRevision(deadline, at) \in Revision
      BY <1>0, <1>2, CurrentIsNat DEF Revision, NewRevision
    <3>2. /\ Len(revisions') = 1 /\ DOMAIN revisions' = {1}
          /\ revisions'[1] = NewRevision(deadline, at)
      BY <1>0, <2>1, <2>3, <3>1, AppendRow DEF TypeOK
    <3>3. QED
      BY <3>2 DEF NewRevision
  <2>5. RowCounts' /\ GrantedVersion' /\ LiveGrant'
    BY <1>0, <2>2, <2>3, <2>4
       DEF RowCounts, GrantedVersion, LiveGrant, LastGrant, Unquestioned, Unsubmitted, Revised
  <2>6. EvidenceMatchesState' /\ OpenRequestsCiteLast'
    BY <1>0, <2>2, <2>3, <2>4 DEF EvidenceMatchesState, OpenRequestsCiteLast, LastGrant
  <2>7. QED
    BY <2>5, <2>6 DEF Story
<1>16. QED
  BY <1>4, <1>5, <1>6, <1>7, <1>8, <1>9, <1>10, <1>11, <1>12, <1>13, <1>14, <1>15
     DEF Next, Owner, Organization

LEMMA OnTimeStep == IInv /\ [Next]_vars => HandedInOnTime'
<1> SUFFICES ASSUME IInv, [Next]_vars PROVE HandedInOnTime'
  OBVIOUS
<1>0. TypeOK /\ HandedInOnTime
  BY DEF IInv
<1>1. /\ \A at \in ApiClock \cup TransactionClock : at \in Times
      /\ lockVersion + 1 \in Nat /\ NextNumber \in Nat
      /\ Times \subseteq Nat /\ Deadlines \subseteq Nat /\ call.deadline \in Nat
  <2>1. Times \subseteq Nat /\ Deadlines \subseteq Nat
    BY ProposalAssumption DEF Times, Deadlines
  <2>2. call.deadline \in Nat
    BY <1>0, <2>1 DEF TypeOK
  <2>3. lockVersion + 1 \in Nat /\ NextNumber \in Nat
    BY <1>0, Domains DEF TypeOK, NextNumber
  <2>4. QED
    BY <2>1, <2>2, <2>3 DEF ApiClock, TransactionClock
<1>2. /\ \A v \in DOMAIN versions : versions[v].at \in Nat
      /\ \A r \in DOMAIN revisions :
           revisions[r] \in Revision /\ revisions[r].at \in Nat /\ revisions[r].deadline \in Nat
  <2>1. /\ \A v \in DOMAIN versions : versions[v] \in Version
        /\ \A r \in DOMAIN revisions : revisions[r] \in Revision
    BY <1>0, ElementOfSeq DEF TypeOK
  <2>2. QED
    BY <1>1, <2>1 DEF Version, Revision
<1>3. state # "none" => versions[current].content \in Contents
  BY <1>0, CurrentContent
<1>4. CASE Environment \/ UNCHANGED vars
  <2>1. versions' = versions /\ revisions' = revisions
    BY <1>0, <1>4, EnvironmentStep
  <2>2. /\ call.deadline \in Nat /\ call'.deadline \in Nat
        /\ call'.deadline >= call.deadline
    BY <1>0, <1>4, EnvironmentStep
  <2>3. \A v \in DOMAIN versions :
          versions[v].lock = "submission" => versions[v].at < call'.deadline
    <3>1. ASSUME NEW a \in Nat, a < call.deadline PROVE a < call'.deadline
      BY <2>2, <3>1
    <3>2. QED
      BY <1>0, <1>2, <3>1 DEF HandedInOnTime
  <2>4. QED
    BY <1>0, <2>1, <2>3 DEF HandedInOnTime
<1>5. ASSUME NEW number \in Nat, NEW what \in Contents, NEW at \in Times, UNCHANGED call,
             NEW lock \in {"unlocked", "submission", "resubmission"},
             InsertVersion(number, what, lock, at),
             lock = "submission" => at < call.deadline
      PROVE  \A v \in DOMAIN versions' :
               versions'[v].lock = "submission" => versions'[v].at < call'.deadline
  <2>1. /\ DOMAIN versions' = DOMAIN versions \cup {Len(versions) + 1}
        /\ versions'[Len(versions) + 1].lock = lock
        /\ versions'[Len(versions) + 1].at = at
        /\ \A v \in DOMAIN versions : versions'[v] = versions[v]
    BY <1>0, <1>5, InsertedLock
  <2>2. QED
    BY <1>0, <1>5, <2>1 DEF HandedInOnTime
<1>6. CASE Create
  <2>1. PICK at \in ApiClock, what \in Contents : InsertVersion(1, what, "unlocked", at)
    BY <1>6 DEF Create
  <2>2. UNCHANGED call /\ UNCHANGED revisions
    BY <1>6 DEF Create, environment
  <2>3. QED
    BY <1>0, <1>1, <1>5, <2>1, <2>2 DEF HandedInOnTime
<1>7. CASE Patch
  <2>1. PICK at \in ApiClock, what \in Contents :
          InsertVersion(NextNumber, what, "unlocked", at)
    BY <1>7 DEF Patch
  <2>2. UNCHANGED call /\ UNCHANGED revisions
    BY <1>7 DEF Patch, environment
  <2>3. QED
    BY <1>0, <1>1, <1>5, <2>1, <2>2 DEF HandedInOnTime
<1>8. CASE Submit
  <2>1. PICK begin \in TransactionClock :
          /\ InsertVersion(lockVersion + 1, versions[current].content, "submission", begin)
          /\ begin < call.deadline
    BY <1>8 DEF Submit, Submittable
  <2>2. UNCHANGED call /\ UNCHANGED revisions /\ versions[current].content \in Contents
    BY <1>3, <1>8 DEF Submit, environment
  <2>3. QED
    BY <1>0, <1>1, <1>5, <2>1, <2>2 DEF HandedInOnTime
<1>9. CASE SubmitClarification
  BY <1>0, <1>9 DEF SubmitClarification, environment, content, HandedInOnTime
<1>10. CASE StartRevision
  <2>1. PICK at \in ApiClock, r \in DOMAIN revisions :
          /\ revisions' = [revisions EXCEPT ![r] = [@ EXCEPT !.state = "in_progress", !.at = at]]
          /\ InsertVersion(NextNumber, versions[current].content, "unlocked", at)
    BY <1>10 DEF StartRevision
  <2>2. UNCHANGED call /\ versions[current].content \in Contents
    BY <1>3, <1>10 DEF StartRevision, environment
  <2>3. /\ DOMAIN revisions' = DOMAIN revisions
        /\ revisions'[r].state = "in_progress"
        /\ \A q \in DOMAIN revisions \ {r} : revisions'[q] = revisions[q]
    <3>1. [revisions[r] EXCEPT !.state = "in_progress", !.at = at] \in Revision
      BY <1>1, <1>2 DEF Revision
    <3>2. /\ DOMAIN revisions' = DOMAIN revisions
          /\ revisions'[r] = [revisions[r] EXCEPT !.state = "in_progress", !.at = at]
          /\ \A q \in DOMAIN revisions \ {r} : revisions'[q] = revisions[q]
      BY <1>0, <2>1, <3>1, UpdateRow DEF TypeOK
    <3>3. QED
      BY <1>2, <3>2 DEF Revision
  <2>4. \A q \in DOMAIN revisions' :
          revisions'[q].state = "resubmitted" => revisions'[q].at < revisions'[q].deadline
    BY <1>0, <2>3 DEF HandedInOnTime
  <2>5. QED
    BY <1>1, <1>5, <2>1, <2>2, <2>4 DEF HandedInOnTime
<1>11. CASE Resubmit
  <2>1. PICK begin \in TransactionClock, r \in DOMAIN revisions :
          /\ InsertVersion(NextNumber, versions[current].content, "resubmission", begin)
          /\ revisions' = [revisions EXCEPT ![r] =
               [@ EXCEPT !.state = "resubmitted", !.at = begin, !.result = Len(versions) + 1]]
          /\ begin < revisions[r].deadline
    BY <1>11 DEF Resubmit, Resubmittable
  <2>2. UNCHANGED call /\ versions[current].content \in Contents
    BY <1>3, <1>11 DEF Resubmit, environment
  <2>3. /\ DOMAIN revisions' = DOMAIN revisions
        /\ revisions'[r].at = begin /\ revisions'[r].deadline = revisions[r].deadline
        /\ \A q \in DOMAIN revisions \ {r} : revisions'[q] = revisions[q]
    <3>1. Len(versions) + 1 \in Nat
      BY <1>0, Domains
    <3>2. [revisions[r] EXCEPT !.state = "resubmitted", !.at = begin,
                               !.result = Len(versions) + 1] \in Revision
      BY <1>1, <1>2, <3>1 DEF Revision
    <3>3. /\ DOMAIN revisions' = DOMAIN revisions
          /\ revisions'[r] = [revisions[r] EXCEPT !.state = "resubmitted", !.at = begin,
                                                  !.result = Len(versions) + 1]
          /\ \A q \in DOMAIN revisions \ {r} : revisions'[q] = revisions[q]
      BY <1>0, <2>1, <3>2, UpdateRow DEF TypeOK
    <3>4. QED
      BY <1>2, <3>3 DEF Revision
  <2>4. \A q \in DOMAIN revisions' :
          revisions'[q].state = "resubmitted" => revisions'[q].at < revisions'[q].deadline
    BY <1>0, <2>1, <2>3 DEF HandedInOnTime
  <2>5. QED
    BY <1>1, <1>5, <2>1, <2>2, <2>4 DEF HandedInOnTime
<1>12. CASE RequestRevision
  <2>1. PICK at \in ApiClock, deadline \in Deadlines :
          revisions' = Append(revisions, NewRevision(deadline, at))
    BY <1>12 DEF RequestRevision
  <2>2. UNCHANGED <<call, versions>>
    BY <1>12, OrganizationStep DEF Organization
  <2>3. /\ DOMAIN revisions' = 1..(Len(revisions) + 1) /\ DOMAIN revisions = 1..Len(revisions)
        /\ Len(revisions) \in Nat
        /\ revisions'[Len(revisions) + 1] = NewRevision(deadline, at)
        /\ \A r \in 1..Len(revisions) : revisions'[r] = revisions[r]
    <3>1. NewRevision(deadline, at) \in Revision
      BY <1>0, <1>1, CurrentIsNat DEF Revision, NewRevision
    <3>2. QED
      BY <1>0, <2>1, <3>1, AppendRow, Domains DEF TypeOK
  <2>4. revisions'[Len(revisions) + 1].state = "requested"
    BY <2>3 DEF NewRevision
  <2>5. QED
    BY <1>0, <2>2, <2>3, <2>4 DEF HandedInOnTime
<1>13. CASE \/ StartEligibilityReview \/ DecideEligibility
            \/ RequestClarification \/ ResolveClarification
  <2>1. UNCHANGED <<call, versions>>
    BY <1>13, OrganizationStep DEF Organization
  <2>2. UNCHANGED revisions
    BY <1>13 DEF StartEligibilityReview, DecideEligibility, RequestClarification,
                 ResolveClarification
  <2>3. QED
    BY <1>0, <2>1, <2>2 DEF HandedInOnTime
<1>14. QED
  BY <1>4, <1>6, <1>7, <1>8, <1>9, <1>10, <1>11, <1>12, <1>13 DEF Next, Owner, Organization

-----------------------------------------------------------------------------
(***************************************************************************)
(* The theorems.                                                           *)
(***************************************************************************)

LEMMA InvStep == IInv /\ [Next]_vars => IInv'
<1> SUFFICES ASSUME IInv, [Next]_vars PROVE IInv'
  OBVIOUS
<1>1. TypeOK' /\ NoLostUpdate'
  BY TypeStep, TokenStep DEF IInv
<1>2. HistoryIsChain' /\ DraftNumbers' /\ Story' /\ HandedInOnTime'
  BY HistoryStep, StoryStep, OnTimeStep
<1>3. QED
  BY <1>1, <1>2 DEF IInv, Story

LEMMA Invariance == Spec => []IInv
  BY InvInit, InvStep, PTL DEF Spec

(***************************************************************************)
(* However many callers of either party work from however old a reading,   *)
(* no two accepted commands are based on the same one.                     *)
(***************************************************************************)
THEOREM TokensProtect == Spec => []NoLostUpdate
<1>1. IInv => NoLostUpdate
  BY DEF IInv
<1>2. QED
  BY <1>1, Invariance, PTL

(***************************************************************************)
(* Every version extends the latest one, although one command numbers its  *)
(* version by the lock and the others by the highest number.               *)
(***************************************************************************)
THEOREM HistoryNeverForks == Spec => []HistoryIsChain
<1>1. IInv => HistoryIsChain
  BY DEF IInv
<1>2. QED
  BY <1>1, Invariance, PTL

(***************************************************************************)
(* Rows of questions and requests and the state of the aggregate never     *)
(* disagree.                                                               *)
(***************************************************************************)
THEOREM RowsMatchState == Spec => []EvidenceMatchesState
<1>1. IInv => EvidenceMatchesState
  BY DEF IInv
<1>2. QED
  BY <1>1, Invariance, PTL

(***************************************************************************)
(* Nothing is handed in after its deadline, for any skew of the hosts'     *)
(* clocks and any wait for the locks.                                      *)
(***************************************************************************)
THEOREM DeadlinesHold == Spec => []HandedInOnTime
<1>1. IInv => HandedInOnTime
  BY DEF IInv
<1>2. QED
  BY <1>1, Invariance, PTL

LEMMA OneLiveGrant ==
  ASSUME IInv
  PROVE  Active = IF state \in Unsubmitted THEN {} ELSE {Len(grants)}
<1>1. Len(grants) \in Nat /\ DOMAIN grants = 1..Len(grants)
  BY Domains DEF IInv
<1>2. Len(grants) = 0 <=> state \in Unsubmitted
  BY DEF IInv, RowCounts
<1>3. QED
  BY <1>1, <1>2 DEF IInv, LiveGrant, Active

(***************************************************************************)
(* From submission on exactly one grant is live, and it is for the version *)
(* handed in last.                                                         *)
(***************************************************************************)
THEOREM GrantTracks == Spec => []GrantTracksHandedIn
<1>1. ASSUME IInv PROVE GrantTracksHandedIn
  <2>1. GrantedVersion
    BY <1>1 DEF IInv
  <2>2. DOMAIN versions \subseteq Nat
    BY <1>1, Domains DEF IInv
  <2>3. CASE state \in Unsubmitted
    BY <1>1, <2>1, <2>3, OneLiveGrant DEF GrantTracksHandedIn, GrantedVersion, Locked, Unsubmitted
  <2>4. CASE state \notin Unsubmitted
    <3>1. Active = {Len(grants)}
      BY <1>1, <2>4, OneLiveGrant
    <3>2. /\ LastGrant.version \in Locked
          /\ \A j \in Locked : ~ (j > LastGrant.version)
      BY <2>1, <2>4 DEF GrantedVersion, Locked
    <3>3. \A j \in Locked : j <= LastGrant.version
      BY <2>2, <3>2 DEF Locked
    <3>4. QED
      BY <2>4, <3>1, <3>2, <3>3 DEF GrantTracksHandedIn, LastGrant, Unsubmitted
  <2>5. QED
    BY <2>3, <2>4
<1>2. QED
  BY <1>1, Invariance, PTL

(***************************************************************************)
(* What is still being asked of the owner is about a version the           *)
(* organization can read.                                                  *)
(***************************************************************************)
THEOREM RequestsCiteGranted == Spec => []OpenRequestsCiteGranted
<1>1. ASSUME IInv PROVE OpenRequestsCiteGranted
  <2>1. \A i \in Active : i = Len(grants)
    BY <1>1, OneLiveGrant
  <2>2. QED
    BY <1>1, <2>1 DEF IInv, OpenRequestsCiteLast, OpenRequestsCiteGranted, LastGrant
<1>2. QED
  BY <1>1, Invariance, PTL

-----------------------------------------------------------------------------
(***************************************************************************)
(* The refinement.                                                         *)
(***************************************************************************)

\* A grant begins when the transaction that writes it did, and ends after that.
GrantsInTime ==
  \A i \in DOMAIN grants : grants[i].from <= now /\ grants[i].from < grants[i].expires

ReadInv == IInv /\ GrantsInTime

LEMMA AppendedGrant ==
  ASSUME TypeOK, GrantsInTime, now' = now, NEW begin \in TransactionClock, NEW old \in Seq(Grant),
         Len(old) = Len(grants),
         \A i \in DOMAIN grants : /\ old[i].from = grants[i].from
                                 /\ old[i].expires = grants[i].expires,
         grants' = Append(old, NewGrant(begin))
  PROVE  GrantsInTime' /\ LastGrant' = NewGrant(begin)
<1>1. /\ Len(grants) \in Nat /\ DOMAIN grants = 1..Len(grants)
      /\ Len(grants') = Len(grants) + 1 /\ DOMAIN grants' = 1..(Len(grants) + 1)
      /\ \A i \in 1..Len(grants) : grants'[i] = old[i]
      /\ grants'[Len(grants) + 1] = NewGrant(begin)
  BY Domains, AppendProperties, LenProperties DEF NewGrant
<1>2. /\ NewGrant(begin).from <= now
      /\ NewGrant(begin).from < NewGrant(begin).expires
  BY ProposalAssumption DEF NewGrant, TransactionClock, Times, TypeOK
<1>3. \A i \in DOMAIN grants' : i \in DOMAIN grants \/ i = Len(grants) + 1
  BY <1>1
<1>4. GrantsInTime'
  BY <1>1, <1>2, <1>3 DEF GrantsInTime
<1>5. QED
  BY <1>1, <1>4 DEF LastGrant

\* The commands that hand a version in grant it.
LEMMA SubmittedIsGranted ==
  ASSUME ReadInv, Submit
  PROVE  /\ GrantsInTime' /\ now' = now
         /\ \E begin \in TransactionClock : LastGrant' = NewGrant(begin)
<1>1. TypeOK /\ GrantsInTime /\ grants \in Seq(Grant)
  BY DEF ReadInv, IInv, TypeOK
<1>2. now' = now
  BY DEF Submit, environment
<1>3. PICK begin \in TransactionClock : grants' = Append(grants, NewGrant(begin))
  BY DEF Submit
<1>4. QED
  BY <1>1, <1>2, <1>3, AppendedGrant

LEMMA ResubmittedIsGranted ==
  ASSUME ReadInv, Resubmit
  PROVE  /\ GrantsInTime' /\ now' = now
         /\ \E begin \in TransactionClock : LastGrant' = NewGrant(begin)
<1>1. TypeOK /\ GrantsInTime /\ grants \in Seq(Grant)
  BY DEF ReadInv, IInv, TypeOK
<1>2. now' = now
  BY DEF Resubmit, environment
<1>3. PICK expected \in Expected, begin \in TransactionClock, r \in DOMAIN revisions :
        Supersede(begin)
  BY DEF Resubmit
<1>4. PICK i \in DOMAIN grants :
        grants' = Append([grants EXCEPT ![i] = [@ EXCEPT !.state = "revoked"]], NewGrant(begin))
  BY <1>3 DEF Supersede
<1> DEFINE old == [grants EXCEPT ![i] = [@ EXCEPT !.state = "revoked"]]
<1>5. DOMAIN grants = 1..Len(grants) /\ \A j \in DOMAIN grants : grants[j] \in Grant
  BY <1>1, Domains, ElementOfSeq
<1>6. /\ old \in Seq(Grant) /\ Len(old) = Len(grants)
      /\ \A j \in DOMAIN grants : old[j].from = grants[j].from
                                 /\ old[j].expires = grants[j].expires
  <2>1. grants[i] \in Grant /\ [grants[i] EXCEPT !.state = "revoked"] \in Grant
    BY <1>4, <1>5 DEF Grant
  <2>2. old \in Seq(Grant) /\ Len(old) = Len(grants)
    BY <1>1, <1>4, <1>5, <2>1, ExceptSeq
  <2>3. \A j \in DOMAIN grants :
          old[j] = IF j = i THEN [grants[i] EXCEPT !.state = "revoked"] ELSE grants[j]
    BY <1>4
  <2>4. QED
    BY <1>5, <2>1, <2>2, <2>3 DEF Grant
<1> HIDE DEF old
<1>7. grants' = Append(old, NewGrant(begin))
  BY <1>4 DEF old
<1>8. QED
  BY <1>1, <1>2, <1>6, <1>7, AppendedGrant

LEMMA Clock ==
  ASSUME Environment \/ UNCHANGED vars
  PROVE  now' \in {now, now + 1}
BY DEF Environment, Tick, ChangeStanding, ExtendDeadline, ChangePublicationState, vars,
       environment

LEMMA GrantsInTimeStep == ReadInv /\ [Next]_vars => GrantsInTime'
<1> SUFFICES ASSUME ReadInv, [Next]_vars PROVE GrantsInTime'
  OBVIOUS
<1>1. CASE Submit \/ Resubmit
  BY <1>1, SubmittedIsGranted, ResubmittedIsGranted
<1>2. CASE ~(Submit \/ Resubmit)
  <2>1. UNCHANGED grants /\ (now' = now \/ now' = now + 1)
    <3>1. CASE Create \/ Patch \/ SubmitClarification \/ StartRevision
      <4>1. CASE Create
        BY <4>1 DEF Create, environment
      <4>2. CASE Patch
        BY <4>2 DEF Patch, environment
      <4>3. CASE SubmitClarification
        BY <4>3 DEF SubmitClarification, environment
      <4>4. CASE StartRevision
        BY <4>4 DEF StartRevision, environment
      <4>5. QED
        BY <3>1, <4>1, <4>2, <4>3, <4>4
    <3>2. CASE Organization
      BY <3>2, OrganizationStep
    <3>3. CASE Environment \/ UNCHANGED vars
      BY <3>3, Clock, EnvironmentStep DEF ReadInv, IInv
    <3>4. QED
      BY <1>2, <3>1, <3>2, <3>3 DEF Next, Owner
  <2>2. now \in Nat /\ \A i \in DOMAIN grants : grants[i] \in Grant
    BY ProposalAssumption, Domains, ElementOfSeq DEF ReadInv, IInv, TypeOK, Times
  <2>3. \A i \in DOMAIN grants : grants[i].from \in Nat
    BY <2>2, ProposalAssumption DEF Grant, Times
  <2>4. QED
    BY <2>1, <2>2, <2>3 DEF ReadInv, GrantsInTime
<1>3. QED
  BY <1>1, <1>2

LEMMA ReadInvariance == Spec => []ReadInv
<1>1. Init => GrantsInTime
  BY DEF Init, GrantsInTime
<1>2. QED
  BY <1>1, GrantsInTimeStep, Invariance, PTL DEF Spec, ReadInv

\* No transaction that still runs began before the last grant ran out.
Lapsed == LastGrant.expires <= now - MaxWait

LastGrantReads ==
  IF state \in Unsubmitted \/ Lapsed THEN {} ELSE {versions[LastGrant.version].content}

LEMMA ReadsGranted == ReadInv => OrganizationReads = LastGrantReads
<1> SUFFICES ASSUME ReadInv PROVE OrganizationReads = LastGrantReads
  OBVIOUS
<1> DEFINE Shown == {j \in DOMAIN grants : /\ grants[j].version \in Locked
                                          /\ \E begin \in TransactionClock :
                                               InForce(grants[j], begin)}
<1>1. TypeOK /\ GrantsInTime /\ IInv /\ Active \subseteq DOMAIN grants
  BY DEF ReadInv, IInv, Active
<1>2. Shown \subseteq Active
  BY DEF InForce, Active
<1>3. CASE state \in Unsubmitted
  <2>1. Active = {}
    BY <1>1, <1>3, OneLiveGrant
  <2>2. QED
    BY <1>2, <1>3, <2>1 DEF OrganizationReads, LastGrantReads
<1>4. CASE state \notin Unsubmitted
  <2>1. Active = {Len(grants)} /\ Len(grants) \in DOMAIN grants
    BY <1>1, <1>4, OneLiveGrant
  <2>2. LastGrant.version \in Locked
    BY <1>1, <1>4 DEF IInv, GrantedVersion, Locked
  <2>3. /\ LastGrant.state = "active" /\ LastGrant \in Grant
        /\ LastGrant.from <= now /\ LastGrant.from < LastGrant.expires
    <3>1. /\ grants[Len(grants)].state = "active"
          /\ grants[Len(grants)].from <= now
          /\ grants[Len(grants)].from < grants[Len(grants)].expires
      BY <1>1, <2>1 DEF Active, GrantsInTime
    <3>2. grants[Len(grants)] \in Grant
      BY <1>1, <2>1, Domains, ElementOfSeq DEF TypeOK
    <3>3. QED
      BY <3>1, <3>2 DEF LastGrant
  <2>4. /\ now \in Nat /\ now <= MaxTime /\ MaxWait \in Nat /\ MaxTime \in Nat
        /\ LastGrant.from \in Nat /\ LastGrant.expires \in Nat
    BY <1>1, <2>3, ProposalAssumption DEF TypeOK, Times, Grant
  <2>5. (\E begin \in TransactionClock : InForce(LastGrant, begin)) <=> ~Lapsed
    <3>1. ASSUME NEW begin \in TransactionClock, InForce(LastGrant, begin)
          PROVE  ~Lapsed
      BY <2>4, <3>1 DEF InForce, TransactionClock, Times, Lapsed
    <3>2. ASSUME ~Lapsed
          PROVE  \E begin \in TransactionClock : InForce(LastGrant, begin)
      <4>1. CASE LastGrant.from >= now - MaxWait
        <5>1. LastGrant.from \in TransactionClock /\ InForce(LastGrant, LastGrant.from)
          BY <2>3, <2>4, <4>1 DEF TransactionClock, Times, InForce
        <5>2. QED
          BY <5>1
      <4>2. CASE LastGrant.from < now - MaxWait
        <5>1. now - MaxWait \in TransactionClock /\ InForce(LastGrant, now - MaxWait)
          BY <2>3, <2>4, <3>2, <4>2 DEF TransactionClock, Times, InForce, Lapsed
        <5>2. QED
          BY <5>1
      <4>3. QED
        BY <2>4, <4>1, <4>2
    <3>3. QED
      BY <3>1, <3>2
  <2>6. Shown = IF Lapsed THEN {} ELSE {Len(grants)}
    BY <1>2, <2>1, <2>2, <2>5 DEF LastGrant
  <2>7. OrganizationReads = {versions[grants[i].version].content : i \in Shown}
    BY DEF OrganizationReads
  <2>8. QED
    BY <1>4, <2>6, <2>7 DEF LastGrantReads, LastGrant
<1>5. QED
  BY <1>3, <1>4

LEMMA ReadsGrantedNext == (ReadInv => OrganizationReads = LastGrantReads)'
  BY ReadsGranted, PTL

\* A step that leaves the grants and the versions they are for alone shows nothing new:
\* the content stays, or its grant runs out.
LEMMA ReadsKept ==
  ASSUME ReadInv, ReadInv', UNCHANGED grants, now' \in {now, now + 1},
         \A v \in DOMAIN versions : versions'[v] = versions[v],
         state \in Unsubmitted <=> state' \in Unsubmitted
  PROVE  /\ OrganizationReads' \in {OrganizationReads, {}}
         /\ now' = now => OrganizationReads' = OrganizationReads
<1>1. OrganizationReads = LastGrantReads /\ OrganizationReads' = LastGrantReads'
  BY ReadsGranted, ReadsGrantedNext
<1>2. CASE state \in Unsubmitted
  BY <1>1, <1>2 DEF LastGrantReads
<1>3. CASE state \notin Unsubmitted
  <2>1. LastGrant.version \in DOMAIN versions /\ LastGrant' = LastGrant
    BY <1>3 DEF ReadInv, IInv, GrantedVersion, LastGrant
  <2>2. now' = now => (Lapsed' <=> Lapsed)
    BY <2>1 DEF Lapsed
  <2>3. LastGrantReads' \in {{}, {versions[LastGrant.version].content}}
    BY <2>1 DEF LastGrantReads
  <2>4. Lapsed => Lapsed'
    <3>1. now \in Int /\ MaxWait \in Int /\ LastGrant.expires \in Int
      <4>1. TypeOK /\ IInv
        BY DEF ReadInv, IInv
      <4>2. Len(grants) \in DOMAIN grants
        BY <1>3, <4>1, OneLiveGrant DEF Active
      <4>3. LastGrant \in Grant
        BY <4>1, <4>2, Domains, ElementOfSeq DEF TypeOK, LastGrant
      <4>4. QED
        BY <4>1, <4>3, ProposalAssumption DEF TypeOK, Times, Grant
    <3>2. QED
      BY <2>1, <3>1 DEF Lapsed
  <2>5. QED
    BY <1>1, <1>3, <2>1, <2>2, <2>3, <2>4 DEF LastGrantReads
<1>4. QED
  BY <1>2, <1>3

LEMMA LifecycleInit == Init => Lifecycle!Init
  BY DEF Init, Lifecycle!Init, OrganizationReads

LEMMA LifecycleStep == ReadInv /\ ReadInv' /\ [Next]_vars => [Lifecycle!Next]_Lifecycle!vars
<1> SUFFICES ASSUME ReadInv, ReadInv', [Next]_vars PROVE [Lifecycle!Next]_Lifecycle!vars
  OBVIOUS
<1> USE DEF Lifecycle!Next, Lifecycle!vars
<1>0. /\ TypeOK /\ \A at \in ApiClock \cup TransactionClock : at \in Times
      /\ NextNumber \in Nat /\ lockVersion + 1 \in Nat
  BY Domains DEF ReadInv, IInv, TypeOK, ApiClock, TransactionClock, NextNumber
<1>1. IInv /\ IInv' /\ (state # "none" => versions[current].content \in Contents)
  BY <1>0, CurrentContent DEF ReadInv
<1>2. ASSUME NEW number \in Nat, NEW what \in Contents, NEW at \in Times,
             NEW lock \in {"unlocked", "submission", "resubmission"},
             InsertVersion(number, what, lock, at)
      PROVE  \A v \in DOMAIN versions : versions'[v] = versions[v]
  BY <1>0, <1>2, InsertedLock
<1>3. CASE Environment \/ UNCHANGED vars
  <2>1. UNCHANGED <<state, versions, grants>> /\ now' \in {now, now + 1}
    BY <1>0, <1>3, Clock, EnvironmentStep
  <2>2. OrganizationReads' \in {OrganizationReads, {}}
    BY <2>1, ReadsKept
  <2>3. QED
    BY <2>1, <2>2 DEF Lifecycle!Lapse
<1>4. CASE Create
  <2>1. PICK at \in ApiClock, what \in Contents : InsertVersion(1, what, "unlocked", at)
    BY <1>4 DEF Create
  <2>2. state = "none" /\ state' = "draft" /\ UNCHANGED <<now, grants>>
    BY <1>4 DEF Create, environment
  <2>3. OrganizationReads' = OrganizationReads
    BY <1>0, <1>2, <2>1, <2>2, ReadsKept DEF Unsubmitted
  <2>4. QED
    BY <2>2, <2>3 DEF Lifecycle!Open
<1>5. CASE Patch
  <2>1. PICK at \in ApiClock, what \in Contents :
          InsertVersion(NextNumber, what, "unlocked", at)
    BY <1>5 DEF Patch
  <2>2. UNCHANGED <<state, now, grants>>
    BY <1>5 DEF Patch, environment
  <2>3. OrganizationReads' = OrganizationReads
    BY <1>0, <1>2, <2>1, <2>2, ReadsKept
  <2>4. QED
    BY <2>2, <2>3
<1>6. ASSUME <<state, state'>> \in Lifecycle!HandingIn, Submit \/ Resubmit,
             NEW number \in Nat, NEW lock \in {"submission", "resubmission"}, NEW at \in Times,
             InsertVersion(number, versions[current].content, lock, at)
      PROVE  Lifecycle!HandIn
  <2>1. state # "none" /\ state' \notin Unsubmitted \cup {"revision_draft"}
    BY <1>6 DEF Lifecycle!HandingIn, Unsubmitted
  <2>2. Len(versions') = Len(versions) + 1
        /\ versions'[Len(versions) + 1].content = versions[current].content
    BY <1>0, <1>1, <1>6, <2>1, InsertedLock
  <2>3. LastGrant'.version = Len(versions')
    BY <1>1, <2>1 DEF IInv, GrantedVersion
  <2>4. ~Lapsed'
    <3>1. PICK begin \in TransactionClock : LastGrant' = NewGrant(begin)
      BY <1>6, SubmittedIsGranted, ResubmittedIsGranted
    <3>2. now' = now
      BY <1>6, SubmittedIsGranted, ResubmittedIsGranted
    <3>3. /\ now - MaxWait <= begin /\ LastGrant'.expires = begin + GrantDuration
          /\ now \in Nat /\ MaxWait \in Nat /\ begin \in Nat /\ GrantDuration \in Nat \ {0}
      BY <1>0, <3>1, ProposalAssumption DEF TransactionClock, NewGrant, TypeOK, Times
    <3>4. now' - MaxWait < LastGrant'.expires
      BY <3>2, <3>3
    <3>5. QED
      BY <3>2, <3>3, <3>4 DEF Lapsed
  <2>5. OrganizationReads' = {versions'[LastGrant'.version].content}
    BY <2>1, <2>4, ReadsGrantedNext DEF LastGrantReads
  <2>6. QED
    BY <1>1, <1>6, <2>1, <2>2, <2>3, <2>5 DEF Lifecycle!HandIn
<1>7. CASE Submit
  <2>1. PICK begin \in TransactionClock :
          InsertVersion(lockVersion + 1, versions[current].content, "submission", begin)
    BY <1>7 DEF Submit
  <2>2. <<state, state'>> \in Lifecycle!HandingIn
    BY <1>7 DEF Submit, Lifecycle!HandingIn
  <2>3. QED
    BY <1>0, <1>6, <1>7, <2>1, <2>2
<1>8. CASE Resubmit
  <2>1. PICK begin \in TransactionClock :
          InsertVersion(NextNumber, versions[current].content, "resubmission", begin)
    BY <1>8 DEF Resubmit
  <2>2. <<state, state'>> \in Lifecycle!HandingIn
    BY <1>8 DEF Resubmit, Lifecycle!HandingIn
  <2>3. QED
    BY <1>0, <1>6, <1>8, <2>1, <2>2
<1>9. CASE SubmitClarification
  <2>1. /\ state = "clarification_requested" /\ state' = "clarification_submitted"
        /\ UNCHANGED <<versions, grants, now>>
    BY <1>9 DEF SubmitClarification, content, environment
  <2>2. OrganizationReads' = OrganizationReads
    BY <2>1, ReadsKept DEF Unsubmitted
  <2>3. QED
    BY <2>1, <2>2 DEF Lifecycle!Answer, Lifecycle!OwnerMoves
<1>10. CASE StartRevision
  <2>1. PICK at \in ApiClock :
          InsertVersion(NextNumber, versions[current].content, "unlocked", at)
    BY <1>10 DEF StartRevision
  <2>2. /\ state = "revision_requested" /\ state' = "revision_draft"
        /\ UNCHANGED <<now, grants>>
    BY <1>10 DEF StartRevision, environment
  <2>3. OrganizationReads' = OrganizationReads
    BY <1>0, <1>1, <1>2, <2>1, <2>2, ReadsKept DEF Unsubmitted
  <2>4. QED
    BY <2>2, <2>3 DEF Lifecycle!Answer, Lifecycle!OwnerMoves
<1>11. CASE Organization
  <2>1. OrganizationReads' = OrganizationReads
    BY <1>11, OrganizationStep, ReadsKept
  <2>2. <<state, state'>> \in Lifecycle!OrganizationMoves
    <3>1. CASE StartEligibilityReview
      BY <3>1 DEF StartEligibilityReview, OrganizationTransition, Lifecycle!OrganizationMoves
    <3>2. CASE DecideEligibility
      BY <3>2 DEF DecideEligibility, OrganizationTransition, Lifecycle!OrganizationMoves
    <3>3. CASE RequestClarification
      BY <3>3 DEF RequestClarification, OrganizationTransition, Lifecycle!OrganizationMoves
    <3>4. CASE ResolveClarification
      BY <3>4 DEF ResolveClarification, OrganizationTransition, Lifecycle!OrganizationMoves
    <3>5. CASE RequestRevision
      BY <3>5 DEF RequestRevision, OrganizationTransition, Lifecycle!OrganizationMoves
    <3>6. QED
      BY <1>11, <3>1, <3>2, <3>3, <3>4, <3>5 DEF Organization
  <2>3. OrganizationReads # {}
    <3>1. PICK begin \in TransactionClock : Granted(begin)
      BY <1>11 DEF Organization, StartEligibilityReview, DecideEligibility, RequestClarification,
                   ResolveClarification, RequestRevision, OrganizationTransition
    <3>2. PICK i \in DOMAIN grants : InForce(grants[i], begin)
      BY <3>1 DEF Granted
    <3>3. state \notin Unsubmitted /\ i = Len(grants)
      BY <1>1, <1>11, <3>2, OneLiveGrant, OrganizationStep DEF InForce, Active
    <3>4. grants[i].version \in Locked
      BY <1>1, <3>3 DEF IInv, GrantedVersion, LastGrant, Locked
    <3>5. versions[grants[i].version].content \in OrganizationReads
      BY <3>2, <3>4 DEF OrganizationReads
    <3>6. QED
      BY <3>5
  <2>4. QED
    BY <2>1, <2>2, <2>3 DEF Lifecycle!Review
<1>12. QED
  BY <1>3, <1>4, <1>5, <1>7, <1>8, <1>9, <1>10, <1>11 DEF Next, Owner

(***************************************************************************)
(* The commands implement the canonical lifecycle: the state moves along   *)
(* it, the organization sees a new content only when one is handed in,     *)
(* whatever drafts, questions and revisions come in between, loses it only *)
(* when its grant runs out, and moves a proposal on only while it can read *)
(* it, for any wait of its transactions.                                   *)
(***************************************************************************)
THEOREM ImplementsLifecycle == Spec => FollowsLifecycle
  BY LifecycleInit, LifecycleStep, ReadInvariance, PTL DEF Spec, FollowsLifecycle, Lifecycle!Spec

-----------------------------------------------------------------------------
(***************************************************************************)
(* The editors of the browser, for any tabs and any bounds.  Both rest on  *)
(* what is known of the requests: a key stands for one command, and what   *)
(* was answered is what the server has.                                    *)
(***************************************************************************)

AnswerRows ==
  [code : {"waiting", "ok", "closed", "CONFLICT", "INVALID_STATE", "NO_ACCESS", "STORAGE"},
   version : Nat, text : Texts]

RequestRows ==
  [tab : Tabs, op : {"load", "reread", "patch", "submit"}, who : {"page", "gateway", "nobody"},
   key : Nat, expected : Nat, text : Texts, answer : AnswerRows]

SaveRows == [expected : Nat, text : Texts, key : Nat]
SubmissionRows == [expected : Nat, key : Nat]

DraftTypeOK ==
  /\ history \in Seq(Texts) /\ Len(history) >= 1
  /\ handed \in Texts \cup {Nothing}
  /\ keys \in Nat /\ changes \in 0 .. MaxChanges
  /\ DOMAIN stored \subseteq 1 .. keys
  /\ stored \in [DOMAIN stored -> 1 .. Len(history)]
  /\ calls \subseteq RequestRows

TabRows ==
  [page : {"closed", "loading", "open"}, shown : Texts,
   status : {"idle", "dirty", "saving", "saved", "error"}, timer : BOOLEAN,
   cached : Nat, pending : SUBSET SaveRows]

FormRows ==
  [page : {"closed", "loading", "open", "done"}, draft : Texts, saved : Texts, version : Nat,
   busy : {"no", "save", "send"}, wanted : Texts, attached : Texts,
   pendingSave : SaveRows \cup {Nothing}, pendingSubmit : SubmissionRows \cup {Nothing},
   uncertain : BOOLEAN]

\* What a request, a kept save and a kept submission ask of the server.
Command(op, key, expected, text) ==
  [op |-> op, key |-> key, expected |-> expected, text |-> text]

Sent == {Command(c.op, c.key, c.expected, c.text) : c \in {d \in calls : d.op \in Writes}}

KeptSaves ==
  {Command("patch", p.key, p.expected, p.text) : p \in UNION {tab[t].pending : t \in Tabs}}

KeptBy(r) ==
  (IF r.pendingSave = Nothing THEN {}
   ELSE {Command("patch", r.pendingSave.key, r.pendingSave.expected, r.pendingSave.text)})
  \cup
  (IF r.pendingSubmit = Nothing THEN {}
   ELSE {Command("submit", r.pendingSubmit.key, r.pendingSubmit.expected, {})})

KeptCommands == UNION {KeptBy(form[t]) : t \in Tabs}

\* The server did what the command asks.
Done(h, texts, final, made) ==
  IF h.op = "patch" THEN texts[made[h.key]] = h.text
  ELSE /\ final # Nothing
       /\ h.expected \in 1 .. Len(texts) /\ final = texts[h.expected]

\* A key was made for one command, and is remembered only for what it did.
Keyed(H, n, texts, final, made) ==
  /\ \A h \in H : h.key \in 1 .. n
  /\ \A g, h \in H : g.key = h.key => g = h
  /\ \A h \in H : h.key \in DOMAIN made => Done(h, texts, final, made)

\* What was answered is so: a read returned a version, a write made one.
Truthful(c, texts, made) ==
  c.answer.code = "ok" =>
    IF c.op \in Writes
    THEN c.key \in DOMAIN made /\ c.answer.version = made[c.key]
    ELSE c.answer.version \in 1 .. Len(texts) /\ c.answer.text = texts[c.answer.version]

\* A page awaits one answer at a time.
OneAwaited ==
  \A c, d \in calls : c.tab = d.tab /\ c.who = "page" /\ d.who = "page" => c = d

RequestsOK == DraftTypeOK /\ OneAwaited /\ \A c \in calls : Truthful(c, history, stored)

\* The challenge page takes an answer for the end of a save only if nothing else
\* was typed since, and a timer sees to what was.
AwaitedByTab(c, r) ==
  \/ c.op = "load" /\ r.page = "loading"
  \/ c.op \in {"patch", "reread"} /\ r.page = "open" /\ (r.timer <=> r.shown # c.text)

\* What a challenge page says of itself, as it awaits an answer or not.
Settled(r, asked) ==
  IF r.page = "open"
  THEN \/ r.status = "saved" /\ ~ r.timer /\ ~ asked
       \/ r.status = "dirty" /\ r.timer
       \/ r.status = "saving" /\ ~ r.timer /\ asked
       \/ r.status = "error" /\ ~ r.timer /\ ~ asked
  ELSE r.status = "idle" /\ ~ r.timer

Awaiting(t) == \E c \in calls : Awaits(t, c)

\* Nothing that is on a page, on its way or in a version is still to be typed.
TextsMade ==
  /\ \A t \in Tabs : tab[t].shown \subseteq 1 .. changes
  /\ \A c \in calls : c.text \subseteq 1 .. changes
  /\ \A text \in Range(history) : text \subseteq 1 .. changes

ChallengeInv ==
  /\ RequestsOK
  /\ tab \in [Tabs -> TabRows]
  /\ Keyed(Sent \cup KeptSaves, keys, history, handed, stored)
  /\ \A c \in calls : c.op = "reread" => c.text \in Range(history)
  /\ \A c \in calls : c.who = "page" => AwaitedByTab(c, tab[c.tab])
  /\ SavedIsStored
  /\ \A t \in Tabs : Settled(tab[t], Awaiting(t))

-----------------------------------------------------------------------------

\* A save expects a version its writer has seen, and holds all of it.
Seen(H, texts) ==
  \A h \in H : h.op = "patch" => /\ h.expected \in 1 .. Len(texts)
                                 /\ texts[h.expected] \subseteq h.text

AwaitedByForm(c, r) ==
  \/ c.op = "load" /\ r.page = "loading"
  \/ c.op = "reread" /\ r.page = "open" /\ r.busy = "save" /\ r.pendingSubmit = Nothing
  \/ /\ c.op = "patch" /\ r.page = "open" /\ r.busy # "no" /\ r.pendingSubmit = Nothing
     /\ r.pendingSave = [expected |-> c.expected, text |-> c.text, key |-> c.key]
     /\ c.text \subseteq r.wanted
  \/ /\ c.op = "submit" /\ r.page = "open" /\ r.busy = "send" /\ c.text = {}
     /\ r.pendingSubmit = [expected |-> c.expected, key |-> c.key]

\* What a form holds: all it saved, all it sends again, and, once it is to be
\* handed in, nothing typed that is not in the version it hands in.
FormOK(r, texts, final) ==
  /\ r.page = "closed" => r = NewForm
  /\ r.page = "loading" => r = [NewForm EXCEPT !.page = "loading"]
  /\ r.page \in {"open", "done"} =>
       /\ r.version \in 1 .. Len(texts) /\ r.saved = texts[r.version]
       /\ r.saved \subseteq r.draft /\ r.wanted \subseteq r.draft
  /\ r.busy # "no" => r.page = "open"
  /\ r.busy = "send" => r.wanted = r.draft
  /\ r.pendingSave # Nothing => r.pendingSave.text \subseteq r.draft
  /\ r.pendingSubmit # Nothing =>
       /\ r.busy = "send" \/ r.uncertain
       /\ r.pendingSubmit.expected \in 1 .. Len(texts)
       /\ r.draft \ r.attached \subseteq texts[r.pendingSubmit.expected]
       /\ texts[r.pendingSubmit.expected] \subseteq r.draft
  /\ r.page = "done" =>
       final \in Texts /\ r.draft \ r.attached \subseteq final /\ final \subseteq r.draft

ProposalInv ==
  /\ RequestsOK
  /\ form \in [Tabs -> FormRows]
  /\ \A c \in calls : c.who # "gateway"
  /\ Keyed(Sent \cup KeptCommands, keys, history, handed, stored)
  /\ Seen(Sent \cup KeptCommands, history)
  /\ \A t \in Tabs : FormOK(form[t], history, handed)
  /\ \A c \in calls : c.who = "page" => AwaitedByForm(c, form[c.tab])
  /\ CommandsAreAwaited

EditorsInv ==
  \/ desk = "challenge" /\ ChallengeInv /\ TextsMade /\ form = [t \in Tabs |-> NewForm]
  \/ desk = "proposal" /\ ProposalInv /\ tab = [t \in Tabs |-> NewTab]

-----------------------------------------------------------------------------
(***************************************************************************)
(* What a step of the server does to what is known of the requests.        *)
(***************************************************************************)

\* The same request, whatever its answer.
SameRequest(c, d) ==
  /\ d.tab = c.tab /\ d.op = c.op /\ d.who = c.who
  /\ d.key = c.key /\ d.expected = c.expected /\ d.text = c.text

\* No version is changed, no key forgotten, and what was handed in stays so.
ServerGrows ==
  /\ Len(history') >= Len(history)
  /\ \A i \in 1 .. Len(history) : history'[i] = history[i]
  /\ \A k \in DOMAIN stored : k \in DOMAIN stored' /\ stored'[k] = stored[k]
  /\ handed # Nothing => handed' = handed /\ history' = history

LEMMA RequestAnswered ==
  ASSUME NEW c \in RequestRows, NEW a \in AnswerRows
  PROVE  LET d == [c EXCEPT !.answer = a]
         IN  d \in RequestRows /\ SameRequest(c, d) /\ d.answer = a
  BY DEF RequestRows, SameRequest

LEMMA AnswerTyped ==
  ASSUME NEW n \in Nat, NEW text \in Texts,
         NEW code \in {"waiting", "ok", "closed", "CONFLICT", "INVALID_STATE", "NO_ACCESS", "STORAGE"}
  PROVE  /\ Answer(code, n, text) \in AnswerRows
         /\ Answer(code, n, text).code = code
         /\ Answer(code, n, text).version = n
         /\ Answer(code, n, text).text = text
  BY DEF Answer, AnswerRows

LEMMA NoText == {} \in Texts
  BY DEF Texts

LEMMA LatestText ==
  ASSUME DraftTypeOK
  PROVE  Latest \in 1 .. Len(history) /\ history[Latest] \in Texts /\ Latest + 1 \in Nat
         /\ \A i \in 1 .. Len(history) : history[i] \in Texts
  BY DEF DraftTypeOK, Latest

LEMMA RefusalTyped ==
  ASSUME NEW code \in {"waiting", "CONFLICT", "INVALID_STATE", "NO_ACCESS", "STORAGE"}
  PROVE  Refusal(code) \in AnswerRows /\ Refusal(code).code = code
  BY AnswerTyped, NoText DEF Refusal

\* A command that is carried out makes the next version, under its key.
LEMMA WriteGrows ==
  ASSUME DraftTypeOK, NEW c \in calls, c.key \in 1 .. keys, Write(c)
  PROVE  /\ history' \in Seq(Texts) /\ Len(history') = Latest + 1
         /\ handed' \in Texts \cup {Nothing}
         /\ DOMAIN stored' = DOMAIN stored \cup {c.key}
         /\ stored' \in [DOMAIN stored' -> 1 .. Len(history')]
         /\ stored'[c.key] = Latest + 1
         /\ history'[Latest + 1] = IF c.op = "patch" THEN c.text ELSE history[Latest]
         /\ ServerGrows
<1>1. c \in RequestRows /\ c.text \in Texts /\ history \in Seq(Texts) /\ Latest = Len(history)
  BY DEF DraftTypeOK, RequestRows, Latest
<1>2. PICK e \in Texts : e = IF c.op = "patch" THEN c.text ELSE history[Latest]
  BY <1>1, LatestText
<1>3. history' = Append(history, e)
  BY <1>2 DEF Write
<1>4. /\ history' \in Seq(Texts) /\ Len(history') = Latest + 1
      /\ history'[Latest + 1] = e
      /\ \A i \in 1 .. Len(history) : history'[i] = history[i]
  BY <1>1, <1>3, AppendRow
<1>5. handed' \in Texts \cup {Nothing} /\ handed = Nothing
  BY LatestText DEF Write, DraftTypeOK
<1>6. /\ stored' = [k \in DOMAIN stored \cup {c.key} |->
                      IF k = c.key THEN Latest + 1 ELSE stored[k]]
      /\ c.key \notin DOMAIN stored
  BY DEF Write
<1>7. /\ DOMAIN stored' = DOMAIN stored \cup {c.key}
      /\ stored'[c.key] = Latest + 1
      /\ \A k \in DOMAIN stored : k \in DOMAIN stored' /\ stored'[k] = stored[k]
  BY <1>6
<1>8. Latest \in Nat /\ \A k \in DOMAIN stored : stored[k] \in 1 .. Latest
  BY <1>1, LatestText DEF DraftTypeOK
<1>9. stored' \in [DOMAIN stored' -> 1 .. Len(history')]
  <2>1. \A k \in DOMAIN stored \cup {c.key} :
          (IF k = c.key THEN Latest + 1 ELSE stored[k]) \in 1 .. (Latest + 1)
    BY <1>8
  <2>2. QED
    BY <2>1, <1>6, <1>4
<1>10. QED
  BY <1>1, <1>2, <1>4, <1>5, <1>7, <1>8, <1>9 DEF ServerGrows

LEMMA ServerStep ==
  ASSUME RequestsOK, ServerNext, \A c \in calls : c.op \in Writes => c.key \in 1 .. keys
  PROVE  /\ RequestsOK'
         /\ ServerGrows /\ keys' = keys
         /\ \A d \in calls' : \E c \in calls : SameRequest(c, d)
         /\ \A c \in calls : c.who = "page" => \E d \in calls' : SameRequest(c, d)
<1>1. DraftTypeOK /\ OneAwaited /\ (\A c \in calls : Truthful(c, history, stored))
  BY DEF RequestsOK
<1>2. PICK c \in calls : Handle(c) \/ TurnAway(c)
  BY DEF ServerNext
<1>3. c \in RequestRows /\ keys' = keys /\ changes' = changes
  BY <1>1, <1>2 DEF DraftTypeOK, Handle, TurnAway
\* the type of what the server keeps, and what the answer says of it
<1>4. /\ history' \in Seq(Texts) /\ Len(history') >= 1
      /\ handed' \in Texts \cup {Nothing}
      /\ DOMAIN stored' \subseteq 1 .. keys
      /\ stored' \in [DOMAIN stored' -> 1 .. Len(history')]
      /\ ServerGrows
      /\ \E a \in AnswerRows :
           /\ Answered(c, a)
           /\ Truthful([c EXCEPT !.answer = a], history', stored')
  <2> DEFINE Says(a) ==
        a.code = "ok" =>
          IF c.op \in Writes
          THEN c.key \in DOMAIN stored' /\ a.version = stored'[c.key]
          ELSE a.version \in 1 .. Len(history') /\ a.text = history'[a.version]
  <2> SUFFICES /\ history' \in Seq(Texts) /\ Len(history') >= 1
               /\ handed' \in Texts \cup {Nothing}
               /\ DOMAIN stored' \subseteq 1 .. keys
               /\ stored' \in [DOMAIN stored' -> 1 .. Len(history')]
               /\ ServerGrows
               /\ \E a \in AnswerRows : Answered(c, a) /\ Says(a)
    BY <1>3, RequestAnswered DEF Truthful, SameRequest
  <2>1. ASSUME UNCHANGED server, NEW a \in AnswerRows, Answered(c, a), Says(a)
        PROVE  /\ history' \in Seq(Texts) /\ Len(history') >= 1
               /\ handed' \in Texts \cup {Nothing}
               /\ DOMAIN stored' \subseteq 1 .. keys
               /\ stored' \in [DOMAIN stored' -> 1 .. Len(history')]
               /\ ServerGrows
               /\ \E b \in AnswerRows : Answered(c, b) /\ Says(b)
    BY <2>1, <1>1 DEF server, DraftTypeOK, ServerGrows
  <2>2. CASE Read(c)
    <3>1. PICK code \in {"ok", "closed"} : Answered(c, Answer(code, Latest, history[Latest]))
      BY <2>2 DEF Read
    <3> DEFINE a == Answer(code, Latest, history[Latest])
    <3>2. /\ a \in AnswerRows /\ a.version = Latest /\ a.text = history[Latest]
          /\ Latest \in 1 .. Len(history)
      BY <1>1, LatestText, AnswerTyped
    <3>3. Answered(c, a)
      BY <3>1
    <3> HIDE DEF a
    <3>4. Says(a)
      BY <2>2, <3>2 DEF Read, server
    <3>5. QED
      BY <2>1, <2>2, <3>2, <3>3, <3>4 DEF Read
  <2>3. CASE Replay(c)
    <3> DEFINE a == Answer("ok", stored[c.key], {})
    <3>1. c.key \in DOMAIN stored /\ stored[c.key] \in Nat
      BY <2>3, <1>1 DEF Replay, DraftTypeOK
    <3>2. a \in AnswerRows /\ a.version = stored[c.key]
      BY <3>1, AnswerTyped, NoText
    <3>3. Answered(c, a)
      BY <2>3 DEF Replay
    <3> HIDE DEF a
    <3>4. Says(a)
      BY <2>3, <3>1, <3>2 DEF Replay, server
    <3>5. QED
      BY <2>1, <2>3, <3>2, <3>3, <3>4 DEF Replay
  <2>4. CASE Reject(c) \/ TurnAway(c)
    <3>1. PICK code \in {"CONFLICT", "INVALID_STATE", "NO_ACCESS"} : Answered(c, Refusal(code))
      BY <2>4 DEF Reject, TurnAway
    <3>2. Refusal(code) \in AnswerRows /\ Refusal(code).code # "ok"
      BY RefusalTyped
    <3>3. UNCHANGED server
      BY <2>4 DEF Reject, TurnAway
    <3>4. QED
      BY <2>1, <3>1, <3>2, <3>3
  <2>5. CASE Write(c)
    <3> DEFINE a == Answer("ok", Latest + 1, {})
    <3>1. c.op \in Writes /\ c.key \in 1 .. keys
      BY <2>5 DEF Write
    <3>2. a \in AnswerRows /\ a.version = Latest + 1
      BY <1>1, LatestText, AnswerTyped, NoText
    <3>3. Answered(c, a)
      BY <2>5 DEF Write
    <3> HIDE DEF a
    <3>4. Says(a)
      BY <2>5, <1>1, <3>1, <3>2, WriteGrows
    <3>5. DOMAIN stored' = DOMAIN stored \cup {c.key} /\ Len(history') = Latest + 1
      BY <2>5, <1>1, <3>1, WriteGrows
    <3>6. Len(history) \in Nat /\ Latest \in 1 .. Len(history) /\ DOMAIN stored \subseteq 1 .. keys
      BY <1>1, LatestText DEF DraftTypeOK
    <3>7. Len(history') >= 1
      BY <3>5, <3>6
    <3>8. DOMAIN stored' \subseteq 1 .. keys
      BY <3>1, <3>5, <3>6
    <3>9. QED
      BY <2>5, <1>1, <3>1, <3>2, <3>3, <3>4, <3>7, <3>8, WriteGrows
  <2>6. QED
    BY <1>2, <2>2, <2>3, <2>4, <2>5 DEF Handle
<1>5. PICK a \in AnswerRows :
        Answered(c, a) /\ Truthful([c EXCEPT !.answer = a], history', stored')
  BY <1>4
<1> DEFINE new == [c EXCEPT !.answer = a]
<1>6. new \in RequestRows /\ SameRequest(c, new) /\ Truthful(new, history', stored')
  BY <1>3, <1>5, RequestAnswered
<1>7. calls' = (calls \ {c}) \cup IF c.who = "nobody" THEN {} ELSE {new}
  BY <1>5 DEF Answered
<1> HIDE DEF new
<1>8. calls' \subseteq RequestRows
  BY <1>1, <1>6, <1>7 DEF DraftTypeOK
<1>9. DraftTypeOK'
  BY <1>1, <1>3, <1>4, <1>8 DEF DraftTypeOK
<1>10. \A d \in calls' : Truthful(d, history', stored')
  <2>1. ASSUME NEW d \in calls PROVE Truthful(d, history', stored')
    BY <2>1, <1>1, <1>4 DEF Truthful, ServerGrows, DraftTypeOK
  <2>2. QED
    BY <2>1, <1>6, <1>7
<1>11. OneAwaited'
  BY <1>1, <1>6, <1>7 DEF OneAwaited, SameRequest
<1>12. QED
  BY <1>3, <1>4, <1>6, <1>7, <1>9, <1>10, <1>11 DEF RequestsOK, SameRequest

LEMMA SentIn ==
  ASSUME NEW c \in calls, c.op \in Writes
  PROVE  Command(c.op, c.key, c.expected, c.text) \in Sent
  BY DEF Sent

LEMMA SentAfterServer ==
  ASSUME \A d \in calls' : \E c \in calls : SameRequest(c, d)
  PROVE  Sent' \subseteq Sent
<1>1. SUFFICES ASSUME NEW d \in calls', d.op \in Writes
               PROVE  Command(d.op, d.key, d.expected, d.text) \in Sent
  BY DEF Sent
<1>2. PICK c \in calls : SameRequest(c, d)
  OBVIOUS
<1>3. QED
  BY <1>1, <1>2, SentIn DEF SameRequest

LEMMA KeyedSubset ==
  ASSUME NEW H, NEW G, NEW n, NEW texts, NEW final, NEW made,
         Keyed(H, n, texts, final, made), G \subseteq H
  PROVE  Keyed(G, n, texts, final, made)
  BY DEF Keyed

\* A command under a key that was not made before.
LEMMA KeyedWithNew ==
  ASSUME NEW H, NEW G, NEW n \in Nat, NEW texts, NEW final, NEW made,
         Keyed(H, n, texts, final, made), DOMAIN made \subseteq 1 .. n,
         NEW h, h.key = n + 1, G \subseteq H \cup {h}
  PROVE  Keyed(G, n + 1, texts, final, made)
  BY DEF Keyed

\* What a command asked stays done, and a command that shares its key is itself.
LEMMA StillDone ==
  ASSUME DraftTypeOK, ServerNext, NEW h,
         \A c \in calls : c.op \in Writes => c.key \in 1 .. keys,
         \A c \in calls : c.op \in Writes /\ c.key = h.key
                            => h = Command(c.op, c.key, c.expected, c.text),
         h.key \in DOMAIN stored => Done(h, history, handed, stored)
  PROVE  h.key \in DOMAIN stored' => Done(h, history', handed', stored')
<1>1. PICK c \in calls : Handle(c) \/ TurnAway(c)
  BY DEF ServerNext
<1>2. CASE UNCHANGED server
  BY <1>2 DEF server, Done
<1>3. CASE Write(c)
  <2>1. c.op \in Writes /\ c.key \in 1 .. keys /\ handed = Nothing /\ c.expected = Latest
    BY <1>3 DEF Write, Current
  <2>2. Latest \in 1 .. Len(history) /\ history[Latest] \in Texts /\ history[Latest] # Nothing
    BY LatestText, DraftAssumption
  <2>3. /\ DOMAIN stored' = DOMAIN stored \cup {c.key}
        /\ stored'[c.key] = Latest + 1
        /\ history'[Latest + 1] = IF c.op = "patch" THEN c.text ELSE history[Latest]
        /\ ServerGrows
    BY <1>3, <2>1, WriteGrows
  <2>4. ASSUME h.key = c.key PROVE Done(h, history', handed', stored')
    <3>1. h.op = c.op /\ h.expected = Latest /\ h.text = c.text
      BY <2>1, <2>4 DEF Command
    <3>2. CASE c.op = "patch"
      BY <2>3, <2>4, <3>1, <3>2 DEF Done
    <3>3. CASE c.op # "patch"
      <4>1. handed' = history[Latest]
        BY <1>3, <2>1, <3>3 DEF Write, Writes
      <4>2. Len(history') = Latest + 1
        BY <1>3, <2>1, WriteGrows
      <4>3. h.expected \in 1 .. Len(history') /\ history'[h.expected] = history[Latest]
        BY <2>2, <2>3, <3>1, <4>2 DEF ServerGrows
      <4>4. QED
        BY <2>2, <3>1, <3>3, <4>1, <4>3 DEF Done
    <3>4. QED
      BY <3>2, <3>3
  <2>5. ASSUME h.key \in DOMAIN stored PROVE Done(h, history', handed', stored')
    <3>1. Done(h, history, handed, stored) /\ stored[h.key] \in 1 .. Len(history)
      BY <2>5 DEF DraftTypeOK
    <3>2. h.op = "patch" /\ history[stored[h.key]] = h.text
      BY <2>1, <3>1 DEF Done
    <3>3. QED
      BY <2>3, <2>5, <3>1, <3>2 DEF Done, ServerGrows
  <2>6. QED
    BY <2>3, <2>4, <2>5
<1>4. QED
  BY <1>1, <1>2, <1>3 DEF Handle, TurnAway, Read, Replay, Reject

LEMMA KeyedAfterServer ==
  ASSUME DraftTypeOK, ServerNext, NEW H, Sent \subseteq H,
         Keyed(H, keys, history, handed, stored)
  PROVE  Keyed(H, keys, history', handed', stored')
<1>1. \A c \in calls : c.op \in Writes => Command(c.op, c.key, c.expected, c.text) \in H
  BY SentIn
<1>2. \A c \in calls : c.op \in Writes => c.key \in 1 .. keys
  BY <1>1 DEF Keyed, Command
<1>3. ASSUME NEW h \in H, h.key \in DOMAIN stored'
      PROVE  Done(h, history', handed', stored')
  <2>1. \A c \in calls : c.op \in Writes /\ c.key = h.key
                           => h = Command(c.op, c.key, c.expected, c.text)
    BY <1>1 DEF Keyed, Command
  <2>2. h.key \in DOMAIN stored => Done(h, history, handed, stored)
    BY DEF Keyed
  <2>3. QED
    BY <1>2, <1>3, <2>1, <2>2, StillDone
<1>4. QED
  BY <1>3 DEF Keyed

\* A step of the server keeps what an editor relies on, for all it keeps.
LEMMA EditorsServerStep ==
  ASSUME RequestsOK, ServerNext, NEW H, Sent \subseteq H,
         Keyed(H, keys, history, handed, stored)
  PROVE  /\ RequestsOK' /\ ServerGrows /\ keys' = keys
         /\ Keyed(H, keys', history', handed', stored')
         /\ Sent' \subseteq Sent
         /\ \A d \in calls' : \E c \in calls : SameRequest(c, d)
         /\ \A c \in calls : c.who = "page" => \E d \in calls' : SameRequest(c, d)
<1>1. DraftTypeOK
  BY DEF RequestsOK
<1>2. \A c \in calls : c.op \in Writes => c.key \in 1 .. keys
  BY SentIn DEF Keyed, Command
<1>3. QED
  BY <1>1, <1>2, ServerStep, KeyedAfterServer, SentAfterServer

-----------------------------------------------------------------------------
(***************************************************************************)
(* What a step of a page does to it.                                       *)
(***************************************************************************)

\* A request that goes on without the page that asked.
Released(d) == \E c \in calls : \E who \in {"gateway", "nobody"} : d = [c EXCEPT !.who = who]

Asked(d) == d \in RequestRows /\ d.answer = Waiting

LEMMA ReleasedRequest ==
  ASSUME DraftTypeOK, NEW d, Released(d)
  PROVE  /\ d \in RequestRows /\ d.who # "page"
         /\ \E c \in calls : /\ d.op = c.op /\ d.key = c.key /\ d.expected = c.expected
                             /\ d.text = c.text /\ d.answer = c.answer /\ d.tab = c.tab
<1>1. PICK c \in calls, who \in {"gateway", "nobody"} : d = [c EXCEPT !.who = who]
  BY DEF Released
<1>2. c \in RequestRows
  BY DEF DraftTypeOK
<1>3. QED
  BY <1>1, <1>2 DEF RequestRows

LEMMA RequestsStep ==
  ASSUME RequestsOK, UNCHANGED server, changes' \in 0 .. MaxChanges,
         keys' \in Nat, keys' >= keys, OneAwaited',
         \A d \in calls' : d \in calls \/ Released(d) \/ Asked(d)
  PROVE  RequestsOK'
<1>1. DraftTypeOK /\ (\A c \in calls : Truthful(c, history, stored))
  BY DEF RequestsOK
<1>2. calls' \subseteq RequestRows
  BY <1>1, ReleasedRequest DEF Asked, DraftTypeOK
<1>3. UNCHANGED <<history, handed, stored>>
  BY DEF server
<1>4. DraftTypeOK'
  BY <1>1, <1>2, <1>3 DEF DraftTypeOK
<1>5. ASSUME NEW d \in calls' PROVE Truthful(d, history, stored)
  <2>1. CASE Released(d)
    BY <2>1, <1>1, ReleasedRequest DEF Truthful
  <2>2. CASE Asked(d)
    BY <2>2 DEF Truthful, Asked, Waiting, Answer
  <2>3. QED
    BY <1>1, <2>1, <2>2
<1>6. QED
  BY <1>3, <1>4, <1>5 DEF RequestsOK

LEMMA SentStep ==
  ASSUME DraftTypeOK, NEW h,
         \A d \in calls' : \/ d \in calls \/ Released(d) \/ d.op \notin Writes
                           \/ h = Command(d.op, d.key, d.expected, d.text)
  PROVE  Sent' \subseteq Sent \cup {h}
<1>1. SUFFICES ASSUME NEW d \in calls', d.op \in Writes
               PROVE  Command(d.op, d.key, d.expected, d.text) \in Sent \cup {h}
  BY DEF Sent
<1>2. CASE Released(d)
  BY <1>1, <1>2, ReleasedRequest, SentIn
<1>3. QED
  BY <1>1, <1>2, SentIn

LEMMA SentNoMore ==
  ASSUME DraftTypeOK,
         \A d \in calls' : d \in calls \/ Released(d) \/ d.op \notin Writes
  PROVE  Sent' \subseteq Sent
<1>1. SUFFICES ASSUME NEW d \in calls', d.op \in Writes
               PROVE  Command(d.op, d.key, d.expected, d.text) \in Sent
  BY DEF Sent
<1>2. CASE Released(d)
  BY <1>1, <1>2, ReleasedRequest, SentIn
<1>3. QED
  BY <1>1, <1>2, SentIn

LEMMA AfterAnswer ==
  ASSUME DraftTypeOK, NEW c \in calls, NEW a
  PROVE  /\ \A d \in After(c, a) : d \in calls \ {c} \/ Released(d)
         /\ calls \ {c} \subseteq After(c, a)
  BY DEF After, Released

LEMMA SupersededRequests ==
  ASSUME NEW t \in Tabs
  PROVE  /\ \A d \in Superseded(t) : (d \in calls /\ ~Awaits(t, d)) \/ Released(d)
         /\ \A c \in calls : c.tab # t => c \in Superseded(t)
  BY DEF Superseded, Released, Awaits

LEMMA AbandonedRequests ==
  ASSUME NEW t \in Tabs
  PROVE  /\ \A d \in Abandoned(t) : (d \in calls /\ d.tab # t) \/ Released(d)
         /\ \A c \in calls : c.tab # t => c \in Abandoned(t)
  BY DEF Abandoned, Released

LEMMA RequestTyped ==
  ASSUME NEW t \in Tabs, NEW op \in {"load", "reread", "patch", "submit"},
         NEW who \in {"page", "gateway", "nobody"}, NEW key \in Nat, NEW expected \in Nat,
         NEW text \in Texts, NEW d, d = Request(t, op, who, key, expected, text)
  PROVE  /\ Asked(d) /\ d.tab = t /\ d.op = op /\ d.who = who
         /\ d.key = key /\ d.expected = expected /\ d.text = text
<1>1. Waiting \in AnswerRows
  BY AnswerTyped, NoText DEF Waiting
<1>2. QED
  BY <1>1 DEF Asked, Request, RequestRows

LEMMA ReadAsked ==
  ASSUME NEW t \in Tabs, NEW op \in {"load", "reread"}, NEW d, d = Request(t, op, "page", 0, 0, {})
  PROVE  Asked(d) /\ d.tab = t /\ d.op = op /\ d.who = "page"
<1>1. op \in {"load", "reread", "patch", "submit"} /\ "page" \in {"page", "gateway", "nobody"} /\ 0 \in Nat
  OBVIOUS
<1>2. QED
  BY <1>1, NoText, RequestTyped

-----------------------------------------------------------------------------
(***************************************************************************)
(* The challenge editor.                                                   *)
(***************************************************************************)

LEMMA KeptSaveIn ==
  ASSUME NEW t \in Tabs, NEW p \in tab[t].pending
  PROVE  Command("patch", p.key, p.expected, p.text) \in KeptSaves
  BY DEF KeptSaves

LEMMA KeptSavesStep ==
  ASSUME tab \in [Tabs -> TabRows], NEW t \in Tabs, NEW r, tab' = [tab EXCEPT ![t] = r],
         NEW p, r.pending \subseteq tab[t].pending \cup {p}
  PROVE  KeptSaves' \subseteq KeptSaves \cup {Command("patch", p.key, p.expected, p.text)}
<1>1. SUFFICES ASSUME NEW u \in Tabs, NEW q \in tab'[u].pending
               PROVE  Command("patch", q.key, q.expected, q.text)
                        \in KeptSaves \cup {Command("patch", p.key, p.expected, p.text)}
  BY DEF KeptSaves
<1>2. q = p \/ q \in tab[u].pending
  <2>1. CASE u = t
    BY <1>1, <2>1
  <2>2. CASE u # t
    BY <1>1, <2>2
  <2>3. QED
    BY <2>1, <2>2
<1>3. QED
  BY <1>1, <1>2, KeptSaveIn

LEMMA KeptSavesNoMore ==
  ASSUME tab \in [Tabs -> TabRows], NEW t \in Tabs, NEW r, tab' = [tab EXCEPT ![t] = r],
         r.pending \subseteq tab[t].pending
  PROVE  KeptSaves' \subseteq KeptSaves
<1>1. SUFFICES ASSUME NEW u \in Tabs, NEW q \in tab'[u].pending
               PROVE  Command("patch", q.key, q.expected, q.text) \in KeptSaves
  BY DEF KeptSaves
<1>2. q \in tab[u].pending
  <2>1. CASE u = t
    BY <1>1, <2>1
  <2>2. CASE u # t
    BY <1>1, <2>2
  <2>3. QED
    BY <2>1, <2>2
<1>3. QED
  BY <1>1, <1>2, KeptSaveIn

\* What has to be shown of a step of the page of tab t.
LEMMA ChallengePage ==
  ASSUME ChallengeInv, UNCHANGED server, changes' \in 0 .. MaxChanges,
         keys' \in Nat, keys' >= keys,
         NEW t \in Tabs, NEW r \in TabRows, tab' = [tab EXCEPT ![t] = r],
         \A d \in calls' : \/ d \in calls \/ Released(d)
                           \/ /\ Asked(d) /\ d.tab = t
                              /\ d.op = "reread" => d.text \in Range(history),
         \A c \in calls : c.tab # t => c \in calls',
         Keyed(Sent' \cup KeptSaves', keys', history, handed, stored),
         \A d \in calls' : Awaits(t, d) => AwaitedByTab(d, r),
         \A d, e \in calls' : Awaits(t, d) /\ Awaits(t, e) => d = e,
         r.status = "saved" => r.shown \in Range(history),
         Settled(r, Awaiting(t)')
  PROVE  ChallengeInv'
<1>1. DraftTypeOK /\ OneAwaited /\ RequestsOK /\ tab \in [Tabs -> TabRows]
  BY DEF ChallengeInv, RequestsOK
<1>2. UNCHANGED <<history, handed, stored>>
  BY DEF server
<1>3. \A u \in Tabs : tab'[u] = IF u = t THEN r ELSE tab[u]
  BY <1>1
<1>4. ASSUME NEW d \in calls', d.who = "page", d.tab # t
      PROVE  d \in calls
  BY <1>1, <1>4, ReleasedRequest
<1>5. OneAwaited'
  <2>1. SUFFICES ASSUME NEW d \in calls', NEW e \in calls', d.tab = e.tab,
                        d.who = "page", e.who = "page"
                 PROVE  d = e
    BY DEF OneAwaited
  <2>2. CASE d.tab = t
    BY <2>1, <2>2 DEF Awaits
  <2>3. CASE d.tab # t
    BY <1>1, <1>4, <2>1, <2>3 DEF OneAwaited
  <2>4. QED
    BY <2>2, <2>3
<1>6. RequestsOK'
  BY <1>1, <1>5, RequestsStep
<1>7. tab' \in [Tabs -> TabRows]
  BY <1>1
<1>8. Keyed(Sent \cup KeptSaves, keys, history, handed, stored)'
  BY <1>2 DEF Keyed
<1>9. ASSUME NEW d \in calls', d.op = "reread" PROVE d.text \in Range(history')
  <2>1. CASE d \in calls
    BY <2>1, <1>2, <1>9 DEF ChallengeInv
  <2>2. CASE Released(d)
    BY <1>1, <1>2, <1>9, <2>2, ReleasedRequest DEF ChallengeInv
  <2>3. QED
    BY <1>2, <1>9, <2>1, <2>2
<1>10. ASSUME NEW d \in calls', d.who = "page" PROVE AwaitedByTab(d, tab'[d.tab])
  <2>1. d.tab \in Tabs
    BY <1>6 DEF RequestsOK, DraftTypeOK, RequestRows
  <2>2. CASE d.tab = t
    BY <1>3, <1>10, <2>1, <2>2 DEF Awaits
  <2>3. CASE d.tab # t
    BY <1>3, <1>4, <1>10, <2>1, <2>3 DEF ChallengeInv
  <2>4. QED
    BY <2>2, <2>3
<1>11. SavedIsStored'
  BY <1>2, <1>3 DEF ChallengeInv, SavedIsStored
<1>12. ASSUME NEW u \in Tabs PROVE Settled(tab[u], Awaiting(u))'
  <2>1. CASE u = t
    BY <1>3, <2>1 DEF Settled
  <2>2. CASE u # t
    <3>1. Awaiting(u)' <=> Awaiting(u)
      BY <1>4, <2>2 DEF Awaiting, Awaits
    <3>2. tab'[u] = tab[u] /\ Settled(tab[u], Awaiting(u))
      BY <1>3, <2>2 DEF ChallengeInv
    <3>3. QED
      BY <3>1, <3>2 DEF Settled
  <2>3. QED
    BY <2>1, <2>2
<1>13. QED
  BY <1>6, <1>7, <1>8, <1>9, <1>10, <1>11, <1>12 DEF ChallengeInv

\* The same, if nothing new is asked of the server than to be read.
LEMMA ChallengePageAsks ==
  ASSUME ChallengeInv, UNCHANGED server, changes' \in 0 .. MaxChanges, keys' = keys,
         NEW t \in Tabs, NEW r \in TabRows, tab' = [tab EXCEPT ![t] = r],
         r.pending \subseteq tab[t].pending,
         \A d \in calls' : \/ d \in calls \/ Released(d)
                           \/ /\ Asked(d) /\ d.tab = t /\ d.op \notin Writes
                              /\ d.op = "reread" => d.text \in Range(history),
         \A c \in calls : c.tab # t => c \in calls',
         \A d \in calls' : Awaits(t, d) => AwaitedByTab(d, r),
         \A d, e \in calls' : Awaits(t, d) /\ Awaits(t, e) => d = e,
         r.status = "saved" => r.shown \in Range(history),
         Settled(r, Awaiting(t)')
  PROVE  ChallengeInv'
<1>1. DraftTypeOK /\ tab \in [Tabs -> TabRows] /\ keys \in Nat
  BY DEF ChallengeInv, RequestsOK, DraftTypeOK
<1>2. Sent' \subseteq Sent /\ KeptSaves' \subseteq KeptSaves
  BY <1>1, SentNoMore, KeptSavesNoMore
<1>3. Keyed(Sent' \cup KeptSaves', keys', history, handed, stored)
  BY <1>2, KeyedSubset DEF ChallengeInv
<1>4. \A d \in calls' : \/ d \in calls \/ Released(d)
                        \/ /\ Asked(d) /\ d.tab = t
                           /\ d.op = "reread" => d.text \in Range(history)
  OBVIOUS
<1>5. keys' \in Nat /\ keys' >= keys
  BY <1>1
<1>6. QED
  BY <1>3, <1>4, <1>5, ChallengePage

\* A save: of the page, or the last one of a page that is left.
LEMMA SaveStep ==
  ASSUME ChallengeInv, UNCHANGED <<server, changes>>, NEW t \in Tabs,
         NEW who \in {"page", "gateway"}, NEW r \in TabRows,
         r.pending = tab[t].pending, r.cached = tab[t].cached,
         Save(t, who, Superseded(t), r),
         ~ r.timer,
         who = "page" => r.page = "open" /\ r.shown = tab[t].shown /\ r.status = "saving",
         who = "gateway" => r.page = "closed" /\ r.status = "idle"
  PROVE  ChallengeInv'
<1>1. DraftTypeOK /\ tab \in [Tabs -> TabRows] /\ keys \in Nat /\ changes \in 0 .. MaxChanges
  BY DEF ChallengeInv, RequestsOK, DraftTypeOK
<1>2. tab[t] \in TabRows /\ tab[t].shown \in Texts /\ r.cached \in Nat
  BY <1>1 DEF TabRows
<1> DEFINE key == IF SameSave(t) = {} THEN keys + 1 ELSE (CHOOSE p \in SameSave(t) : TRUE).key
<1>3. /\ tab' = [tab EXCEPT ![t] = [r EXCEPT !.pending = r.pending \cup
                     {[expected |-> r.cached, text |-> tab[t].shown, key |-> key]}]]
      /\ calls' = Superseded(t) \cup {Request(t, "patch", who, key, r.cached, tab[t].shown)}
      /\ keys' = IF SameSave(t) = {} THEN key ELSE keys
 BY DEF Save
<1>4. \/ key = keys + 1 /\ keys' = keys + 1
      \/ /\ keys' = keys
          /\ \E p \in tab[t].pending : /\ p.expected = r.cached /\ p.text = tab[t].shown
                                       /\ p.key = key
  <2>1. CASE SameSave(t) = {}
    BY <1>3, <2>1
  <2>2. CASE SameSave(t) # {}
    <3>1. PICK p \in SameSave(t) : key = p.key
      BY <2>2
    <3>2. QED
      BY <1>3, <2>2, <3>1 DEF SameSave
  <2>3. QED
    BY <2>1, <2>2
<1> HIDE DEF key
<1>5. key \in Nat /\ keys' \in Nat /\ keys' >= keys
  BY <1>1, <1>2, <1>4 DEF TabRows, SaveRows
<1> DEFINE sent == [expected |-> r.cached, text |-> tab[t].shown, key |-> key]
           new == [r EXCEPT !.pending = r.pending \cup {sent}]
           d == Request(t, "patch", who, key, r.cached, tab[t].shown)
           h == Command("patch", key, r.cached, tab[t].shown)
<1>6. sent \in SaveRows /\ h = Command("patch", sent.key, sent.expected, sent.text)
  BY <1>2, <1>5 DEF SaveRows
<1>7. /\ new \in TabRows /\ new.page = r.page /\ new.status = r.status /\ new.shown = r.shown
      /\ new.timer = r.timer
      /\ new.pending = tab[t].pending \cup {sent}
  BY <1>6 DEF TabRows
<1>8. /\ Asked(d) /\ d.tab = t /\ d.op = "patch" /\ d.who = who
      /\ d.text = tab[t].shown /\ h = Command(d.op, d.key, d.expected, d.text)
  <2>1. /\ Asked(d) /\ d.tab = t /\ d.op = "patch" /\ d.who = who
        /\ d.key = key /\ d.expected = r.cached /\ d.text = tab[t].shown
    <3>1. /\ "patch" \in {"load", "reread", "patch", "submit"} /\ key \in Nat /\ r.cached \in Nat
          /\ who \in {"page", "gateway", "nobody"} /\ tab[t].shown \in Texts
      BY <1>2, <1>5
    <3>2. QED
      BY <3>1, RequestTyped
  <2> HIDE DEF d
  <2>2. QED
    BY <2>1
<1>9. tab' = [tab EXCEPT ![t] = new] /\ calls' = Superseded(t) \cup {d}
  BY <1>3
<1>10. keys' \in Nat /\ keys' >= keys /\ changes' \in 0 .. MaxChanges /\ UNCHANGED server
  BY <1>1, <1>5
<1>11. h.key = key
  BY DEF Command
<1>12. \/ h.key = keys + 1 /\ keys' = keys + 1
       \/ h \in KeptSaves /\ keys' = keys
  BY <1>4, <1>11, KeptSaveIn
<1> HIDE DEF sent, new, d, h
<1>13. Sent' \subseteq Sent \cup {h}
  BY <1>1, <1>8, <1>9, SupersededRequests, SentStep
<1>14. KeptSaves' \subseteq KeptSaves \cup {h}
  BY <1>1, <1>6, <1>7, <1>9, KeptSavesStep
<1>15. Keyed(Sent' \cup KeptSaves', keys', history, handed, stored)
  <2>1. Keyed(Sent \cup KeptSaves, keys, history, handed, stored) /\ DOMAIN stored \subseteq 1 .. keys
    BY <1>1 DEF ChallengeInv, DraftTypeOK
  <2>2. Sent' \cup KeptSaves' \subseteq (Sent \cup KeptSaves) \cup {h}
    BY <1>13, <1>14
  <2>3. CASE h.key = keys + 1 /\ keys' = keys + 1
    BY <1>1, <2>1, <2>2, <2>3, KeyedWithNew
  <2>4. CASE h \in KeptSaves /\ keys' = keys
    BY <2>1, <2>2, <2>4, KeyedSubset
  <2>5. QED
    BY <1>12, <2>3, <2>4
<1>16. ASSUME NEW e \in calls', Awaits(t, e) PROVE e = d /\ who = "page"
  BY <1>1, <1>8, <1>9, <1>16, SupersededRequests, ReleasedRequest DEF Awaits
<1>17. \A e \in calls' : Awaits(t, e) => AwaitedByTab(e, new)
  BY <1>7, <1>8, <1>16 DEF AwaitedByTab
<1>18. Settled(new, Awaiting(t)')
  BY <1>7, <1>8, <1>9 DEF Awaits, Awaiting, Settled
<1>19. new.status # "saved"
  BY <1>7
<1>20. /\ \A e \in calls' : e \in calls \/ Released(e)
                             \/ (Asked(e) /\ e.tab = t /\ e.op # "reread")
       /\ \A c \in calls : c.tab # t => c \in calls'
  BY <1>8, <1>9, SupersededRequests
<1>21. QED
  BY <1>7, <1>9, <1>10, <1>15, <1>16, <1>17, <1>18, <1>19, <1>20, ChallengePage

LEMMA OpenRecordStep ==
  ASSUME ChallengeInv, NEW t \in Tabs, OpenRecord(t)
  PROVE  ChallengeInv'
<1> DEFINE r == [tab[t] EXCEPT !.page = "loading"]
           d == Request(t, "load", "page", 0, 0, {})
<1>1. DraftTypeOK /\ tab[t] \in TabRows /\ changes \in 0 .. MaxChanges
  BY DEF ChallengeInv, RequestsOK, DraftTypeOK
<1>2. /\ r \in TabRows /\ r.page = "loading" /\ r.pending = tab[t].pending
      /\ r.shown = tab[t].shown /\ r.status = tab[t].status /\ r.timer = tab[t].timer
  BY <1>1 DEF TabRows
<1>3. Asked(d) /\ d.tab = t /\ d.op = "load" /\ d.who = "page"
  BY NoText, RequestTyped
<1>4. /\ tab[t].page = "closed" /\ tab' = [tab EXCEPT ![t] = r] /\ calls' = calls \cup {d}
      /\ UNCHANGED <<server, keys, changes>>
  BY DEF OpenRecord
<1> HIDE DEF r, d
<1>5. ASSUME NEW c \in calls, Awaits(t, c) PROVE FALSE
  BY <1>4, <1>5 DEF ChallengeInv, AwaitedByTab, Awaits
<1>6. /\ \A e \in calls' : Awaits(t, e) => e = d
      /\ AwaitedByTab(d, r) /\ Awaits(t, d)
  BY <1>2, <1>3, <1>4, <1>5 DEF AwaitedByTab, Awaits
<1>7. r.status # "saved" /\ Settled(r, Awaiting(t)')
  BY <1>2, <1>4 DEF ChallengeInv, Settled
<1>8. \A e \in calls' : e \in calls \/ (Asked(e) /\ e.tab = t /\ e.op \notin Writes /\ e.op # "reread")
  BY <1>3, <1>4 DEF Writes
<1>9. QED
  BY <1>1, <1>2, <1>4, <1>6, <1>7, <1>8, ChallengePageAsks

LEMMA ChangeStep ==
  ASSUME ChallengeInv, TextsMade, NEW t \in Tabs, Change(t)
  PROVE  ChallengeInv'
<1> DEFINE r == Changed(tab[t], changes + 1)
<1>1. tab[t] \in TabRows /\ changes \in 0 .. MaxChanges /\ MaxChanges \in Nat
  BY DraftAssumption DEF ChallengeInv, RequestsOK, DraftTypeOK
<1>2. /\ tab[t].page = "open" /\ tab' = [tab EXCEPT ![t] = r] /\ calls' = calls
      /\ UNCHANGED <<server, keys>> /\ changes < MaxChanges /\ changes' = changes + 1
  BY DEF Change
<1>3. tab[t].shown \cup {changes + 1} \in Texts
  BY <1>1, <1>2 DEF TabRows, Texts
<1>4. /\ r \in TabRows /\ r.page = "open" /\ r.status = "dirty" /\ r.timer
      /\ r.pending = tab[t].pending
  BY <1>1, <1>2, <1>3 DEF Changed, TabRows
<1>5. \A d \in calls' : Awaits(t, d) => AwaitedByTab(d, r)
  <2>1. changes + 1 \in r.shown
    BY <1>1 DEF Changed, TabRows
  <2>2. \A d \in calls : changes + 1 \notin d.text
    BY <1>1 DEF TextsMade
  <2> HIDE DEF r
  <2>3. QED
    BY <1>2, <1>4, <2>1, <2>2 DEF ChallengeInv, AwaitedByTab, Awaits
<1>9. Settled(r, Awaiting(t)')
  BY <1>4 DEF Settled
<1> HIDE DEF r
<1>6. \A d, e \in calls' : Awaits(t, d) /\ Awaits(t, e) => d = e
  BY <1>2 DEF ChallengeInv, RequestsOK, OneAwaited, Awaits
<1>7. changes' \in 0 .. MaxChanges
  BY <1>1, <1>2
<1>8. QED
  BY <1>2, <1>4, <1>5, <1>6, <1>7, <1>9, ChallengePageAsks

LEMMA SaveNowStep ==
  ASSUME ChallengeInv, NEW t \in Tabs, SaveNow(t)
  PROVE  ChallengeInv'
<1> DEFINE r == [tab[t] EXCEPT !.timer = FALSE, !.status = "saving"]
<1>1. tab[t] \in TabRows
  BY DEF ChallengeInv
<1>2. /\ tab[t].page = "open" /\ Save(t, "page", Superseded(t), r)
      /\ UNCHANGED <<server, changes>>
  BY DEF SaveNow
<1>3. /\ r \in TabRows /\ r.page = tab[t].page /\ r.shown = tab[t].shown /\ r.status = "saving"
      /\ ~ r.timer
      /\ r.pending = tab[t].pending /\ r.cached = tab[t].cached
  BY <1>1 DEF TabRows
<1> HIDE DEF r
<1>4. QED
  BY <1>2, <1>3, SaveStep

LEMMA ClosedTyped ==
  ASSUME NEW r \in TabRows
  PROVE  /\ Closed(r) \in TabRows /\ Closed(r).page = "closed" /\ Closed(r).status = "idle"
         /\ ~ Closed(r).timer
         /\ Closed(r).pending = r.pending /\ Closed(r).cached = r.cached
  BY NoText DEF Closed, TabRows

LEMMA LeaveRecordStep ==
  ASSUME ChallengeInv, NEW t \in Tabs, LeaveRecord(t)
  PROVE  ChallengeInv'
<1>1. DraftTypeOK /\ tab[t] \in TabRows /\ changes \in 0 .. MaxChanges
  BY DEF ChallengeInv, RequestsOK, DraftTypeOK
<1> DEFINE r == Closed(tab[t])
<1>2. /\ r \in TabRows /\ r.page = "closed" /\ r.status = "idle" /\ ~ r.timer
      /\ r.pending = tab[t].pending /\ r.cached = tab[t].cached
  BY <1>1, ClosedTyped
<1>3. UNCHANGED <<server, changes>>
  BY DEF LeaveRecord
<1> HIDE DEF r
<1>4. CASE Save(t, "gateway", Superseded(t), r)
  BY <1>2, <1>3, <1>4, SaveStep
<1>5. CASE tab' = [tab EXCEPT ![t] = r] /\ calls' = Superseded(t) /\ keys' = keys
  <2>1. \A e \in calls' : ~Awaits(t, e)
    BY <1>1, <1>5, SupersededRequests, ReleasedRequest DEF Awaits
  <2>2. Settled(r, Awaiting(t)')
    BY <1>2 DEF Settled
  <2>3. QED
    BY <1>1, <1>2, <1>3, <1>5, <2>1, <2>2, SupersededRequests, ChallengePageAsks
<1>6. QED
  BY <1>4, <1>5 DEF LeaveRecord, r

LEMMA ReloadRecordStep ==
  ASSUME ChallengeInv, NEW t \in Tabs, ReloadRecord(t)
  PROVE  ChallengeInv'
<1>1. DraftTypeOK /\ changes \in 0 .. MaxChanges
  BY DEF ChallengeInv, RequestsOK, DraftTypeOK
<1>2. /\ NewTab \in TabRows /\ NewTab.status = "idle" /\ NewTab.pending = {}
      /\ Settled(NewTab, Awaiting(t)')
  BY NoText DEF NewTab, TabRows, Settled
<1>3. /\ UNCHANGED <<server, keys, changes>> /\ calls' = Abandoned(t)
      /\ tab' = [tab EXCEPT ![t] = NewTab]
  BY DEF ReloadRecord
<1>4. \A e \in calls' : ~Awaits(t, e)
  BY <1>1, <1>3, AbandonedRequests, ReleasedRequest DEF Awaits
<1>5. QED
  BY <1>1, <1>2, <1>3, <1>4, AbandonedRequests, ChallengePageAsks

\* What a page can make of what it hears.
LEMMA Heard ==
  ASSUME RequestsOK, NEW c \in calls, NEW a \in {c.answer, Lost}
  PROVE  /\ c \in RequestRows /\ c.tab \in Tabs /\ a \in AnswerRows
         /\ c.op \in Writes /\ a.code = "ok" => c.key \in DOMAIN stored /\ a.version = stored[c.key]
         /\ c.op \notin Writes /\ a.code = "ok" =>
              a.version \in 1 .. Len(history) /\ a.text = history[a.version]
<1>1. DraftTypeOK /\ Truthful(c, history, stored)
  BY DEF RequestsOK
<1>2. c \in RequestRows
  BY <1>1 DEF DraftTypeOK
<1>3. Lost \in AnswerRows /\ Lost.code # "ok"
  BY RefusalTyped DEF Lost
<1>4. QED
  BY <1>1, <1>2, <1>3 DEF RequestRows, Truthful

LEMMA VersionInRange ==
  ASSUME DraftTypeOK, NEW n \in 1 .. Len(history)
  PROVE  history[n] \in Range(history) /\ history[n] \in Texts
<1>1. n \in DOMAIN history
  BY DEF DraftTypeOK
<1>2. QED
  BY <1>1 DEF Range, DraftTypeOK

\* Nobody but c was awaited, or what was awaited still is.
LEMMA AwaitedAfter ==
  ASSUME RequestsOK, NEW c \in calls, NEW a, calls' = After(c, a)
  PROVE  /\ \A d \in calls' : d \in calls \/ Released(d)
         /\ \A d \in calls : d.tab # c.tab => d \in calls'
         /\ \A d \in calls' : Awaits(c.tab, d) => d \in calls /\ c.who # "page"
         /\ \A d, e \in calls' : Awaits(c.tab, d) /\ Awaits(c.tab, e) => d = e
         /\ c.who # "page" => \A d \in calls : Awaits(c.tab, d) => d \in calls'
         /\ Awaiting(c.tab)' <=> Awaiting(c.tab) /\ c.who # "page"
<1>1. DraftTypeOK /\ OneAwaited
  BY DEF RequestsOK
<1>2. /\ \A d \in calls' : d \in calls \ {c} \/ Released(d)
      /\ calls \ {c} \subseteq calls'
  BY <1>1, AfterAnswer
<1>3. \A d \in calls' : Awaits(c.tab, d) => d \in calls \ {c}
  BY <1>1, <1>2, ReleasedRequest DEF Awaits
<1>4. c.who = "page" => \A d \in calls' : ~ Awaits(c.tab, d)
  BY <1>1, <1>3 DEF OneAwaited, Awaits
<1>5. c.who # "page" => \A d \in calls : Awaits(c.tab, d) => d \in calls'
  BY <1>2 DEF Awaits
<1>6. Awaiting(c.tab)' <=> Awaiting(c.tab) /\ c.who # "page"
  BY <1>3, <1>4, <1>5 DEF Awaiting, Awaits
<1>7. QED
  BY <1>1, <1>2, <1>3, <1>4, <1>5, <1>6 DEF OneAwaited, Awaits

LEMMA HearLoadStep ==
  ASSUME ChallengeInv, NEW c \in calls, NEW a \in {c.answer, Lost}, HearLoad(c, a),
         UNCHANGED <<server, keys, changes>>
  PROVE  ChallengeInv'
<1>1. DraftTypeOK /\ RequestsOK /\ changes \in 0 .. MaxChanges
  BY DEF ChallengeInv, RequestsOK, DraftTypeOK
<1>2. /\ c \in RequestRows /\ c.tab \in Tabs /\ a \in AnswerRows /\ c.op = "load"
      /\ a.code = "ok" => a.version \in 1 .. Len(history) /\ a.text = history[a.version]
      /\ calls' = After(c, a)
  BY <1>1, Heard DEF HearLoad, Writes
<1>3. a.code = "ok" => a.text \in Range(history) /\ a.text \in Texts /\ a.version \in Nat
  BY <1>1, <1>2, VersionInRange
<1> DEFINE t == c.tab
           r == tab[t]
           read == IF a.code = "ok" THEN [r EXCEPT !.cached = a.version] ELSE r
           new == IF c.who # "page" THEN read
                  ELSE IF a.code = "ok"
                  THEN [read EXCEPT !.page = "open", !.shown = a.text, !.status = "saved"]
                  ELSE Closed(r)
<1>4. r \in TabRows /\ tab' = [tab EXCEPT ![t] = new]
  BY <1>2 DEF HearLoad, ChallengeInv
<1>5. /\ read \in TabRows /\ read.page = r.page /\ read.shown = r.shown
      /\ read.status = r.status /\ read.timer = r.timer /\ read.pending = r.pending
  BY <1>3, <1>4 DEF TabRows
<1>6. CASE c.who # "page"
  <2>1. new = read
    BY <1>6
  <2> HIDE DEF new, read
  <2>2. /\ new.status = "saved" => new.shown \in Range(history)
        /\ Settled(new, Awaiting(t)')
    BY <1>1, <1>2, <1>5, <1>6, <2>1, AwaitedAfter DEF ChallengeInv, SavedIsStored, Settled
  <2>3. \A d \in calls' : Awaits(t, d) => AwaitedByTab(d, new)
    BY <1>1, <1>2, <1>5, <2>1, AwaitedAfter DEF ChallengeInv, AwaitedByTab, Awaits
  <2>4. QED
    BY <1>1, <1>2, <1>4, <1>5, <2>1, <2>2, <2>3, AwaitedAfter, ChallengePageAsks
<1>7. CASE c.who = "page"
  <2>1. \A d \in calls' : ~Awaits(t, d)
    BY <1>1, <1>2, <1>7, AwaitedAfter
  <2>2. /\ new \in TabRows /\ new.pending = r.pending
        /\ new.status = "saved" => new.shown \in Range(history)
        /\ Settled(new, Awaiting(t)')
    <3>0. ~ Awaiting(t)' /\ ~ r.timer
      BY <1>1, <1>2, <1>7, <2>1 DEF Awaiting, ChallengeInv, AwaitedByTab, Settled
    <3>1. CASE a.code = "ok"
      <4>1. new = [read EXCEPT !.page = "open", !.shown = a.text, !.status = "saved"]
        BY <1>7, <3>1
      <4> HIDE DEF read, new
      <4>2. QED
        BY <1>3, <1>5, <3>0, <3>1, <4>1 DEF TabRows, Settled
    <3>2. CASE a.code # "ok"
      <4>1. new = Closed(r)
        BY <1>7, <3>2
      <4> HIDE DEF new
      <4>2. QED
        BY <1>4, <4>1, ClosedTyped DEF Settled
    <3>3. QED
      BY <3>1, <3>2
  <2> HIDE DEF new
  <2>3. QED
    BY <1>1, <1>2, <1>4, <2>1, <2>2, AwaitedAfter, ChallengePageAsks
<1>8. QED
  BY <1>6, <1>7

LEMMA HearEndStep ==
  ASSUME ChallengeInv, NEW c \in calls, NEW a, UNCHANGED <<server, keys, changes>>,
         c.op \in {"patch", "reread"}, calls' = After(c, a),
         NEW r \in TabRows, r.page = tab[c.tab].page, r.shown = tab[c.tab].shown,
         r.status = tab[c.tab].status, r.timer = tab[c.tab].timer,
         r.pending \subseteq tab[c.tab].pending,
         tab' = [tab EXCEPT ![c.tab] = Ended(r, c, a)],
         a.code = "ok" => a.text \in Range(history) /\ a.text \in Texts
  PROVE  ChallengeInv'
<1> DEFINE t == c.tab
           new == Ended(r, c, a)
<1>1. DraftTypeOK /\ RequestsOK /\ changes \in 0 .. MaxChanges /\ t \in Tabs
  BY DEF ChallengeInv, RequestsOK, DraftTypeOK, RequestRows
<1>2. CASE c.who # "page"
  <2>1. new = r
    BY <1>2 DEF Ended
  <2> HIDE DEF new
  <2>2. /\ r.status = "saved" => r.shown \in Range(history)
        /\ Settled(r, Awaiting(t)')
    BY <1>1, <1>2, AwaitedAfter DEF ChallengeInv, SavedIsStored, Settled
  <2>3. \A d \in calls' : Awaits(t, d) => AwaitedByTab(d, r)
    BY <1>1, AwaitedAfter DEF ChallengeInv, AwaitedByTab, Awaits
  <2>4. QED
    BY <1>1, <2>1, <2>2, <2>3, AwaitedAfter, ChallengePageAsks DEF new
<1>3. CASE c.who = "page"
  <2>1. \A d \in calls' : ~Awaits(t, d)
    BY <1>1, <1>3, AwaitedAfter
  <2>2. (r.timer <=> r.shown # c.text) /\ r.page = "open" /\ ~ Awaiting(t)'
    BY <1>1, <1>3, <2>1 DEF ChallengeInv, AwaitedByTab, Awaiting
  <2>3. /\ new \in TabRows /\ new.pending = r.pending
        /\ Settled(new, Awaiting(t)')
        /\ new.status = "saved" => new.shown \in Range(history)
    <3>1. CASE r.shown # c.text
      <4>1. new = [r EXCEPT !.status = "dirty"]
        BY <1>3, <3>1 DEF Ended
      <4> HIDE DEF new
      <4>2. QED
        BY <2>2, <3>1, <4>1 DEF TabRows, Settled
    <3>2. CASE r.shown = c.text /\ a.code = "ok"
      <4>1. new = [r EXCEPT !.shown = a.text, !.status = "saved"]
        BY <1>3, <3>2 DEF Ended
      <4> HIDE DEF new
      <4>2. QED
        BY <2>2, <3>2, <4>1 DEF TabRows, Settled
    <3>3. CASE r.shown = c.text /\ a.code # "ok"
      <4>1. new = [r EXCEPT !.status = "error"]
        BY <1>3, <3>3 DEF Ended
      <4> HIDE DEF new
      <4>2. QED
        BY <2>2, <3>3, <4>1 DEF TabRows, Settled
    <3>4. QED
      BY <3>1, <3>2, <3>3
  <2>4. tab' = [tab EXCEPT ![t] = new]
    OBVIOUS
  <2> HIDE DEF new
  <2>5. QED
    BY <1>1, <2>1, <2>3, <2>4, AwaitedAfter, ChallengePageAsks
<1>4. QED
  BY <1>2, <1>3

LEMMA HearSaveStep ==
  ASSUME ChallengeInv, NEW c \in calls, NEW a \in {c.answer, Lost}, HearSave(c, a),
         UNCHANGED <<server, keys, changes>>
  PROVE  ChallengeInv'
<1>1. DraftTypeOK /\ RequestsOK /\ changes \in 0 .. MaxChanges /\ tab \in [Tabs -> TabRows]
  BY DEF ChallengeInv, RequestsOK, DraftTypeOK
<1>2. /\ c \in RequestRows /\ c.tab \in Tabs /\ a \in AnswerRows /\ c.op = "patch"
      /\ a.code = "ok" => c.key \in DOMAIN stored
  BY <1>1, Heard DEF HearSave, Writes
<1>3. CASE a.code # "ok"
  <2>1. calls' = After(c, a) /\ tab' = [tab EXCEPT ![c.tab] = Ended(tab[c.tab], c, a)]
    BY <1>3 DEF HearSave
  <2>2. tab[c.tab] \in TabRows
    BY <1>1, <1>2
  <2>3. QED
    BY <1>2, <1>3, <2>1, <2>2, HearEndStep
<1>4. CASE a.code = "ok"
  <2> DEFINE t == c.tab
             d == [c EXCEPT !.op = "reread", !.answer = Waiting]
  <2>1. calls' = After(c, a) \cup {d} /\ UNCHANGED tab
    BY <1>4 DEF HearSave
  <2>2. /\ Asked(d) /\ d.tab = t /\ d.op = "reread" /\ d.who = c.who /\ d.text = c.text
    BY <1>2, AnswerTyped, NoText DEF Asked, RequestRows, Waiting
  <2> HIDE DEF d
  <2>3. c.text \in Range(history)
    <3>1. Command(c.op, c.key, c.expected, c.text) \in Sent
      BY <1>2, SentIn DEF Writes
    <3>2. Done(Command(c.op, c.key, c.expected, c.text), history, handed, stored)
      BY <1>2, <1>4, <3>1 DEF ChallengeInv, Keyed, Command
    <3>3. history[stored[c.key]] = c.text
      BY <1>2, <3>2 DEF Done, Command
    <3>4. stored[c.key] \in 1 .. Len(history)
      BY <1>1, <1>2, <1>4 DEF DraftTypeOK
    <3>5. QED
      BY <1>1, <3>3, <3>4, VersionInRange
  <2>4. /\ \A e \in After(c, a) : e \in calls \ {c} \/ Released(e)
        /\ calls \ {c} \subseteq After(c, a)
    BY <1>1, AfterAnswer
  <2>5. \A e \in calls' : Awaits(t, e) => (e = d /\ c.who = "page") \/ e \in calls \ {c}
    BY <1>1, <2>1, <2>2, <2>4, ReleasedRequest DEF Awaits
  <2>6. \A e \in calls \ {c} : Awaits(t, e) => c.who # "page"
    BY <1>1 DEF RequestsOK, OneAwaited, Awaits
  <2>7. \A e, f \in calls' : Awaits(t, e) /\ Awaits(t, f) => e = f
    BY <1>1, <2>5, <2>6 DEF RequestsOK, OneAwaited, Awaits
  <2>8. \A e \in calls' : Awaits(t, e) => AwaitedByTab(e, tab[t])
    <3>1. c.who = "page" => AwaitedByTab(d, tab[t])
      BY <1>2, <2>2 DEF ChallengeInv, AwaitedByTab
    <3>2. \A e \in calls : Awaits(t, e) => AwaitedByTab(e, tab[t])
      BY DEF ChallengeInv, Awaits
    <3>3. QED
      BY <2>5, <3>1, <3>2
  <2>9. /\ tab[t].status = "saved" => tab[t].shown \in Range(history)
        /\ Settled(tab[t], Awaiting(t)')
    <3>1. Awaiting(t)' <=> Awaiting(t)
      BY <2>1, <2>2, <2>4, <2>5 DEF Awaiting, Awaits
    <3>2. QED
      BY <1>2, <3>1 DEF ChallengeInv, SavedIsStored, Settled
  <2>10. /\ \A e \in calls' : \/ e \in calls \/ Released(e)
                              \/ /\ Asked(e) /\ e.tab = t /\ e.op \notin Writes
                                 /\ e.op = "reread" => e.text \in Range(history)
         /\ \A e \in calls : e.tab # t => e \in calls'
    BY <2>1, <2>2, <2>3, <2>4 DEF Writes
  <2>11. tab' = [tab EXCEPT ![t] = tab[t]] /\ tab[t] \in TabRows
    BY <1>1, <1>2, <2>1
  <2>12. QED
    BY <1>1, <1>2, <2>7, <2>8, <2>9, <2>10, <2>11, ChallengePageAsks
<1>5. QED
  BY <1>3, <1>4

LEMMA HearRereadStep ==
  ASSUME ChallengeInv, NEW c \in calls, NEW a \in {c.answer, Lost}, HearReread(c, a),
         UNCHANGED <<server, keys, changes>>
  PROVE  ChallengeInv'
<1>1. DraftTypeOK /\ RequestsOK /\ tab \in [Tabs -> TabRows]
  BY DEF ChallengeInv, RequestsOK
<1>2. /\ c \in RequestRows /\ c.tab \in Tabs /\ a \in AnswerRows /\ c.op = "reread"
      /\ a.code = "ok" => a.version \in 1 .. Len(history) /\ a.text = history[a.version]
      /\ calls' = After(c, a)
  BY <1>1, Heard DEF HearReread, Writes
<1>3. a.code = "ok" => a.text \in Range(history) /\ a.text \in Texts /\ a.version \in Nat
  BY <1>1, <1>2, VersionInRange
<1> DEFINE r == tab[c.tab]
           left == {p \in r.pending : p.expected # c.expected \/ p.text # c.text}
           read == IF a.code = "ok" THEN [r EXCEPT !.cached = a.version, !.pending = left] ELSE r
<1>4. r \in TabRows /\ left \subseteq r.pending
  BY <1>1, <1>2
<1>5. tab' = [tab EXCEPT ![c.tab] = Ended(read, c, a)]
  BY DEF HearReread
<1> HIDE DEF left
<1>6. /\ read \in TabRows /\ read.page = r.page /\ read.shown = r.shown
      /\ read.status = r.status /\ read.timer = r.timer /\ read.pending \subseteq r.pending
  BY <1>3, <1>4 DEF TabRows
<1> HIDE DEF read
<1>7. QED
  BY <1>2, <1>3, <1>5, <1>6, HearEndStep

LEMMA ChallengeServerStep ==
  ASSUME ChallengeInv, ServerNext, UNCHANGED tab
  PROVE  ChallengeInv'
<1>1. RequestsOK /\ DraftTypeOK
  BY DEF ChallengeInv, RequestsOK
<1> DEFINE H == Sent \cup KeptSaves
<1>2. Sent \subseteq H /\ Keyed(H, keys, history, handed, stored)
  BY DEF ChallengeInv
<1> HIDE DEF H
<1>3. /\ RequestsOK' /\ ServerGrows /\ keys' = keys
      /\ Keyed(H, keys', history', handed', stored')
      /\ Sent' \subseteq Sent
      /\ \A d \in calls' : \E c \in calls : SameRequest(c, d)
      /\ \A c \in calls : c.who = "page" => \E d \in calls' : SameRequest(c, d)
  BY <1>1, <1>2, EditorsServerStep
<1>4. Keyed(Sent' \cup KeptSaves', keys', history', handed', stored')
  <2>1. Sent' \cup KeptSaves' \subseteq H
    BY <1>3 DEF H, KeptSaves
  <2>2. QED
    BY <1>3, <2>1, KeyedSubset
<1>5. \A text \in Range(history) : text \in Range(history')
  <2>1. SUFFICES ASSUME NEW i \in DOMAIN history PROVE history[i] \in Range(history')
    BY DEF Range
  <2>2. i \in 1 .. Len(history)
    BY <1>1 DEF DraftTypeOK
  <2>3. Len(history) \in Nat /\ Len(history') \in Nat /\ DraftTypeOK'
    BY <1>1, <1>3 DEF RequestsOK, DraftTypeOK
  <2>4. i \in DOMAIN history' /\ history'[i] = history[i]
    BY <1>3, <2>2, <2>3 DEF ServerGrows, DraftTypeOK
  <2>5. QED
    BY <2>4 DEF Range
<1>6. tab' \in [Tabs -> TabRows] /\ SavedIsStored'
  BY <1>5 DEF ChallengeInv, SavedIsStored
<1>7. \A d \in calls' : d.op = "reread" => d.text \in Range(history')
  BY <1>3, <1>5 DEF ChallengeInv, SameRequest
<1>8. \A d \in calls' : d.who = "page" => AwaitedByTab(d, tab'[d.tab])
  <2>1. SUFFICES ASSUME NEW d \in calls', d.who = "page" PROVE AwaitedByTab(d, tab[d.tab])
    OBVIOUS
  <2>2. PICK c \in calls : SameRequest(c, d)
    BY <1>3
  <2>3. QED
    BY <2>1, <2>2 DEF ChallengeInv, SameRequest, AwaitedByTab
<1>9. ASSUME NEW t \in Tabs PROVE Settled(tab[t], Awaiting(t))'
  <2>1. Awaiting(t)' <=> Awaiting(t)
    BY <1>3 DEF Awaiting, Awaits, SameRequest
  <2>2. QED
    BY <2>1 DEF ChallengeInv, Settled
<1>10. QED
  BY <1>3, <1>4, <1>6, <1>7, <1>8, <1>9 DEF ChallengeInv

LEMMA ChallengeStart ==
  ASSUME ChallengeInit
  PROVE  ChallengeInv /\ TextsMade
<1>1. history = <<{}>> /\ calls = {} /\ stored = <<>> /\ keys = 0 /\ changes = 0 /\ handed = Nothing
  BY DEF ChallengeInit, DraftInit
<1>2. history \in Seq(Texts) /\ Len(history) = 1
  BY <1>1, NoText
<1>3. DraftTypeOK
  BY <1>1, <1>2, DraftAssumption DEF DraftTypeOK
<1>4. RequestsOK
  BY <1>1, <1>3 DEF RequestsOK, OneAwaited
<1>5. /\ NewTab \in TabRows /\ NewTab.status = "idle" /\ NewTab.pending = {}
      /\ \A asked : Settled(NewTab, asked)
  BY NoText DEF NewTab, TabRows, Settled
<1>6. tab \in [Tabs -> TabRows] /\ \A t \in Tabs : tab[t] = NewTab
  BY <1>5 DEF ChallengeInit
<1>7. Sent \cup KeptSaves = {}
  BY <1>1, <1>5, <1>6 DEF Sent, KeptSaves
<1>8. Keyed(Sent \cup KeptSaves, keys, history, handed, stored)
  BY <1>7 DEF Keyed
<1>9. TextsMade
  <2>1. \A t \in Tabs : tab[t].shown = {}
    BY <1>6 DEF NewTab
  <2>2. \A text \in Range(history) : text = {}
    BY <1>1 DEF Range
  <2>3. QED
    BY <1>1, <2>1, <2>2 DEF TextsMade
<1>10. QED
  BY <1>1, <1>4, <1>5, <1>6, <1>8, <1>9 DEF ChallengeInv, SavedIsStored

LEMMA ChallengeStep ==
  ASSUME ChallengeInv, TextsMade, ChallengeNext
  PROVE  ChallengeInv'
<1>1. CASE ServerNext /\ UNCHANGED tab
  BY <1>1, ChallengeServerStep
<1>2. CASE TabNext
  <2>1. PICK t \in Tabs : \/ OpenRecord(t) \/ Change(t) \/ PressSave(t) \/ Autosave(t)
                          \/ LeaveRecord(t) \/ ReloadRecord(t) \/ HearChallenge(t)
    BY <1>2 DEF TabNext
  <2>2. CASE HearChallenge(t)
    <3>1. PICK c \in calls : \E a \in {c.answer, Lost} :
            /\ HearLoad(c, a) \/ HearSave(c, a) \/ HearReread(c, a)
            /\ UNCHANGED <<server, keys, changes>>
      BY <2>2 DEF HearChallenge
    <3>2. QED
      BY <3>1, HearLoadStep, HearSaveStep, HearRereadStep
  <2>3. QED
    BY <2>1, <2>2, OpenRecordStep, ChangeStep, SaveNowStep, LeaveRecordStep, ReloadRecordStep
       DEF PressSave, Autosave
<1>3. QED
  BY <1>1, <1>2 DEF ChallengeNext

\* Whatever a step does, no text gets ahead of what was typed.
LEMMA TextsTab ==
  ASSUME ChallengeInv, TextsMade, UNCHANGED history, changes' \in Nat, changes' >= changes,
         NEW t \in Tabs, NEW r, tab' = [tab EXCEPT ![t] = r], r.shown \subseteq 1 .. changes',
         \A d \in calls' : d \in calls \/ Released(d) \/ d.text \subseteq 1 .. changes'
  PROVE  TextsMade'
<1>1. DraftTypeOK /\ tab \in [Tabs -> TabRows] /\ changes \in Nat
  BY DEF ChallengeInv, RequestsOK, DraftTypeOK
<1>2. 1 .. changes \subseteq 1 .. changes'
  BY <1>1
<1>3. ASSUME NEW d \in calls' PROVE d.text \subseteq 1 .. changes'
  <2>1. CASE Released(d)
    BY <1>1, <1>2, <2>1, ReleasedRequest DEF TextsMade
  <2>2. QED
    BY <1>2, <2>1 DEF TextsMade
<1>4. ASSUME NEW u \in Tabs PROVE tab'[u].shown \subseteq 1 .. changes'
  BY <1>1, <1>2 DEF TextsMade
<1>5. QED
  BY <1>2, <1>3, <1>4 DEF TextsMade

LEMMA TextsSaved ==
  ASSUME ChallengeInv, TextsMade, UNCHANGED <<server, changes>>, NEW t \in Tabs, NEW who,
         NEW r \in TabRows, r.shown \subseteq 1 .. changes, Save(t, who, Superseded(t), r)
  PROVE  TextsMade'
<1>1. changes' \in Nat /\ changes' >= changes /\ UNCHANGED <<history, changes>>
  BY DEF ChallengeInv, RequestsOK, DraftTypeOK, server
<1>2. PICK key, expected :
        /\ tab' = [tab EXCEPT ![t] = [r EXCEPT !.pending = r.pending \cup
                     {[expected |-> r.cached, text |-> tab[t].shown, key |-> key]}]]
        /\ calls' = Superseded(t) \cup {Request(t, "patch", who, key, expected, tab[t].shown)}
  BY DEF Save
<1> DEFINE new == [r EXCEPT !.pending = r.pending \cup
                     {[expected |-> r.cached, text |-> tab[t].shown, key |-> key]}]
<1>3. new.shown \subseteq 1 .. changes' /\ tab' = [tab EXCEPT ![t] = new]
  BY <1>1, <1>2 DEF TabRows
<1>4. Request(t, "patch", who, key, expected, tab[t].shown).text \subseteq 1 .. changes'
  BY <1>1 DEF Request, TextsMade
<1> HIDE DEF new
<1>5. QED
  BY <1>1, <1>2, <1>3, <1>4, SupersededRequests, TextsTab

LEMMA TextsHeard ==
  ASSUME ChallengeInv, TextsMade, NEW c \in calls, NEW a \in {c.answer, Lost},
         HearLoad(c, a) \/ HearSave(c, a) \/ HearReread(c, a),
         UNCHANGED <<server, keys, changes>>
  PROVE  TextsMade'
<1>1. DraftTypeOK /\ RequestsOK /\ tab \in [Tabs -> TabRows] 
      /\ changes \in Nat /\ changes' \in Nat /\ changes' >= changes
      /\ UNCHANGED <<history, changes>>
  BY DEF ChallengeInv, RequestsOK, DraftTypeOK, server
<1> DEFINE t == c.tab
<1>2. /\ c \in RequestRows /\ t \in Tabs /\ tab[t] \in TabRows
      /\ tab[t].shown \subseteq 1 .. changes /\ c.text \subseteq 1 .. changes
  BY <1>1 DEF DraftTypeOK, RequestRows, TextsMade
<1>3. c.op \notin Writes /\ a.code = "ok" => a.text \subseteq 1 .. changes
  BY <1>1, Heard, VersionInRange DEF TextsMade
<1>4. \A d \in After(c, a) : d \in calls \/ Released(d)
  BY <1>1, AfterAnswer
<1>5. ASSUME NEW r \in TabRows, r.shown = tab[t].shown,
             a.code = "ok" => a.text \subseteq 1 .. changes
      PROVE  /\ Ended(r, c, a).shown \subseteq 1 .. changes
             /\ Closed(r).shown \subseteq 1 .. changes
             /\ a.code = "ok" => [r EXCEPT !.page = "open", !.shown = a.text,
                                           !.status = "saved"].shown \subseteq 1 .. changes
  BY <1>2, <1>5 DEF Ended, Closed, TabRows
<1>6. CASE HearLoad(c, a) \/ HearReread(c, a)
  <2> DEFINE r == tab[t]
             read == IF a.code = "ok" THEN [r EXCEPT !.cached = a.version] ELSE r
             left == {p \in r.pending : p.expected # c.expected \/ p.text # c.text}
             back == IF a.code = "ok" THEN [r EXCEPT !.cached = a.version, !.pending = left]
                     ELSE r
  <2>1. /\ a.code = "ok" => a.text \subseteq 1 .. changes /\ a.version \in Nat
        /\ calls' = After(c, a)
    BY <1>1, <1>3, <1>6, Heard DEF HearLoad, HearReread, Writes, AnswerRows
  <2>2. /\ read \in TabRows /\ read.shown = tab[t].shown
        /\ back \in TabRows /\ back.shown = tab[t].shown
    <3>1. r \in TabRows /\ left \subseteq r.pending
      BY <1>2
    <3> HIDE DEF left
    <3>2. read \in TabRows /\ read.shown = tab[t].shown
      BY <2>1, <3>1 DEF TabRows
    <3>3. back \in TabRows /\ back.shown = tab[t].shown
      BY <2>1, <3>1 DEF TabRows
    <3>4. QED
      BY <3>2, <3>3
  <2>3. \E new : tab' = [tab EXCEPT ![t] = new] /\ new.shown \subseteq 1 .. changes
    <3>1. CASE HearLoad(c, a)
      <4>1. tab' = [tab EXCEPT ![t] =
              IF c.who # "page" THEN read
              ELSE IF a.code = "ok"
              THEN [read EXCEPT !.page = "open", !.shown = a.text, !.status = "saved"]
              ELSE Closed(r)]
        BY <3>1 DEF HearLoad
      <4>2. Closed(r).shown \subseteq 1 .. changes
        BY <1>2, <1>5, <2>1
      <4> HIDE DEF read, r
      <4>3. QED
        BY <1>2, <1>5, <2>1, <2>2, <4>1, <4>2
    <3>2. CASE HearReread(c, a)
      <4>1. tab' = [tab EXCEPT ![t] = Ended(back, c, a)]
        BY <3>2 DEF HearReread
      <4> HIDE DEF back
      <4>2. QED
        BY <1>5, <2>1, <2>2, <4>1
    <3>3. QED
      BY <1>6, <3>1, <3>2
  <2>4. QED
    BY <1>1, <1>2, <1>4, <2>1, <2>3, TextsTab
<1>7. CASE HearSave(c, a) /\ a.code = "ok"
  <2>1. [c EXCEPT !.op = "reread", !.answer = Waiting].text \subseteq 1 .. changes
    BY <1>2 DEF RequestRows
  <2>2. tab' = [tab EXCEPT ![t] = tab[t]]
    BY <1>1, <1>7 DEF HearSave
  <2>3. calls' = After(c, a) \cup {[c EXCEPT !.op = "reread", !.answer = Waiting]}
    BY <1>7 DEF HearSave
  <2>4. QED
    BY <1>1, <1>2, <1>4, <2>1, <2>2, <2>3, TextsTab
<1>8. CASE HearSave(c, a) /\ a.code # "ok"
  <2>1. tab' = [tab EXCEPT ![t] = Ended(tab[t], c, a)] /\ calls' = After(c, a)
    BY <1>8 DEF HearSave
  <2>2. Ended(tab[t], c, a).shown \subseteq 1 .. changes
    BY <1>2, <1>5, <1>8
  <2>3. QED
    BY <1>1, <1>2, <1>4, <2>1, <2>2, TextsTab
<1>9. QED
  BY <1>6, <1>7, <1>8

LEMMA TextsServed ==
  ASSUME ChallengeInv, TextsMade, ServerNext, UNCHANGED tab
  PROVE  TextsMade'
<1>1. DraftTypeOK /\ RequestsOK
  BY DEF ChallengeInv, RequestsOK
<1>2. UNCHANGED changes
  BY DEF ServerNext, Handle, TurnAway
<1>3. \A d \in calls' : \E c \in calls : SameRequest(c, d)
  <2> DEFINE H == Sent \cup KeptSaves
  <2>1. Sent \subseteq H /\ Keyed(H, keys, history, handed, stored)
    BY DEF ChallengeInv
  <2> HIDE DEF H
  <2>2. QED
    BY <1>1, <2>1, EditorsServerStep
<1>4. \A d \in calls' : d.text \subseteq 1 .. changes'
  BY <1>2, <1>3 DEF SameRequest, TextsMade
<1>5. UNCHANGED history \/ \E c \in calls : Write(c)
  BY DEF ServerNext, Handle, TurnAway, Read, Replay, Reject, server
<1>6. ASSUME NEW c \in calls, Write(c), NEW text \in Range(history')
      PROVE  text \subseteq 1 .. changes
  <2> DEFINE last == IF c.op = "patch" THEN c.text ELSE history[Latest]
  <2>1. history \in Seq(Texts) /\ Len(history) \in Nat \ {0} /\ history' = Append(history, last)
    BY <1>1, <1>6 DEF Write, DraftTypeOK
  <2>2. history[Latest] \in Range(history)
    BY <1>1, <2>1, VersionInRange DEF Latest
  <2>3. last \subseteq 1 .. changes
    BY <2>2 DEF TextsMade
  <2> HIDE DEF last
  <2>4. PICK i \in DOMAIN history' : text = history'[i]
    BY <1>6 DEF Range
  <2>5. i \in 1 .. Len(history) + 1
    BY <2>1, <2>4
  <2>6. text = last \/ text \in Range(history)
    BY <2>1, <2>4, <2>5, VersionInRange, <1>1
  <2>7. QED
    BY <2>3, <2>6 DEF TextsMade
<1>7. QED
  BY <1>2, <1>4, <1>5, <1>6 DEF TextsMade

LEMMA TextsStep ==
  ASSUME ChallengeInv, TextsMade, ChallengeNext
  PROVE  TextsMade'
<1>1. tab \in [Tabs -> TabRows] /\ changes \in Nat
  BY DEF ChallengeInv, RequestsOK, DraftTypeOK
<1>2. CASE ServerNext /\ UNCHANGED tab
  BY <1>2, TextsServed
<1>3. CASE TabNext
  <2>1. PICK t \in Tabs : \/ OpenRecord(t) \/ Change(t) \/ PressSave(t) \/ Autosave(t)
                          \/ LeaveRecord(t) \/ ReloadRecord(t) \/ HearChallenge(t)
    BY <1>3 DEF TabNext
  <2>2. tab[t] \in TabRows /\ tab[t].shown \subseteq 1 .. changes
    BY <1>1 DEF TextsMade
  <2>3. CASE OpenRecord(t)
    <3>1. [tab[t] EXCEPT !.page = "loading"].shown \subseteq 1 .. changes
      BY <2>2 DEF TabRows
    <3>2. Request(t, "load", "page", 0, 0, {}).text \subseteq 1 .. changes
      BY DEF Request
    <3>3. /\ tab' = [tab EXCEPT ![t] = [tab[t] EXCEPT !.page = "loading"]]
          /\ calls' = calls \cup {Request(t, "load", "page", 0, 0, {})}
          /\ UNCHANGED <<history, changes>>
      BY <2>3 DEF OpenRecord, server
    <3>4. changes' \in Nat /\ changes' >= changes
      BY <1>1, <3>3
    <3>5. QED
      BY <3>1, <3>2, <3>3, <3>4, TextsTab
  <2>4. CASE Change(t)
    <3>1. /\ tab' = [tab EXCEPT ![t] = Changed(tab[t], changes + 1)] /\ changes' = changes + 1
          /\ calls' = calls /\ UNCHANGED history
      BY <2>4 DEF Change, server
    <3>2. Changed(tab[t], changes + 1).shown = tab[t].shown \cup {changes + 1}
      BY <2>2 DEF Changed, TabRows
    <3>3. changes' \in Nat /\ changes' >= changes /\ 1 .. changes \subseteq 1 .. changes'
          /\ changes + 1 \in 1 .. changes'
      BY <1>1, <3>1
    <3>4. Changed(tab[t], changes + 1).shown \subseteq 1 .. changes'
      BY <2>2, <3>2, <3>3
    <3>5. QED
      BY <3>1, <3>3, <3>4, TextsTab
  <2>5. CASE SaveNow(t)
    <3> DEFINE r == [tab[t] EXCEPT !.timer = FALSE, !.status = "saving"]
    <3>1. r \in TabRows /\ r.shown \subseteq 1 .. changes
      BY <2>2 DEF TabRows
    <3>2. Save(t, "page", Superseded(t), r) /\ UNCHANGED <<server, changes>>
      BY <2>5 DEF SaveNow
    <3> HIDE DEF r
    <3>3. QED
      BY <3>1, <3>2, TextsSaved
  <2>6. CASE LeaveRecord(t)
    <3>1. Closed(tab[t]) \in TabRows /\ Closed(tab[t]).shown \subseteq 1 .. changes
      <4>1. Closed(tab[t]).shown = {}
        BY <2>2 DEF Closed, TabRows
      <4>2. QED
        BY <2>2, <4>1, ClosedTyped
    <3>2. /\ UNCHANGED <<server, changes, history>>
          /\ changes' \in Nat /\ changes' >= changes
      BY <1>1, <2>6 DEF LeaveRecord, server
    <3>3. CASE Save(t, "gateway", Superseded(t), Closed(tab[t]))
      BY <3>1, <3>2, <3>3, TextsSaved
    <3>4. CASE tab' = [tab EXCEPT ![t] = Closed(tab[t])] /\ calls' = Superseded(t)
      BY <3>1, <3>2, <3>4, SupersededRequests, TextsTab
    <3>5. QED
      BY <2>6, <3>3, <3>4 DEF LeaveRecord
  <2>7. CASE ReloadRecord(t)
    <3>1. /\ tab' = [tab EXCEPT ![t] = NewTab] /\ calls' = Abandoned(t)
          /\ UNCHANGED <<history, changes>> /\ changes' \in Nat /\ changes' >= changes
      BY <1>1, <2>7 DEF ReloadRecord, server
    <3>2. NewTab.shown \subseteq 1 .. changes
      BY DEF NewTab
    <3>3. QED
      BY <3>1, <3>2, AbandonedRequests, TextsTab
  <2>8. CASE HearChallenge(t)
    BY <2>8, TextsHeard DEF HearChallenge
  <2>9. QED
    BY <2>1, <2>3, <2>4, <2>5, <2>6, <2>7, <2>8 DEF PressSave, Autosave
<1>4. QED
  BY <1>2, <1>3 DEF ChallengeNext

LEMMA TabsStay ==
  ASSUME NEW S, tab \in [Tabs -> S], NEW t \in Tabs, NEW r, tab' = [tab EXCEPT ![t] = r],
         r.page = "open" /\ tab[t].page = "open" => tab[t].shown \ Stored' \subseteq r.shown
  PROVE  \A u \in Tabs : tab[u].page = "open" /\ tab'[u].page = "open"
                           => tab[u].shown \ Stored' \subseteq tab'[u].shown
<1>1. \A u \in Tabs : tab'[u] = IF u = t THEN r ELSE tab[u]
  OBVIOUS
<1>2. QED
  BY <1>1

\* What is taken off an open page is in a version.
LEMMA UnstoredStep ==
  ASSUME ChallengeInv, ChallengeNext
  PROVE  \A t \in Tabs : tab[t].page = "open" /\ tab'[t].page = "open"
                           => tab[t].shown \ Stored' \subseteq tab'[t].shown
<1>1. tab \in [Tabs -> TabRows] /\ DraftTypeOK /\ RequestsOK
  BY DEF ChallengeInv, RequestsOK
<1>2. CASE UNCHANGED tab
  BY <1>2
<1>3. CASE TabNext
  <2>1. PICK t \in Tabs : \/ OpenRecord(t) \/ Change(t) \/ PressSave(t) \/ Autosave(t)
                          \/ LeaveRecord(t) \/ ReloadRecord(t) \/ HearChallenge(t)
    BY <1>3 DEF TabNext
  <2>2. tab[t] \in TabRows
    BY <1>1
  <2>3. CASE OpenRecord(t)
    BY <1>1, <2>3, TabsStay DEF OpenRecord
  <2>4. CASE Change(t)
    <3>1. tab[t].shown \subseteq Changed(tab[t], changes + 1).shown
      BY <2>2 DEF Changed, TabRows
    <3>2. QED
      BY <1>1, <2>4, <3>1, TabsStay DEF Change
  <2>5. CASE PressSave(t) \/ Autosave(t)
    <3> DEFINE r == [tab[t] EXCEPT !.timer = FALSE, !.status = "saving"]
    <3>1. Save(t, "page", Superseded(t), r)
      BY <2>5 DEF PressSave, Autosave, SaveNow
    <3>2. r \in TabRows /\ r.shown = tab[t].shown
      BY <2>2 DEF TabRows
    <3> HIDE DEF r
    <3>3. PICK pending : tab' = [tab EXCEPT ![t] = [r EXCEPT !.pending = pending]]
      BY <3>1 DEF Save
    <3> DEFINE s == [r EXCEPT !.pending = pending]
    <3>4. s.shown = tab[t].shown /\ tab' = [tab EXCEPT ![t] = s]
      BY <3>2, <3>3 DEF TabRows
    <3> HIDE DEF s
    <3>5. QED
      BY <1>1, <3>4, TabsStay
  <2>6. CASE LeaveRecord(t)
    <3>1. Closed(tab[t]).page = "closed" /\ Closed(tab[t]) \in TabRows
      BY <2>2, ClosedTyped
    <3> DEFINE r == Closed(tab[t])
    <3>2. \/ tab' = [tab EXCEPT ![t] = r]
          \/ \E pending : tab' = [tab EXCEPT ![t] = [r EXCEPT !.pending = pending]]
      BY <2>6 DEF LeaveRecord, Save
    <3> HIDE DEF r
    <3>3. \A pending : [r EXCEPT !.pending = pending].page = "closed"
      BY <3>1 DEF r, TabRows
    <3>4. r.page = "closed"
      BY <3>1 DEF r
    <3>5. CASE tab' = [tab EXCEPT ![t] = r]
      BY <1>1, <3>4, <3>5, TabsStay
    <3>6. ASSUME NEW pending, tab' = [tab EXCEPT ![t] = [r EXCEPT !.pending = pending]]
          PROVE  \A u \in Tabs : tab[u].page = "open" /\ tab'[u].page = "open"
                                   => tab[u].shown \ Stored' \subseteq tab'[u].shown
      <4> DEFINE s == [r EXCEPT !.pending = pending]
      <4>1. s.page = "closed" /\ tab' = [tab EXCEPT ![t] = s]
        BY <3>3, <3>6
      <4> HIDE DEF s
      <4>2. QED
        BY <1>1, <4>1, TabsStay
    <3>7. QED
      BY <3>2, <3>5, <3>6
  <2>7. CASE ReloadRecord(t)
    BY <1>1, <2>7, TabsStay DEF ReloadRecord, NewTab
  <2>8. CASE HearChallenge(t)
    <3>1. PICK c \in calls : c.tab = t /\ \E a \in {c.answer, Lost} :
            /\ HearLoad(c, a) \/ HearSave(c, a) \/ HearReread(c, a)
            /\ UNCHANGED <<server, keys, changes>>
      BY <2>8 DEF HearChallenge
    <3>2. PICK a \in {c.answer, Lost} :
            /\ HearLoad(c, a) \/ HearSave(c, a) \/ HearReread(c, a)
            /\ UNCHANGED <<server, keys, changes>>
      BY <3>1
    <3>3. a \in AnswerRows /\ a.version \in Nat /\ c.who = "page" => AwaitedByTab(c, tab[t])
      BY <1>1, <3>1, Heard DEF ChallengeInv, AnswerRows
    <3>4. CASE HearLoad(c, a)
      <4> DEFINE read == IF a.code = "ok" THEN [tab[t] EXCEPT !.cached = a.version] ELSE tab[t]
                 new == IF c.who # "page" THEN read
                        ELSE IF a.code = "ok"
                        THEN [read EXCEPT !.page = "open", !.shown = a.text, !.status = "saved"]
                        ELSE Closed(tab[t])
      <4>1. tab' = [tab EXCEPT ![t] = new]
        BY <3>1, <3>4 DEF HearLoad
      <4>2. read.shown = tab[t].shown
        BY <2>2 DEF TabRows
      <4> HIDE DEF read
      <4>3. new.page = "open" /\ tab[t].page = "open" => tab[t].shown \subseteq new.shown
        BY <1>1, <3>1, <3>2, <3>4, <4>2 DEF HearLoad, AwaitedByTab, ChallengeInv
      <4> HIDE DEF new
      <4>4. QED
        BY <1>1, <4>1, <4>3, TabsStay
    <3>5. CASE HearSave(c, a)
      <4>1. CASE UNCHANGED tab
        BY <4>1
      <4>2. CASE a.code # "ok"
        <5> DEFINE new == Ended(tab[t], c, a)
        <5>1. tab' = [tab EXCEPT ![t] = new]
          BY <3>1, <3>5, <4>2 DEF HearSave
        <5>2. new.shown = tab[t].shown
          BY <2>2, <4>2 DEF Ended, TabRows
        <5> HIDE DEF new
        <5>3. QED
          BY <1>1, <5>1, <5>2, TabsStay
      <4>3. QED
        BY <3>5, <4>1, <4>2 DEF HearSave
    <3>6. CASE HearReread(c, a)
      <4> DEFINE left == {p \in tab[t].pending : p.expected # c.expected \/ p.text # c.text}
                 read == IF a.code = "ok"
                         THEN [tab[t] EXCEPT !.cached = a.version, !.pending = left]
                         ELSE tab[t]
                 new == Ended(read, c, a)
      <4>1. tab' = [tab EXCEPT ![t] = new]
        BY <3>1, <3>6 DEF HearReread
      <4>2. read \in TabRows /\ read.shown = tab[t].shown
        <5>1. left \subseteq tab[t].pending
          OBVIOUS
        <5> HIDE DEF left
        <5>2. a.code = "ok" => a.version \in Nat
          BY <1>1, <3>1, Heard DEF AnswerRows
        <5>3. QED
          BY <2>2, <5>1, <5>2 DEF TabRows
      <4>3. c.text \in Range(history) /\ Range(history') = Range(history)
        BY <3>2, <3>6 DEF HearReread, ChallengeInv, server
      <4> HIDE DEF read
      <4>4. new.shown = read.shown \/ read.shown = c.text
        BY <4>2 DEF Ended, TabRows
      <4>5. c.text \subseteq Stored'
        BY <4>3 DEF Stored
      <4> HIDE DEF new
      <4>6. QED
        BY <1>1, <4>1, <4>2, <4>4, <4>5, TabsStay
    <3>7. QED
      BY <3>2, <3>4, <3>5, <3>6
  <2>9. QED
    BY <2>1, <2>3, <2>4, <2>5, <2>6, <2>7, <2>8
<1>4. QED
  BY <1>2, <1>3 DEF ChallengeNext

-----------------------------------------------------------------------------
(***************************************************************************)
(* The proposal editor.                                                    *)
(***************************************************************************)

LEMMA CommandsAreNotNothing ==
  /\ \A p \in SaveRows : p # Nothing
  /\ \A p \in SubmissionRows : p # Nothing
  BY DraftAssumption DEF SaveRows, SubmissionRows, Commands

LEMMA KeptCommandIn ==
  ASSUME NEW t \in Tabs
  PROVE  KeptBy(form[t]) \subseteq KeptCommands
  BY DEF KeptCommands

LEMMA KeptCommandsStep ==
  ASSUME form \in [Tabs -> FormRows], NEW t \in Tabs, NEW r, form' = [form EXCEPT ![t] = r],
         NEW H, KeptBy(r) \subseteq KeptCommands \cup H
  PROVE  KeptCommands' \subseteq KeptCommands \cup H
<1>1. SUFFICES ASSUME NEW u \in Tabs PROVE KeptBy(form'[u]) \subseteq KeptCommands \cup H
  BY DEF KeptCommands, KeptBy
<1>2. CASE u = t
  <2>1. form'[u] = r
    BY <1>2
  <2>2. QED
    BY <2>1
<1>3. CASE u # t
  <2>1. form'[u] = form[u]
    BY <1>3
  <2>2. QED
    BY <2>1, KeptCommandIn
<1>4. QED
  BY <1>2, <1>3

\* What has to be shown of a step of the form of tab t.
LEMMA FormPage ==
  ASSUME ProposalInv, UNCHANGED server, changes' \in 0 .. MaxChanges,
         keys' \in Nat, keys' >= keys,
         NEW t \in Tabs, NEW r \in FormRows, form' = [form EXCEPT ![t] = r],
         \A d \in calls' : d \in calls \/ Released(d) \/ (Asked(d) /\ d.tab = t),
         \A d \in calls' : d.who # "gateway",
         \A c \in calls : c.tab # t => c \in calls',
         Keyed(Sent' \cup KeptCommands', keys', history, handed, stored),
         Seen(Sent' \cup KeptCommands', history),
         FormOK(r, history, handed),
         \A d \in calls' : Awaits(t, d) => AwaitedByForm(d, r),
         \A d, e \in calls' : Awaits(t, d) /\ Awaits(t, e) => d = e,
         r.busy # "no" => \E c \in calls' : Awaits(t, c)
  PROVE  ProposalInv'
<1>1. DraftTypeOK /\ OneAwaited /\ RequestsOK /\ form \in [Tabs -> FormRows]
  BY DEF ProposalInv, RequestsOK
<1>2. UNCHANGED <<history, handed, stored>>
  BY DEF server
<1>3. \A u \in Tabs : form'[u] = IF u = t THEN r ELSE form[u]
  BY <1>1
<1>4. ASSUME NEW d \in calls', d.who = "page", d.tab # t
      PROVE  d \in calls
  BY <1>1, <1>4, ReleasedRequest
<1>5. OneAwaited'
  <2>1. SUFFICES ASSUME NEW d \in calls', NEW e \in calls', d.tab = e.tab,
                        d.who = "page", e.who = "page"
                 PROVE  d = e
    BY DEF OneAwaited
  <2>2. CASE d.tab = t
    BY <2>1, <2>2 DEF Awaits
  <2>3. CASE d.tab # t
    BY <1>1, <1>4, <2>1, <2>3 DEF OneAwaited
  <2>4. QED
    BY <2>2, <2>3
<1>6. RequestsOK'
  BY <1>1, <1>5, RequestsStep
<1>7. form' \in [Tabs -> FormRows]
  BY <1>1
<1>8. /\ Keyed(Sent \cup KeptCommands, keys, history, handed, stored)'
      /\ Seen(Sent \cup KeptCommands, history)'
  BY <1>2 DEF Keyed, Seen
<1>9. \A u \in Tabs : FormOK(form'[u], history', handed')
  BY <1>2, <1>3 DEF ProposalInv
<1>10. ASSUME NEW d \in calls', d.who = "page" PROVE AwaitedByForm(d, form'[d.tab])
  <2>1. d.tab \in Tabs
    BY <1>6 DEF RequestsOK, DraftTypeOK, RequestRows
  <2>2. CASE d.tab = t
    BY <1>3, <1>10, <2>1, <2>2 DEF Awaits
  <2>3. CASE d.tab # t
    BY <1>3, <1>4, <1>10, <2>1, <2>3 DEF ProposalInv
  <2>4. QED
    BY <2>2, <2>3
<1>11. CommandsAreAwaited'
  <2>1. SUFFICES ASSUME NEW u \in Tabs, form'[u].busy # "no"
                 PROVE  \E c \in calls' : Awaits(u, c)
    BY DEF CommandsAreAwaited, Awaits
  <2>2. CASE u = t
    BY <1>3, <2>1, <2>2
  <2>3. CASE u # t
    BY <1>3, <2>1, <2>3 DEF ProposalInv, CommandsAreAwaited, Awaits
  <2>4. QED
    BY <2>2, <2>3
<1>12. QED
  BY <1>6, <1>7, <1>8, <1>9, <1>10, <1>11 DEF ProposalInv

LEMMA SeenSubset ==
  ASSUME NEW H, NEW G, NEW texts, Seen(H, texts), G \subseteq H
  PROVE  Seen(G, texts)
  BY DEF Seen

\* The same, if no command is new.
LEMMA FormPageAsks ==
  ASSUME ProposalInv, UNCHANGED server, changes' \in 0 .. MaxChanges, keys' = keys,
         NEW t \in Tabs, NEW r \in FormRows, form' = [form EXCEPT ![t] = r],
         KeptBy(r) \subseteq KeptCommands,
         \A d \in calls' : \/ d \in calls \/ Released(d)
                           \/ Asked(d) /\ d.tab = t /\ d.op \notin Writes,
         \A d \in calls' : d.who # "gateway",
         \A c \in calls : c.tab # t => c \in calls',
         FormOK(r, history, handed),
         \A d \in calls' : Awaits(t, d) => AwaitedByForm(d, r),
         \A d, e \in calls' : Awaits(t, d) /\ Awaits(t, e) => d = e,
         r.busy # "no" => \E c \in calls' : Awaits(t, c)
  PROVE  ProposalInv'
<1>1. DraftTypeOK /\ form \in [Tabs -> FormRows] /\ keys \in Nat
  BY DEF ProposalInv, RequestsOK, DraftTypeOK
<1>2. Sent' \subseteq Sent
  BY <1>1, SentNoMore
<1>3. KeptCommands' \subseteq KeptCommands \cup {}
  BY <1>1, KeptCommandsStep
<1>4. /\ Keyed(Sent' \cup KeptCommands', keys', history, handed, stored)
      /\ Seen(Sent' \cup KeptCommands', history)
  BY <1>2, <1>3, KeyedSubset, SeenSubset DEF ProposalInv
<1>5. keys' \in Nat /\ keys' >= keys
  BY <1>1
<1>6. \A d \in calls' : d \in calls \/ Released(d) \/ (Asked(d) /\ d.tab = t)
  OBVIOUS
<1>7. QED
  BY <1>4, <1>5, <1>6, FormPage

LEMMA CommandAsked ==
  ASSUME NEW t \in Tabs, NEW h, h.op \in Writes, h.key \in Nat, h.expected \in Nat, h.text \in Texts,
         NEW d, d = Request(t, h.op, "page", h.key, h.expected, h.text)
  PROVE  /\ Asked(d) /\ d.tab = t /\ d.who = "page" /\ d.op = h.op /\ d.key = h.key
         /\ d.expected = h.expected /\ d.text = h.text
<1>1. ASSUME NEW op \in {"load", "reread", "patch", "submit"}, op = h.op,
             NEW key \in Nat, key = h.key, NEW expected \in Nat, expected = h.expected,
             NEW text \in Texts, text = h.text
      PROVE  /\ Asked(d) /\ d.tab = t /\ d.who = "page" /\ d.op = h.op /\ d.key = h.key
             /\ d.expected = h.expected /\ d.text = h.text
  <2>1. d = Request(t, op, "page", key, expected, text)
    BY <1>1
  <2>2. QED
    BY <1>1, <2>1, RequestTyped
<1>2. h.op \in {"load", "reread", "patch", "submit"}
  BY DEF Writes
<1>3. QED
  BY <1>1, <1>2

\* The same, if one command goes out, under a new key or as it was before.
LEMMA FormPageSends ==
  ASSUME ProposalInv, UNCHANGED server, changes' \in 0 .. MaxChanges,
         NEW t \in Tabs, NEW r \in FormRows, form' = [form EXCEPT ![t] = r],
         NEW h, KeptBy(r) \subseteq KeptCommands \cup {h},
         \/ h.key = keys + 1 /\ keys' = keys + 1 /\ Seen({h}, history)
         \/ h \in KeptCommands /\ keys' = keys,
         NEW on, calls' = on \cup {Request(t, h.op, "page", h.key, h.expected, h.text)},
         h.op \in Writes, h.key \in Nat, h.expected \in Nat, h.text \in Texts,
         h = Command(h.op, h.key, h.expected, h.text),
         \A d \in on : d \in calls \/ Released(d),
         \A d \in on : d.who # "gateway" /\ ~Awaits(t, d),
         \A c \in calls : c.tab # t => c \in on,
         FormOK(r, history, handed),
         AwaitedByForm(Request(t, h.op, "page", h.key, h.expected, h.text), r)
  PROVE  ProposalInv'
<1>1. DraftTypeOK /\ form \in [Tabs -> FormRows] /\ keys \in Nat /\ DOMAIN stored \subseteq 1 .. keys
  BY DEF ProposalInv, RequestsOK, DraftTypeOK
<1> DEFINE d == Request(t, h.op, "page", h.key, h.expected, h.text)
<1>2. /\ Asked(d) /\ d.tab = t /\ d.who = "page" /\ d.op = h.op /\ d.key = h.key
      /\ d.expected = h.expected /\ d.text = h.text
  BY CommandAsked
<1>3. calls' = on \cup {d} /\ AwaitedByForm(d, r)
  OBVIOUS
<1> HIDE DEF d
<1>4. Sent' \subseteq Sent \cup {h}
  BY <1>1, <1>2, <1>3, SentStep
<1>5. KeptCommands' \subseteq KeptCommands \cup {h}
  BY <1>1, KeptCommandsStep
<1>6. /\ Keyed(Sent \cup KeptCommands, keys, history, handed, stored)
      /\ Seen(Sent \cup KeptCommands, history)
  BY DEF ProposalInv
<1>7. Sent' \cup KeptCommands' \subseteq (Sent \cup KeptCommands) \cup {h}
  BY <1>4, <1>5
<1>8. /\ keys' \in Nat /\ keys' >= keys
      /\ Keyed(Sent' \cup KeptCommands', keys', history, handed, stored)
      /\ Seen(Sent' \cup KeptCommands', history)
  <2>1. CASE h.key = keys + 1 /\ keys' = keys + 1 /\ Seen({h}, history)
    <3>1. Keyed(Sent' \cup KeptCommands', keys', history, handed, stored)
      BY <1>1, <1>6, <1>7, <2>1, KeyedWithNew
    <3>2. Seen(Sent' \cup KeptCommands', history)
      BY <1>6, <1>7, <2>1 DEF Seen
    <3>3. QED
      BY <1>1, <2>1, <3>1, <3>2
  <2>2. CASE h \in KeptCommands /\ keys' = keys
    <3>1. Sent' \cup KeptCommands' \subseteq Sent \cup KeptCommands
      BY <1>7, <2>2
    <3>2. QED
      BY <1>1, <1>6, <2>2, <3>1, KeyedSubset, SeenSubset
  <2>3. QED
    BY <2>1, <2>2
<1>9. /\ \A e \in calls' : e \in calls \/ Released(e) \/ (Asked(e) /\ e.tab = t)
      /\ \A e \in calls' : e.who # "gateway"
      /\ \A c \in calls : c.tab # t => c \in calls'
  BY <1>2, <1>3
<1>10. \A e \in calls' : Awaits(t, e) => e = d
  BY <1>3
<1>11. d \in calls' /\ Awaits(t, d)
  BY <1>2, <1>3 DEF Awaits
<1>12. QED
  BY <1>3, <1>8, <1>9, <1>10, <1>11, FormPage

LEMMA NewFormTyped ==
  /\ NewForm \in FormRows /\ NewForm.page = "closed" /\ NewForm.busy = "no"
  /\ NewForm.pendingSave = Nothing /\ NewForm.pendingSubmit = Nothing /\ ~NewForm.uncertain
  /\ KeptBy(NewForm) = {}
  /\ \A texts, final : FormOK(NewForm, texts, final)
<1>1. /\ NewForm \in FormRows /\ NewForm.page = "closed" /\ NewForm.busy = "no"
      /\ NewForm.pendingSave = Nothing /\ NewForm.pendingSubmit = Nothing /\ ~NewForm.uncertain
  BY NoText DEF NewForm, FormRows
<1>2. QED
  BY <1>1 DEF KeptBy, FormOK

LEMMA OpenFormStep ==
  ASSUME ProposalInv, NEW t \in Tabs, OpenForm(t)
  PROVE  ProposalInv'
<1> DEFINE r == [NewForm EXCEPT !.page = "loading"]
           d == Request(t, "load", "page", 0, 0, {})
<1>1. DraftTypeOK /\ form[t] \in FormRows /\ changes \in 0 .. MaxChanges
  BY DEF ProposalInv, RequestsOK, DraftTypeOK
<1>2. form[t].page = "closed" /\ form[t] = NewForm
  BY DEF OpenForm, ProposalInv, FormOK
<1>3. /\ form' = [form EXCEPT ![t] = r] /\ calls' = calls \cup {d}
      /\ UNCHANGED <<server, keys, changes>>
  BY <1>2 DEF OpenForm
<1>4. /\ r \in FormRows /\ r.page = "loading" /\ r.busy = "no" /\ r.pendingSave = Nothing
      /\ r.pendingSubmit = Nothing
  BY NewFormTyped DEF FormRows
<1>5. Asked(d) /\ d.tab = t /\ d.op = "load" /\ d.who = "page"
  BY NoText, RequestTyped
<1>6. FormOK(r, history, handed)
  <2>1. r = [NewForm EXCEPT !.page = "loading"]
    OBVIOUS
  <2> HIDE DEF r
  <2>2. QED
    BY <1>4, <2>1 DEF FormOK
<1> HIDE DEF r, d
<1>7. ASSUME NEW c \in calls, Awaits(t, c) PROVE FALSE
  BY <1>2, <1>7 DEF ProposalInv, AwaitedByForm, Awaits
<1>8. \A e \in calls' : Awaits(t, e) => e = d
  BY <1>3, <1>7
<1>9. AwaitedByForm(d, r) /\ KeptBy(r) = {}
  BY <1>4, <1>5 DEF AwaitedByForm, KeptBy
<1>10. /\ \A e \in calls' : e \in calls \/ (Asked(e) /\ e.tab = t /\ e.op \notin Writes)
       /\ \A e \in calls' : e.who # "gateway"
       /\ \A c \in calls : c.tab # t => c \in calls'
  BY <1>3, <1>5 DEF Writes, ProposalInv
<1>11. /\ \A e \in calls' : Awaits(t, e) => AwaitedByForm(e, r)
       /\ \A e, g \in calls' : Awaits(t, e) /\ Awaits(t, g) => e = g
       /\ KeptBy(r) \subseteq KeptCommands
  BY <1>8, <1>9
<1>12. QED
  BY <1>1, <1>3, <1>4, <1>6, <1>10, <1>11, FormPageAsks

\* Typing and attaching: more is in the draft, and nothing else is different but
\* what counts as attached.
MoreDrafted(f, r, n, attached) ==
  /\ r.page = f.page /\ r.saved = f.saved /\ r.version = f.version
  /\ r.busy = f.busy /\ r.wanted = f.wanted /\ r.pendingSave = f.pendingSave
  /\ r.pendingSubmit = f.pendingSubmit /\ r.uncertain = f.uncertain
  /\ r.draft = f.draft \cup {n} /\ r.attached = attached

Drafted(f, n, attached) == [f EXCEPT !.draft = f.draft \cup {n}, !.attached = attached]

LEMMA DraftedTyped ==
  ASSUME NEW f \in FormRows, NEW n \in 1 .. MaxChanges, NEW attached \in Texts
  PROVE  /\ Drafted(f, n, attached) \in FormRows
         /\ MoreDrafted(f, Drafted(f, n, attached), n, attached)
<1>1. f.draft \cup {n} \in Texts
  BY DEF FormRows, Texts
<1>2. QED
  BY <1>1 DEF FormRows, Drafted, MoreDrafted

LEMMA DraftGrowsStep ==
  ASSUME ProposalInv, NEW t \in Tabs, NEW n \in 1 .. MaxChanges, NEW attached \in Texts,
         UNCHANGED <<server, calls, keys>>, changes' \in 0 .. MaxChanges,
         NEW r \in FormRows, form' = [form EXCEPT ![t] = r], MoreDrafted(form[t], r, n, attached),
         form[t].page = "open", form[t].busy # "send",
         form[t].attached \subseteq attached,
         form[t].pendingSubmit # Nothing => n \in attached
  PROVE  ProposalInv'
<1> DEFINE f == form[t]
<1>1. f \in FormRows /\ FormOK(f, history, handed)
  BY DEF ProposalInv
<1>2. MoreDrafted(f, r, n, attached)
  OBVIOUS
<1>3. form' = [form EXCEPT ![t] = r]
  OBVIOUS
<1>4. FormOK(r, history, handed)
  BY <1>1, <1>2 DEF FormOK, MoreDrafted
<1>5. KeptBy(r) = KeptBy(f)
  BY <1>2 DEF KeptBy, MoreDrafted
<1>6. \A d : AwaitedByForm(d, f) => AwaitedByForm(d, r)
  BY <1>2 DEF AwaitedByForm, MoreDrafted
<1> HIDE DEF f
<1>7. KeptBy(r) \subseteq KeptCommands
  BY <1>5, KeptCommandIn DEF f
<1>8. \A d \in calls' : Awaits(t, d) => AwaitedByForm(d, r)
  BY <1>6 DEF ProposalInv, Awaits, f
<1>9. r.busy # "no" => \E c \in calls' : Awaits(t, c)
  BY <1>2 DEF ProposalInv, CommandsAreAwaited, f, MoreDrafted
<1>10. \A d, e \in calls' : Awaits(t, d) /\ Awaits(t, e) => d = e
  BY DEF ProposalInv, RequestsOK, OneAwaited, Awaits
<1>11. \A d \in calls' : d \in calls /\ d.who # "gateway"
  BY DEF ProposalInv
<1>12. QED
  BY <1>2, <1>3, <1>4, <1>7, <1>8, <1>9, <1>10, <1>11, FormPageAsks

LEMMA TypingStep ==
  ASSUME ProposalInv, NEW t \in Tabs, Type(t)
  PROVE  ProposalInv'
<1> DEFINE f == form[t]
<1>1. f \in FormRows /\ FormOK(f, history, handed) /\ changes \in 0 .. MaxChanges /\ MaxChanges \in Nat
  BY DraftAssumption DEF ProposalInv, RequestsOK, DraftTypeOK
<1>2. /\ f.page = "open" /\ f.busy # "send" /\ ~f.uncertain
      /\ changes < MaxChanges /\ changes' = changes + 1
      /\ UNCHANGED <<server, calls, keys>>
      /\ form' = [form EXCEPT ![t].draft = @ \cup {changes + 1}]
  BY DEF Type, Typable
<1>3. f.pendingSubmit = Nothing /\ f.attached \in Texts
  BY <1>1, <1>2 DEF FormOK, FormRows
<1>4. changes + 1 \in 1 .. MaxChanges /\ changes' \in 0 .. MaxChanges
  BY <1>1, <1>2
<1>5. form' = [form EXCEPT ![t] = [f EXCEPT !.draft = f.draft \cup {changes + 1},
                                            !.attached = f.attached]]
  BY <1>1, <1>2 DEF FormRows
<1> DEFINE n == changes + 1
           attached == f.attached
           r == Drafted(f, n, attached)
<1>6. /\ n \in 1 .. MaxChanges /\ attached \in Texts
      /\ form' = [form EXCEPT ![t] = r] /\ f.attached \subseteq attached
  BY <1>3, <1>4, <1>5 DEF Drafted
<1>7. /\ form[t].page = "open" /\ form[t].busy # "send" /\ form[t].pendingSubmit = Nothing
      /\ changes' \in 0 .. MaxChanges /\ UNCHANGED <<server, calls, keys>>
  BY <1>2, <1>3, <1>4
<1> HIDE DEF n, attached, r, f
<1>8. form[t].attached \subseteq attached
  BY <1>6 DEF f
<1>9. r \in FormRows /\ MoreDrafted(form[t], r, n, attached)
  BY <1>1, <1>6, DraftedTyped DEF f, r
<1>10. form' = [form EXCEPT ![t] = r]
  BY <1>6
<1>11. n \in 1 .. MaxChanges /\ attached \in Texts /\ (form[t].pendingSubmit # Nothing => n \in attached)
  BY <1>6, <1>7
<1>12. QED
  BY <1>7, <1>8, <1>9, <1>10, <1>11, DraftGrowsStep

LEMMA AttachStep ==
  ASSUME ProposalInv, NEW t \in Tabs, Attach(t)
  PROVE  ProposalInv'
<1> DEFINE f == form[t]
<1>1. f \in FormRows /\ changes \in 0 .. MaxChanges /\ MaxChanges \in Nat /\ form \in [Tabs -> FormRows]
  BY DraftAssumption DEF ProposalInv, RequestsOK, DraftTypeOK
<1>2. /\ f.page = "open" /\ f.busy = "no"
      /\ changes < MaxChanges /\ changes' = changes + 1
      /\ UNCHANGED <<server, calls, keys>>
      /\ form' = [form EXCEPT ![t].draft = @ \cup {changes + 1},
                              ![t].attached = @ \cup {changes + 1}]
  BY DEF Attach, Attachable
<1>3. changes + 1 \in 1 .. MaxChanges /\ changes' \in 0 .. MaxChanges
  BY <1>1, <1>2
<1>4. f.attached \cup {changes + 1} \in Texts
  BY <1>1, <1>3 DEF FormRows, Texts
<1>5. form' = [form EXCEPT ![t] = [f EXCEPT !.draft = f.draft \cup {changes + 1},
                                            !.attached = f.attached \cup {changes + 1}]]
  BY <1>1, <1>2 DEF FormRows
<1> DEFINE n == changes + 1
           attached == f.attached \cup {n}
           r == Drafted(f, n, attached)
<1>6. /\ n \in 1 .. MaxChanges /\ attached \in Texts /\ n \in attached
      /\ form' = [form EXCEPT ![t] = r] /\ f.attached \subseteq attached
  BY <1>3, <1>4, <1>5 DEF Drafted
<1>7. /\ form[t].page = "open" /\ form[t].busy # "send"
      /\ changes' \in 0 .. MaxChanges /\ UNCHANGED <<server, calls, keys>>
  BY <1>2, <1>3
<1> HIDE DEF n, attached, r, f
<1>8. form[t].attached \subseteq attached
  BY <1>6 DEF f
<1>9. r \in FormRows /\ MoreDrafted(form[t], r, n, attached)
  BY <1>1, <1>6, DraftedTyped DEF f, r
<1>10. form' = [form EXCEPT ![t] = r]
  BY <1>6
<1>11. n \in 1 .. MaxChanges /\ attached \in Texts /\ (form[t].pendingSubmit # Nothing => n \in attached)
  BY <1>6, <1>7
<1>12. QED
  BY <1>7, <1>8, <1>9, <1>10, <1>11, DraftGrowsStep

LEMMA AbandonedToNobody ==
  ASSUME DraftTypeOK, NEW t \in Tabs, NEW d \in Abandoned(t)
  PROVE  (d \in calls /\ d.tab # t) \/ d.who = "nobody"
  BY DEF Abandoned, DraftTypeOK, RequestRows

LEMMA AfterToNobody ==
  ASSUME DraftTypeOK, NEW c \in calls, NEW a, NEW d \in After(c, a)
  PROVE  d \in calls \/ d.who = "nobody"
  BY DEF After, DraftTypeOK, RequestRows

LEMMA LeaveFormStep ==
  ASSUME ProposalInv, NEW t \in Tabs, LeaveForm(t)
  PROVE  ProposalInv'
<1>1. DraftTypeOK /\ changes \in 0 .. MaxChanges
  BY DEF ProposalInv, RequestsOK, DraftTypeOK
<1>2. /\ UNCHANGED <<server, keys, changes>> /\ calls' = Abandoned(t)
      /\ form' = [form EXCEPT ![t] = NewForm]
  BY DEF LeaveForm
<1>3. \A e \in calls' : ~Awaits(t, e) /\ e.who # "gateway"
  BY <1>1, <1>2, AbandonedRequests, AbandonedToNobody DEF Awaits, ProposalInv
<1>4. QED
  BY <1>1, <1>2, <1>3, AbandonedRequests, NewFormTyped, FormPageAsks

LEMMA CommandFields ==
  ASSUME NEW op, NEW key, NEW expected, NEW text
  PROVE  LET h == Command(op, key, expected, text)
         IN  /\ h.op = op /\ h.key = key /\ h.expected = expected /\ h.text = text
             /\ h = Command(h.op, h.key, h.expected, h.text)
  BY DEF Command

WithSave(r, command) == [r EXCEPT !.pendingSave = command]
WithSubmission(r, command) == [r EXCEPT !.pendingSubmit = command]

SameButPending(r, new) ==
  /\ new.page = r.page /\ new.draft = r.draft /\ new.saved = r.saved /\ new.version = r.version
  /\ new.busy = r.busy /\ new.wanted = r.wanted /\ new.attached = r.attached
  /\ new.uncertain = r.uncertain

LEMMA WithSaveTyped ==
  ASSUME NEW r \in FormRows, NEW command \in SaveRows
  PROVE  LET new == WithSave(r, command)
         IN  /\ new \in FormRows /\ SameButPending(r, new)
             /\ new.pendingSave = command /\ new.pendingSubmit = r.pendingSubmit
  BY DEF WithSave, FormRows, SameButPending

LEMMA WithSubmissionTyped ==
  ASSUME NEW r \in FormRows, NEW command \in SubmissionRows
  PROVE  LET new == WithSubmission(r, command)
         IN  /\ new \in FormRows /\ SameButPending(r, new)
             /\ new.pendingSave = r.pendingSave /\ new.pendingSubmit = command
  BY DEF WithSubmission, FormRows, SameButPending

\* saveDraft: the page of tab t sends a save, an old one before a new one.
LEMMA SaveDraftStep ==
  ASSUME ProposalInv, UNCHANGED <<server, changes>>, NEW t \in Tabs, NEW r \in FormRows, NEW on,
         SaveDraft(t, r, on),
         \A d \in on : d \in calls \/ Released(d),
         \A d \in on : d.who # "gateway" /\ ~Awaits(t, d),
         \A c \in calls : c.tab # t => c \in on,
         FormOK(r, history, handed), KeptBy(r) \subseteq KeptCommands,
         r.page = "open", r.busy # "no", r.pendingSubmit = Nothing, r.saved \subseteq r.wanted,
         r.pendingSave # Nothing => r.pendingSave.text \subseteq r.wanted
  PROVE  ProposalInv'
<1>1. DraftTypeOK /\ keys \in Nat /\ changes' \in 0 .. MaxChanges
  BY DEF ProposalInv, RequestsOK, DraftTypeOK
<1>2. /\ r.version \in 1 .. Len(history) /\ r.saved = history[r.version]
      /\ r.version \in Nat /\ r.wanted \in Texts /\ r.wanted \subseteq r.draft
  BY DEF FormOK, FormRows
<1> DEFINE fresh == [expected |-> r.version, text |-> r.wanted, key |-> keys + 1]
           command == IF r.pendingSave # Nothing THEN r.pendingSave ELSE fresh
           h == Command("patch", command.key, command.expected, command.text)
           new == WithSave(r, command)
           d == Request(t, "patch", "page", command.key, command.expected, command.text)
<1>3. /\ form' = [form EXCEPT ![t] = new] /\ calls' = on \cup {d}
      /\ keys' = IF r.pendingSave # Nothing THEN keys ELSE keys + 1
  BY DEF SaveDraft, WithSave
<1>4. fresh \in SaveRows
  BY <1>1, <1>2 DEF SaveRows
<1>5. command \in SaveRows /\ command.text \subseteq r.wanted
  BY <1>4 DEF FormRows
<1>6. \/ command.key = keys + 1 /\ keys' = keys + 1
         /\ command.expected \in 1 .. Len(history) /\ history[command.expected] \subseteq command.text
      \/ r.pendingSave = command /\ keys' = keys
  BY <1>2, <1>3
<1> HIDE DEF command
<1>7. /\ command.key \in Nat /\ command.expected \in Nat /\ command.text \in Texts
      /\ command # Nothing
      /\ command = [expected |-> command.expected, text |-> command.text, key |-> command.key]
  BY <1>5, CommandsAreNotNothing DEF SaveRows
<1>8. /\ new \in FormRows /\ SameButPending(r, new)
      /\ new.pendingSave = command /\ new.pendingSubmit = Nothing
  BY <1>5, WithSaveTyped
<1>9. /\ h.op = "patch" /\ h.key = command.key /\ h.expected = command.expected
      /\ h.text = command.text /\ h = Command(h.op, h.key, h.expected, h.text)
  BY CommandFields
<1>10. d.op = "patch" /\ d.key = command.key /\ d.expected = command.expected /\ d.text = command.text
  BY DEF Request
<1>11. d = Request(t, h.op, "page", h.key, h.expected, h.text)
  BY <1>9
<1>12. KeptBy(new) \subseteq {h}
  BY <1>8 DEF KeptBy
<1>13. r.pendingSave = command => h \in KeptCommands
  BY <1>7 DEF KeptBy
<1> HIDE DEF h, new, d
<1>14. AwaitedByForm(d, new)
  BY <1>5, <1>7, <1>8, <1>10 DEF AwaitedByForm, SameButPending
<1>15. FormOK(new, history, handed)
  BY <1>2, <1>5, <1>8 DEF FormOK, SameButPending
<1>16. \/ h.key = keys + 1 /\ keys' = keys + 1 /\ Seen({h}, history)
       \/ h \in KeptCommands /\ keys' = keys
  BY <1>6, <1>9, <1>13 DEF Seen
<1>17. h.op \in Writes /\ h.key \in Nat /\ h.expected \in Nat /\ h.text \in Texts
  BY <1>7, <1>9 DEF Writes
<1>18. /\ calls' = on \cup {Request(t, h.op, "page", h.key, h.expected, h.text)}
       /\ AwaitedByForm(Request(t, h.op, "page", h.key, h.expected, h.text), new)
       /\ h = Command(h.op, h.key, h.expected, h.text)
       /\ KeptBy(new) \subseteq KeptCommands \cup {h}
  BY <1>3, <1>9, <1>11, <1>12, <1>14
<1>19. new \in FormRows /\ form' = [form EXCEPT ![t] = new]
  BY <1>3, <1>8
<1>20. QED
  BY <1>1, <1>15, <1>16, <1>17, <1>18, <1>19, FormPageSends

\* The submission of the version that was saved, or the one that is in doubt.
LEMMA SendSubmissionStep ==
  ASSUME ProposalInv, UNCHANGED <<server, changes>>, NEW t \in Tabs, NEW r \in FormRows, NEW on,
         SendSubmission(t, r, on),
         \A d \in on : d \in calls \/ Released(d),
         \A d \in on : d.who # "gateway" /\ ~Awaits(t, d),
         \A c \in calls : c.tab # t => c \in on,
         FormOK(r, history, handed), KeptBy(r) \subseteq KeptCommands,
         r.page = "open", r.busy = "send",
         r.pendingSubmit = Nothing => r.saved = r.draft
  PROVE  ProposalInv'
<1>1. DraftTypeOK /\ keys \in Nat /\ changes' \in 0 .. MaxChanges
  BY DEF ProposalInv, RequestsOK, DraftTypeOK
<1>2. r.version \in 1 .. Len(history) /\ r.saved = history[r.version] /\ r.version \in Nat
  BY DEF FormOK, FormRows
<1> DEFINE fresh == [expected |-> r.version, key |-> keys + 1]
           command == IF r.pendingSubmit # Nothing THEN r.pendingSubmit ELSE fresh
           h == Command("submit", command.key, command.expected, {})
           new == WithSubmission(r, command)
           d == Request(t, "submit", "page", command.key, command.expected, {})
<1>3. /\ form' = [form EXCEPT ![t] = new] /\ calls' = on \cup {d}
      /\ keys' = IF r.pendingSubmit # Nothing THEN keys ELSE keys + 1
  BY DEF SendSubmission, WithSubmission
<1>4. fresh \in SubmissionRows
  BY <1>1, <1>2 DEF SubmissionRows
<1>5. /\ command \in SubmissionRows
      /\ command.expected \in 1 .. Len(history)
      /\ r.draft \ r.attached \subseteq history[command.expected]
      /\ history[command.expected] \subseteq r.draft
  BY <1>2, <1>4 DEF FormRows, FormOK
<1>6. \/ command.key = keys + 1 /\ keys' = keys + 1
      \/ r.pendingSubmit = command /\ keys' = keys
  BY <1>3
<1> HIDE DEF command
<1>7. /\ command.key \in Nat /\ command.expected \in Nat /\ command # Nothing
      /\ command = [expected |-> command.expected, key |-> command.key]
  BY <1>5, CommandsAreNotNothing DEF SubmissionRows
<1>8. /\ new \in FormRows /\ SameButPending(r, new)
      /\ new.pendingSave = r.pendingSave /\ new.pendingSubmit = command
  BY <1>5, WithSubmissionTyped
<1>9. /\ h.op = "submit" /\ h.key = command.key /\ h.expected = command.expected
      /\ h.text = {} /\ h = Command(h.op, h.key, h.expected, h.text)
  BY CommandFields
<1>10. d.op = "submit" /\ d.key = command.key /\ d.expected = command.expected /\ d.text = {}
  BY DEF Request
<1>11. d = Request(t, h.op, "page", h.key, h.expected, h.text)
  BY <1>9
<1>12. KeptBy(new) \subseteq KeptBy(r) \cup {h}
  BY <1>8 DEF KeptBy
<1>13. r.pendingSubmit = command => h \in KeptCommands
  BY <1>7 DEF KeptBy
<1> HIDE DEF h, new, d
<1>14. AwaitedByForm(d, new)
  BY <1>7, <1>8, <1>10 DEF AwaitedByForm, SameButPending
<1>15. FormOK(new, history, handed)
  BY <1>5, <1>8 DEF FormOK, SameButPending
<1>16. \/ h.key = keys + 1 /\ keys' = keys + 1 /\ Seen({h}, history)
       \/ h \in KeptCommands /\ keys' = keys
  BY <1>6, <1>9, <1>13 DEF Seen
<1>17. h.op \in Writes /\ h.key \in Nat /\ h.expected \in Nat /\ h.text \in Texts
  BY <1>7, <1>9, NoText DEF Writes
<1>18. /\ calls' = on \cup {Request(t, h.op, "page", h.key, h.expected, h.text)}
       /\ AwaitedByForm(Request(t, h.op, "page", h.key, h.expected, h.text), new)
       /\ h = Command(h.op, h.key, h.expected, h.text)
       /\ KeptBy(new) \subseteq KeptCommands \cup {h}
  BY <1>3, <1>9, <1>11, <1>12, <1>14
<1>19. new \in FormRows /\ form' = [form EXCEPT ![t] = new]
  BY <1>3, <1>8
<1>20. QED
  BY <1>1, <1>15, <1>16, <1>17, <1>18, <1>19, FormPageSends

Persisting(f, busy) == [f EXCEPT !.busy = busy, !.wanted = f.draft]

LEMMA PersistStep ==
  ASSUME ProposalInv, NEW t \in Tabs, PersistSave(t) \/ PersistSend(t)
  PROVE  ProposalInv'
<1> DEFINE f == form[t]
<1>1. DraftTypeOK /\ f \in FormRows /\ FormOK(f, history, handed)
  BY DEF ProposalInv, RequestsOK
<1>2. f.page = "open" /\ f.busy = "no" /\ UNCHANGED <<server, changes>>
  BY DEF PersistSave, PersistSend, Free
<1>3. \A c \in calls : c.who # "gateway" /\ ~Awaits(t, c)
  <2>1. ASSUME NEW c \in calls, Awaits(t, c) PROVE FALSE
    <3>1. AwaitedByForm(c, f)
      BY <2>1 DEF ProposalInv, Awaits
    <3>2. QED
      BY <1>2, <3>1 DEF AwaitedByForm
  <2>2. QED
    BY <2>1 DEF ProposalInv
<1>4. KeptBy(f) \subseteq KeptCommands
  BY KeptCommandIn
<1>5. \E busy \in {"save", "send"} :
        /\ busy = "save" => ~f.uncertain
        /\ \/ SaveDraft(t, Persisting(f, busy), calls) /\ (busy = "send" => f.pendingSubmit = Nothing)
           \/ SendSubmission(t, Persisting(f, busy), calls) /\ busy = "send" /\ f.pendingSubmit # Nothing
  <2>1. CASE PersistSave(t)
    BY <2>1 DEF PersistSave, Persisting
  <2>2. CASE PersistSend(t)
    <3> DEFINE r == Persisting(f, "send")
    <3>1. r.pendingSubmit = f.pendingSubmit
      BY <1>1 DEF Persisting, FormRows
    <3>2. IF r.pendingSubmit = Nothing THEN SaveDraft(t, r, calls) ELSE SendSubmission(t, r, calls)
      BY <2>2 DEF PersistSend, Persisting
    <3>3. QED
      BY <3>1, <3>2
  <2>3. QED
    BY <2>1, <2>2
<1>6. PICK busy \in {"save", "send"} :
        /\ busy = "save" => ~f.uncertain
        /\ \/ SaveDraft(t, Persisting(f, busy), calls) /\ (busy = "send" => f.pendingSubmit = Nothing)
           \/ SendSubmission(t, Persisting(f, busy), calls) /\ busy = "send" /\ f.pendingSubmit # Nothing
  BY <1>5
<1> DEFINE r == Persisting(f, busy)
<1>7. /\ r \in FormRows /\ r.page = "open" /\ r.busy = busy /\ r.wanted = f.draft
      /\ r.draft = f.draft /\ r.saved = f.saved /\ r.version = f.version
      /\ r.attached = f.attached /\ r.pendingSave = f.pendingSave
      /\ r.pendingSubmit = f.pendingSubmit /\ r.uncertain = f.uncertain
  BY <1>1, <1>2 DEF Persisting, FormRows
<1> HIDE DEF r
<1>8. FormOK(r, history, handed)
  BY <1>1, <1>2, <1>6, <1>7 DEF FormOK
<1>9. KeptBy(r) \subseteq KeptCommands
  BY <1>4, <1>7 DEF KeptBy
<1>10. /\ r.saved \subseteq r.wanted
       /\ r.pendingSave # Nothing => r.pendingSave.text \subseteq r.wanted
  BY <1>1, <1>2, <1>7 DEF FormOK
<1>11. CASE SaveDraft(t, r, calls) /\ (busy = "send" => f.pendingSubmit = Nothing)
  <2>1. r.pendingSubmit = Nothing
    BY <1>1, <1>2, <1>6, <1>7, <1>11 DEF FormOK
  <2>2. r.busy # "no"
    BY <1>7
  <2>3. QED
    BY <1>2, <1>3, <1>7, <1>8, <1>9, <1>10, <1>11, <2>1, <2>2, SaveDraftStep
<1>12. CASE SendSubmission(t, r, calls) /\ busy = "send" /\ f.pendingSubmit # Nothing
  BY <1>2, <1>3, <1>7, <1>8, <1>9, <1>12, SendSubmissionStep
<1>13. QED
  BY <1>6, <1>11, <1>12 DEF r

\* What is left of the requests when the answer of c was heard by its form.
LEMMA HeardByForm ==
  ASSUME ProposalInv, NEW c \in calls, NEW a \in {c.answer, Lost}, c.who # "nobody",
         NEW on, on = After(c, a)
  PROVE  /\ RequestsOK /\ DraftTypeOK /\ c \in RequestRows /\ c.tab \in Tabs /\ c.who = "page"
         /\ form[c.tab] \in FormRows /\ FormOK(form[c.tab], history, handed)
         /\ AwaitedByForm(c, form[c.tab])
         /\ KeptBy(form[c.tab]) \subseteq KeptCommands
         /\ \A d \in on : d \in calls \/ Released(d)
         /\ \A d \in on : d.who # "gateway" /\ ~Awaits(c.tab, d)
         /\ \A d \in calls : d.tab # c.tab => d \in on
<1>1. RequestsOK /\ DraftTypeOK /\ OneAwaited
  BY DEF ProposalInv, RequestsOK
<1>2. c \in RequestRows /\ c.tab \in Tabs /\ c.who = "page"
  BY <1>1 DEF ProposalInv, DraftTypeOK, RequestRows
<1>3. /\ \A d \in on : d \in calls \ {c} \/ Released(d)
      /\ calls \ {c} \subseteq on
  BY <1>1, AfterAnswer
<1>4. ASSUME NEW d \in on PROVE d.who # "gateway" /\ ~Awaits(c.tab, d)
  BY <1>1, <1>2, <1>3, AfterToNobody, ReleasedRequest DEF ProposalInv, OneAwaited, Awaits
<1>5. form[c.tab] \in FormRows /\ FormOK(form[c.tab], history, handed) /\ AwaitedByForm(c, form[c.tab])
  BY <1>2 DEF ProposalInv
<1>6. KeptBy(form[c.tab]) \subseteq KeptCommands
  BY <1>2, KeptCommandIn
<1>7. QED
  BY <1>1, <1>2, <1>3, <1>4, <1>5, <1>6

\* A form that waits for nothing more.
LEMMA FormSettles ==
  ASSUME ProposalInv, UNCHANGED <<server, keys, changes>>, NEW t \in Tabs, NEW r \in FormRows,
         form' = [form EXCEPT ![t] = r],
         \A d \in calls' : d \in calls \/ Released(d),
         \A d \in calls' : d.who # "gateway" /\ ~Awaits(t, d),
         \A c \in calls : c.tab # t => c \in calls',
         FormOK(r, history, handed), KeptBy(r) \subseteq KeptCommands, r.busy = "no"
  PROVE  ProposalInv'
<1>1. changes' \in 0 .. MaxChanges /\ keys' = keys
  BY DEF ProposalInv, RequestsOK, DraftTypeOK
<1>2. /\ \A d \in calls' : Awaits(t, d) => AwaitedByForm(d, r)
      /\ \A d, e \in calls' : Awaits(t, d) /\ Awaits(t, e) => d = e
      /\ \A d \in calls' : d.who # "gateway"
      /\ \A d \in calls' : d \in calls \/ Released(d) \/ (Asked(d) /\ d.tab = t /\ d.op \notin Writes)
  OBVIOUS
<1>3. QED
  BY <1>1, <1>2, FormPageAsks

\* What a command that was accepted did.
LEMMA Accepted ==
  ASSUME ProposalInv, NEW c \in calls, NEW a \in {c.answer, Lost}, a.code = "ok", c.op \in Writes
  PROVE  /\ a.version \in 1 .. Len(history)
         /\ c.op = "patch" => history[a.version] = c.text
         /\ c.op = "submit" => /\ handed # Nothing /\ c.expected \in 1 .. Len(history)
                               /\ handed = history[c.expected]
<1>1. RequestsOK /\ DraftTypeOK
  BY DEF ProposalInv, RequestsOK
<1>2. c.key \in DOMAIN stored /\ a.version = stored[c.key]
  BY <1>1, Heard
<1> DEFINE h == Command(c.op, c.key, c.expected, c.text)
<1>3. h \in Sent
  BY SentIn
<1>4. h.op = c.op /\ h.key = c.key /\ h.expected = c.expected /\ h.text = c.text
  BY CommandFields
<1> HIDE DEF h
<1>5. Done(h, history, handed, stored)
  BY <1>2, <1>3, <1>4 DEF ProposalInv, Keyed
<1>6. stored[c.key] \in 1 .. Len(history)
  BY <1>1, <1>2 DEF DraftTypeOK
<1>7. CASE c.op = "patch"
  BY <1>2, <1>4, <1>5, <1>6, <1>7 DEF Done
<1>8. CASE c.op = "submit"
  BY <1>2, <1>4, <1>5, <1>6, <1>8 DEF Done
<1>9. QED
  BY <1>7, <1>8 DEF Writes

OpenedAs(text, version) ==
  [NewForm EXCEPT !.page = "open", !.draft = text, !.saved = text, !.version = version]

LEMMA OpenedTyped ==
  ASSUME NEW text \in Texts, NEW version \in Nat
  PROVE  LET r == OpenedAs(text, version)
         IN  /\ r \in FormRows /\ r.page = "open" /\ r.draft = text /\ r.saved = text
             /\ r.version = version /\ r.wanted = {} /\ r.busy = "no"
             /\ r.pendingSave = Nothing /\ r.pendingSubmit = Nothing
  BY NoText DEF OpenedAs, NewForm, FormRows

LEMMA HearFormStep ==
  ASSUME ProposalInv, NEW c \in calls, NEW a \in {c.answer, Lost}, Hears(c, a), HearForm(c, a),
         UNCHANGED <<server, changes>>
  PROVE  ProposalInv'
<1>1. c.who # "nobody" /\ c.op = "load" /\ calls' = After(c, a) /\ keys' = keys
  BY DEF Hears, HearForm
<1>2. c.tab \in Tabs /\ DraftTypeOK /\ RequestsOK
  BY <1>1, HeardByForm
<1>3. CASE a.code = "ok"
  <2> DEFINE r == OpenedAs(a.text, a.version)
  <2>1. a.version \in 1 .. Len(history) /\ a.text = history[a.version]
    BY <1>1, <1>2, <1>3, Heard DEF Writes
  <2>2. a.text \in Texts /\ a.version \in Nat
    BY <1>2, <2>1, VersionInRange
  <2>3. /\ r \in FormRows /\ r.page = "open" /\ r.draft = a.text /\ r.saved = a.text
        /\ r.version = a.version /\ r.wanted = {} /\ r.busy = "no"
        /\ r.pendingSave = Nothing /\ r.pendingSubmit = Nothing
    BY <2>2, OpenedTyped
  <2>4. form' = [form EXCEPT ![c.tab] = r]
    BY <1>3 DEF HearForm, OpenedAs
  <2> HIDE DEF r
  <2>5. FormOK(r, history, handed) /\ KeptBy(r) = {}
    BY <2>1, <2>3 DEF FormOK, KeptBy
  <2>6. KeptBy(r) \subseteq KeptCommands
    BY <2>5
  <2>7. QED
    BY <1>1, <1>2, <2>3, <2>4, <2>5, <2>6, HeardByForm, FormSettles
<1>4. CASE a.code # "ok"
  <2>1. form' = [form EXCEPT ![c.tab] = NewForm]
    BY <1>4 DEF HearForm
  <2>2. KeptBy(NewForm) \subseteq KeptCommands /\ FormOK(NewForm, history, handed)
    BY NewFormTyped
  <2>3. QED
    BY <1>1, <1>2, <2>1, <2>2, NewFormTyped, HeardByForm, FormSettles
<1>5. QED
  BY <1>3, <1>4

\* A form that lets go of what it waited for: it keeps a command, or forgets it.
LetGo(f, r) ==
  /\ r.page = f.page /\ r.draft = f.draft /\ r.saved = f.saved /\ r.version = f.version
  /\ r.wanted = f.wanted /\ r.attached = f.attached /\ r.busy = "no"
  /\ r.pendingSave \in {f.pendingSave, Nothing}

LEMMA SaveFailedStep ==
  ASSUME ProposalInv, NEW c \in calls, NEW a \in {c.answer, Lost}, Hears(c, a), SaveFailed(c, a),
         UNCHANGED <<server, changes>>
  PROVE  ProposalInv'
<1> DEFINE f == form[c.tab]
           kept == IF a = Lost THEN f.pendingSave ELSE Nothing
           r == [f EXCEPT !.busy = "no", !.pendingSave = kept]
<1>1. c.who # "nobody" /\ c.op = "patch" /\ calls' = After(c, a) /\ keys' = keys
  BY DEF Hears, SaveFailed
<1>2. /\ c.tab \in Tabs /\ f \in FormRows /\ FormOK(f, history, handed) /\ AwaitedByForm(c, f)
      /\ KeptBy(f) \subseteq KeptCommands
  BY <1>1, HeardByForm
<1>3. f.page = "open" /\ f.pendingSubmit = Nothing
  BY <1>1, <1>2 DEF AwaitedByForm
<1>4. kept \in SaveRows \cup {Nothing} /\ kept \in {f.pendingSave, Nothing}
  BY <1>2 DEF FormRows
<1>5. form' = [form EXCEPT ![c.tab] = r]
  BY <1>2 DEF SaveFailed, FormRows, ProposalInv
<1> HIDE DEF kept
<1>6. r \in FormRows /\ LetGo(f, r) /\ r.pendingSubmit = f.pendingSubmit /\ r.uncertain = f.uncertain
  BY <1>2, <1>4 DEF FormRows, LetGo
<1> HIDE DEF r
<1>7. FormOK(r, history, handed)
  BY <1>2, <1>3, <1>6 DEF FormOK, LetGo
<1>8. KeptBy(r) \subseteq KeptCommands
  BY <1>2, <1>3, <1>6 DEF KeptBy, LetGo
<1>9. r.busy = "no"
  BY <1>6 DEF LetGo
<1>10. QED
  BY <1>1, <1>2, <1>5, <1>6, <1>7, <1>8, <1>9, HeardByForm, FormSettles

LEMMA HearRecordStep ==
  ASSUME ProposalInv, NEW c \in calls, NEW a \in {c.answer, Lost}, Hears(c, a), HearRecord(c, a),
         UNCHANGED <<server, changes>>
  PROVE  ProposalInv'
<1> DEFINE f == form[c.tab]
           r == ReadBack(f, a)
<1>1. /\ c.who # "nobody" /\ c.op = "reread" /\ calls' = After(c, a) /\ keys' = keys
      /\ form' = [form EXCEPT ![c.tab] = r]
  BY DEF Hears, HearRecord
<1>2. /\ c.tab \in Tabs /\ f \in FormRows /\ FormOK(f, history, handed) /\ AwaitedByForm(c, f)
      /\ KeptBy(f) \subseteq KeptCommands
  BY <1>1, HeardByForm
<1>3. f.page = "open" /\ f.pendingSubmit = Nothing
  BY <1>1, <1>2 DEF AwaitedByForm
<1>4. /\ r \in FormRows /\ LetGo(f, r) /\ r.pendingSubmit = f.pendingSubmit
      /\ r.uncertain = f.uncertain /\ r.pendingSave = f.pendingSave
  BY <1>2 DEF FormRows, LetGo, ReadBack
<1> HIDE DEF r
<1>5. FormOK(r, history, handed)
  BY <1>2, <1>3, <1>4 DEF FormOK, LetGo
<1>6. KeptBy(r) \subseteq KeptCommands
  BY <1>2, <1>4 DEF KeptBy
<1>7. r.busy = "no"
  BY <1>4 DEF LetGo
<1>8. QED
  BY <1>1, <1>2, <1>4, <1>5, <1>6, <1>7, HeardByForm, FormSettles

LEMMA HearSubmitStep ==
  ASSUME ProposalInv, NEW c \in calls, NEW a \in {c.answer, Lost}, Hears(c, a), HearSubmit(c, a),
         UNCHANGED <<server, changes>>
  PROVE  ProposalInv'
<1> DEFINE f == form[c.tab]
           page == IF a.code = "ok" THEN "done" ELSE f.page
           kept == IF a = Lost THEN f.pendingSubmit ELSE Nothing
           r == [f EXCEPT !.busy = "no", !.page = page, !.uncertain = (a = Lost),
                          !.pendingSubmit = kept]
<1>1. c.who # "nobody" /\ c.op = "submit" /\ calls' = After(c, a) /\ keys' = keys
  BY DEF Hears, HearSubmit
<1>2. /\ c.tab \in Tabs /\ f \in FormRows /\ FormOK(f, history, handed) /\ AwaitedByForm(c, f)
      /\ KeptBy(f) \subseteq KeptCommands /\ DraftTypeOK
  BY <1>1, HeardByForm
<1>3. /\ f.page = "open" /\ f.busy = "send"
      /\ f.pendingSubmit = [expected |-> c.expected, key |-> c.key]
  BY <1>1, <1>2 DEF AwaitedByForm
<1>4. /\ kept \in SubmissionRows \cup {Nothing}
      /\ kept # Nothing => kept = f.pendingSubmit /\ a = Lost
      /\ page \in {"open", "done"} /\ (page = "done" => a.code = "ok")
  BY <1>2, <1>3 DEF FormRows
<1>5. form' = [form EXCEPT ![c.tab] = r]
  BY DEF HearSubmit
<1>6. Lost.code # "ok"
  BY RefusalTyped DEF Lost
<1> HIDE DEF kept, page
<1>7. /\ r \in FormRows /\ r.page = page /\ r.draft = f.draft /\ r.saved = f.saved
      /\ r.version = f.version /\ r.wanted = f.wanted /\ r.attached = f.attached
      /\ r.busy = "no" /\ r.pendingSave = f.pendingSave /\ r.pendingSubmit = kept
      /\ r.uncertain = (a = Lost)
  <2>1. (a = Lost) \in BOOLEAN
    OBVIOUS
  <2>2. QED
    BY <1>2, <1>4, <2>1 DEF FormRows
<1> HIDE DEF r
<1>8. page = "done" => /\ handed \in Texts
                       /\ f.draft \ f.attached \subseteq handed /\ handed \subseteq f.draft
  <2>1. SUFFICES ASSUME page = "done"
                 PROVE  /\ handed \in Texts
                        /\ f.draft \ f.attached \subseteq handed /\ handed \subseteq f.draft
    OBVIOUS
  <2>2. handed # Nothing /\ handed = history[c.expected] /\ handed \in Texts
    BY <1>1, <1>2, <1>4, <2>1, Accepted DEF Writes, DraftTypeOK
  <2>3. f.pendingSubmit # Nothing
    <3>1. f.pendingSubmit = Nothing \/ f.pendingSubmit \in SubmissionRows
      BY <1>2 DEF FormRows
    <3>2. c.expected \in Nat /\ c.key \in Nat
      BY <1>1, HeardByForm DEF RequestRows
    <3>3. f.pendingSubmit \in SubmissionRows
      BY <1>3, <3>2 DEF SubmissionRows
    <3>4. QED
      BY <3>3, CommandsAreNotNothing
  <2>4. f.pendingSubmit.expected = c.expected
    BY <1>3
  <2>5. QED
    BY <1>2, <2>2, <2>3, <2>4 DEF FormOK
<1>9. FormOK(r, history, handed)
  BY <1>2, <1>3, <1>4, <1>7, <1>8 DEF FormOK
<1>10. KeptBy(r) \subseteq KeptCommands
  BY <1>2, <1>4, <1>7 DEF KeptBy
<1>11. QED
  BY <1>1, <1>2, <1>5, <1>7, <1>9, <1>10, HeardByForm, FormSettles

LEMMA SaveDoneStep ==
  ASSUME ProposalInv, NEW c \in calls, NEW a \in {c.answer, Lost}, Hears(c, a), SaveDone(c, a),
         UNCHANGED <<server, changes>>
  PROVE  ProposalInv'
<1> DEFINE t == c.tab
           f == form[t]
           r == Acknowledged(f, c, a)
           on == After(c, a)
<1>1. c.who # "nobody" /\ c.op = "patch" /\ a.code = "ok" /\ UNCHANGED <<server, changes>>
  BY DEF Hears, SaveDone
<1>2. /\ t \in Tabs /\ f \in FormRows /\ FormOK(f, history, handed) /\ AwaitedByForm(c, f)
      /\ KeptBy(f) \subseteq KeptCommands /\ c \in RequestRows /\ DraftTypeOK
  BY <1>1, HeardByForm
<1>3. /\ \A d \in on : d \in calls \/ Released(d)
      /\ \A d \in on : d.who # "gateway" /\ ~Awaits(t, d)
      /\ \A d \in calls : d.tab # t => d \in on
  BY <1>1, HeardByForm
<1>4. /\ f.page = "open" /\ f.busy # "no" /\ f.pendingSubmit = Nothing /\ c.text \subseteq f.wanted
  BY <1>1, <1>2 DEF AwaitedByForm
<1>5. a.version \in 1 .. Len(history) /\ history[a.version] = c.text
  BY <1>1, Accepted DEF Writes
<1>6. c.text \in Texts /\ a.version \in Nat
  BY <1>2, <1>5 DEF RequestRows, DraftTypeOK
<1>7. /\ r \in FormRows /\ r.page = "open" /\ r.draft = f.draft /\ r.saved = c.text
      /\ r.version = a.version /\ r.busy = f.busy /\ r.wanted = f.wanted
      /\ r.attached = f.attached /\ r.pendingSave = Nothing /\ r.pendingSubmit = Nothing
      /\ r.uncertain = f.uncertain
  BY <1>2, <1>4, <1>6 DEF Acknowledged, FormRows
<1>8. \/ c.text # r.wanted /\ SaveDraft(t, r, on)
      \/ c.text = r.wanted /\ r.busy = "send" /\ SendSubmission(t, r, on)
      \/ /\ c.text = r.wanted /\ r.busy # "send"
         /\ form' = [form EXCEPT ![t] = r]
         /\ calls' = on \cup {Request(t, "reread", "page", 0, 0, {})}
         /\ keys' = keys
  BY DEF SaveDone
<1> HIDE DEF r, on
<1>9. FormOK(r, history, handed) /\ KeptBy(r) = {}
  BY <1>2, <1>4, <1>5, <1>7 DEF FormOK, KeptBy
<1>10. KeptBy(r) \subseteq KeptCommands
  BY <1>9
<1>11. CASE c.text # r.wanted /\ SaveDraft(t, r, on)
  <2>1. r.busy # "no" /\ r.saved \subseteq r.wanted
    BY <1>4, <1>7
  <2>2. QED
    BY <1>1, <1>2, <1>3, <1>7, <1>9, <1>10, <1>11, <2>1, SaveDraftStep
<1>12. CASE c.text = r.wanted /\ r.busy = "send" /\ SendSubmission(t, r, on)
  <2>1. r.saved = r.draft
    BY <1>7, <1>9, <1>12 DEF FormOK
  <2>2. QED
    BY <1>1, <1>2, <1>3, <1>7, <1>9, <1>10, <1>12, <2>1, SendSubmissionStep
<1>13. CASE /\ c.text = r.wanted /\ r.busy # "send"
            /\ form' = [form EXCEPT ![t] = r]
            /\ calls' = on \cup {Request(t, "reread", "page", 0, 0, {})}
            /\ keys' = keys
  <2> DEFINE d == Request(t, "reread", "page", 0, 0, {})
  <2>1. Asked(d) /\ d.tab = t /\ d.op = "reread" /\ d.who = "page"
    <3>1. d = Request(t, "reread", "page", 0, 0, {})
      OBVIOUS
    <3> HIDE DEF d
    <3>2. QED
      BY <1>2, <3>1, ReadAsked
  <2>2. calls' = on \cup {d} /\ form' = [form EXCEPT ![t] = r] /\ keys' = keys
    BY <1>13
  <2> HIDE DEF d
  <2>3. AwaitedByForm(d, r)
    BY <1>4, <1>7, <1>13, <2>1 DEF AwaitedByForm, FormRows
  <2>4. \A e \in calls' : Awaits(t, e) => e = d
    BY <1>3, <2>2
  <2>5. Awaits(t, d) /\ d \in calls'
    BY <2>1, <2>2 DEF Awaits
  <2>6. /\ \A e \in calls' : \/ e \in calls \/ Released(e)
                             \/ Asked(e) /\ e.tab = t /\ e.op \notin Writes
        /\ \A e \in calls' : e.who # "gateway"
        /\ \A e \in calls : e.tab # t => e \in calls'
    BY <1>3, <2>1, <2>2 DEF Writes
  <2>7. /\ \A e \in calls' : Awaits(t, e) => AwaitedByForm(e, r)
        /\ \A e, g \in calls' : Awaits(t, e) /\ Awaits(t, g) => e = g
        /\ \E e \in calls' : Awaits(t, e)
    BY <2>3, <2>4, <2>5
  <2>8. changes' \in 0 .. MaxChanges /\ UNCHANGED server
    BY <1>1, <1>2 DEF DraftTypeOK
  <2>9. QED
    BY <1>2, <1>7, <1>9, <1>10, <2>2, <2>6, <2>7, <2>8, FormPageAsks
<1>14. QED
  BY <1>8, <1>11, <1>12, <1>13

LEMMA ProposalServerStep ==
  ASSUME ProposalInv, ServerNext, UNCHANGED form
  PROVE  ProposalInv'
<1>1. RequestsOK /\ DraftTypeOK
  BY DEF ProposalInv, RequestsOK
<1> DEFINE H == Sent \cup KeptCommands
<1>2. Sent \subseteq H /\ Keyed(H, keys, history, handed, stored) /\ Seen(H, history)
  BY DEF ProposalInv
<1> HIDE DEF H
<1>3. /\ RequestsOK' /\ ServerGrows /\ keys' = keys
      /\ Keyed(H, keys', history', handed', stored')
      /\ Sent' \subseteq Sent
      /\ \A d \in calls' : \E c \in calls : SameRequest(c, d)
      /\ \A c \in calls : c.who = "page" => \E d \in calls' : SameRequest(c, d)
  BY <1>1, <1>2, EditorsServerStep
<1>4. Len(history) \in Nat /\ Len(history') \in Nat
  BY <1>1, <1>3 DEF RequestsOK, DraftTypeOK
<1>5. \A i \in 1 .. Len(history) : i \in 1 .. Len(history') /\ history'[i] = history[i]
  BY <1>3, <1>4 DEF ServerGrows
<1>6. Sent' \cup KeptCommands' \subseteq H
  BY <1>3 DEF H, KeptCommands, KeptBy
<1>7. Keyed(Sent' \cup KeptCommands', keys', history', handed', stored')
  BY <1>3, <1>6, KeyedSubset
<1>8. Seen(Sent' \cup KeptCommands', history')
  <2>1. Seen(H, history')
    BY <1>2, <1>5 DEF Seen
  <2>2. QED
    BY <1>6, <2>1, SeenSubset
<1>9. ASSUME NEW t \in Tabs PROVE FormOK(form'[t], history', handed')
  <2> DEFINE r == form[t]
  <2>1. FormOK(r, history, handed) /\ form'[t] = r
    BY DEF ProposalInv
  <2> HIDE DEF r
  <2>2. handed \in Texts => handed' = handed
    BY <1>3, DraftAssumption DEF ServerGrows
  <2>3. FormOK(r, history', handed')
    BY <1>5, <2>1, <2>2 DEF FormOK
  <2>4. QED
    BY <2>1, <2>3
<1>10. ASSUME NEW d \in calls', d.who = "page" PROVE AwaitedByForm(d, form'[d.tab])
  <2>1. PICK c \in calls : SameRequest(c, d)
    BY <1>3
  <2>2. AwaitedByForm(c, form[c.tab])
    BY <1>10, <2>1 DEF ProposalInv, SameRequest
  <2>3. QED
    BY <2>1, <2>2 DEF SameRequest, AwaitedByForm
<1>11. \A d \in calls' : d.who # "gateway"
  BY <1>3 DEF ProposalInv, SameRequest
<1>12. CommandsAreAwaited'
  <2>1. SUFFICES ASSUME NEW t \in Tabs, form[t].busy # "no"
                 PROVE  \E d \in calls' : Awaits(t, d)
    BY DEF CommandsAreAwaited, Awaits
  <2>2. QED
    BY <1>3, <2>1 DEF ProposalInv, CommandsAreAwaited, Awaits, SameRequest
<1>13. form' \in [Tabs -> FormRows]
  BY DEF ProposalInv
<1>14. QED
  BY <1>3, <1>7, <1>8, <1>9, <1>10, <1>11, <1>12, <1>13 DEF ProposalInv

LEMMA ProposalStart ==
  ASSUME ProposalInit
  PROVE  ProposalInv
<1>1. history = <<{}>> /\ calls = {} /\ stored = <<>> /\ keys = 0 /\ changes = 0 /\ handed = Nothing
  BY DEF ProposalInit, DraftInit
<1>2. history \in Seq(Texts) /\ Len(history) = 1
  BY <1>1, NoText
<1>3. DraftTypeOK
  BY <1>1, <1>2, DraftAssumption DEF DraftTypeOK
<1>4. RequestsOK
  BY <1>1, <1>3 DEF RequestsOK, OneAwaited
<1>5. form \in [Tabs -> FormRows] /\ \A t \in Tabs : form[t] = NewForm
  BY NewFormTyped DEF ProposalInit
<1>6. Sent \cup KeptCommands = {}
  BY <1>1, <1>5, NewFormTyped DEF Sent, KeptCommands
<1>7. Keyed(Sent \cup KeptCommands, keys, history, handed, stored) /\ Seen(Sent \cup KeptCommands, history)
  BY <1>6 DEF Keyed, Seen
<1>8. CommandsAreAwaited /\ \A t \in Tabs : FormOK(form[t], history, handed)
  BY <1>5, NewFormTyped DEF CommandsAreAwaited
<1>9. QED
  BY <1>1, <1>4, <1>5, <1>7, <1>8 DEF ProposalInv

LEMMA ProposalStep ==
  ASSUME ProposalInv, ProposalNext
  PROVE  ProposalInv'
<1>1. CASE ServerNext /\ UNCHANGED form
  BY <1>1, ProposalServerStep
<1>2. CASE FormNext
  <2>1. PICK t \in Tabs : \/ OpenForm(t) \/ Type(t) \/ Attach(t) \/ LeaveForm(t)
                          \/ PersistSave(t) \/ PersistSend(t) \/ HearProposal(t)
    BY <1>2 DEF FormNext
  <2>2. CASE HearProposal(t)
    <3>1. PICK c \in calls : \E a \in {c.answer, Lost} :
            /\ Hears(c, a)
            /\ HearForm(c, a) \/ SaveFailed(c, a) \/ SaveDone(c, a) \/ HearRecord(c, a) \/ HearSubmit(c, a)
            /\ UNCHANGED <<server, changes>>
      BY <2>2 DEF HearProposal
    <3>2. QED
      BY <3>1, HearFormStep, SaveFailedStep, SaveDoneStep, HearRecordStep, HearSubmitStep
  <2>3. QED
    BY <2>1, <2>2, OpenFormStep, TypingStep, AttachStep, LeaveFormStep, PersistStep
<1>3. QED
  BY <1>1, <1>2 DEF ProposalNext

\* The server takes a save only at the version it expects, which it holds.
LEMMA FormsOverwriteStep ==
  ASSUME ProposalInv, ProposalNext
  PROVE  history[Latest] \subseteq history'[Len(history')]
<1>1. RequestsOK /\ DraftTypeOK
  BY DEF ProposalInv, RequestsOK
<1>2. CASE UNCHANGED history
  BY <1>2 DEF Latest
<1>3. ASSUME NEW c \in calls, Write(c)
      PROVE  history[Latest] \subseteq history'[Len(history')]
  <2>1. c.op \in Writes /\ c.expected = Latest
    BY <1>3 DEF Write, Current
  <2> DEFINE h == Command(c.op, c.key, c.expected, c.text)
  <2>2. h \in Sent
    BY <2>1, SentIn
  <2>3. h.op = c.op /\ h.key = c.key /\ h.expected = c.expected /\ h.text = c.text
    BY CommandFields
  <2> HIDE DEF h
  <2>4. h.key \in 1 .. keys /\ (h.op = "patch" => history[h.expected] \subseteq h.text)
    BY <2>2 DEF ProposalInv, Keyed, Seen
  <2>5. /\ Len(history') = Latest + 1
        /\ history'[Latest + 1] = IF c.op = "patch" THEN c.text ELSE history[Latest]
    BY <1>1, <1>3, <2>3, <2>4, WriteGrows
  <2>6. QED
    BY <2>1, <2>3, <2>4, <2>5
<1>4. CASE ServerNext
  <2>1. PICK c \in calls : Handle(c) \/ TurnAway(c)
    BY <1>4 DEF ServerNext
  <2>2. CASE Write(c)
    BY <1>3, <2>2
  <2>3. CASE ~Write(c)
    BY <1>2, <2>1, <2>3 DEF Handle, TurnAway, Read, Replay, Reject, server
  <2>4. QED
    BY <2>2, <2>3
<1>5. CASE FormNext
  <2>1. UNCHANGED history
    BY <1>5 DEF FormNext, OpenForm, Type, Attach, LeaveForm, PersistSave, PersistSend,
                HearProposal, server
  <2>2. QED
    BY <1>2, <2>1
<1>6. QED
  BY <1>4, <1>5 DEF ProposalNext

-----------------------------------------------------------------------------
(***************************************************************************)
(* Both editors.                                                           *)
(***************************************************************************)

LEMMA EditorsStutter ==
  ASSUME EditorsInv, UNCHANGED editorsVars
  PROVE  EditorsInv'
<1>1. UNCHANGED <<history, handed, stored, calls, keys, changes, tab, form, desk>>
  BY DEF editorsVars, challengeVars, draft, server
<1>2. RequestsOK => RequestsOK'
  BY <1>1 DEF RequestsOK, DraftTypeOK, OneAwaited
<1>3. Sent' = Sent /\ KeptSaves' = KeptSaves /\ KeptCommands' = KeptCommands
  BY <1>1 DEF Sent, KeptSaves, KeptCommands
<1>4. ChallengeInv => ChallengeInv'
  BY <1>1, <1>2, <1>3 DEF ChallengeInv, SavedIsStored, Awaiting, Awaits
<1>7. TextsMade => TextsMade'
  BY <1>1 DEF TextsMade
<1>5. ProposalInv => ProposalInv'
  BY <1>1, <1>2, <1>3 DEF ProposalInv, CommandsAreAwaited, Awaits
<1>6. QED
  BY <1>1, <1>4, <1>5, <1>7 DEF EditorsInv

LEMMA EditorsStep ==
  ASSUME EditorsInv, [EditorsNext]_editorsVars
  PROVE  EditorsInv'
<1>1. CASE UNCHANGED editorsVars
  BY <1>1, EditorsStutter
<1>2. CASE desk' = desk /\ desk = "challenge" /\ ChallengeNext /\ UNCHANGED form
  BY <1>2, ChallengeStep, TextsStep DEF EditorsInv
<1>3. CASE desk' = desk /\ desk = "proposal" /\ ProposalNext /\ UNCHANGED tab
  BY <1>3, ProposalStep DEF EditorsInv
<1>4. QED
  BY <1>1, <1>2, <1>3 DEF EditorsNext

\* The invariant both editors rest on: what is said of the requests, of the keys
\* of commands and of the page that awaits an answer.
THEOREM EditorsInvariant == EditorsSpec => []EditorsInv
<1>1. EditorsInit => EditorsInv
  BY ChallengeStart, ProposalStart DEF EditorsInit, EditorsInv, ChallengeInit, ProposalInit
<1>2. EditorsInv /\ [EditorsNext]_editorsVars => EditorsInv'
  BY EditorsStep
<1>3. QED
  BY <1>1, <1>2, PTL DEF EditorsSpec

\* Neither editor says "saved" of a text the server does not have.
THEOREM SavedIsWhatIsStored == EditorsSpec => []SavedMeansStored
<1>1. EditorsInv => SavedMeansStored
  <2>1. CASE desk = "challenge" /\ ChallengeInv /\ form = [t \in Tabs |-> NewForm]
    <3>1. \A t \in Tabs : form[t].page = "closed"
      BY <2>1, NewFormTyped
    <3>2. QED
      BY <2>1, <3>1 DEF SavedMeansStored, AcknowledgedIsStored, Opened, ChallengeInv
  <2>2. CASE desk = "proposal" /\ ProposalInv /\ tab = [t \in Tabs |-> NewTab]
    <3>1. \A t \in Tabs : tab[t].status = "idle"
      BY <2>2 DEF NewTab
    <3>2. \A t \in Tabs : Opened(t) => form[t].saved = history[form[t].version]
      BY <2>2 DEF ProposalInv, FormOK, Opened
    <3>3. QED
      BY <3>1, <3>2 DEF SavedMeansStored, SavedIsStored, AcknowledgedIsStored
  <2>3. QED
    BY <2>1, <2>2 DEF EditorsInv
<1>2. QED
  BY <1>1, EditorsInvariant, PTL

\* What is handed in is what was typed in the form that says so.
THEOREM WhatIsTypedIsHandedIn == EditorsSpec => []TypedIsHandedIn
<1>1. EditorsInv => TypedIsHandedIn
  <2>1. CASE desk = "challenge" /\ ChallengeInv /\ form = [t \in Tabs |-> NewForm]
    BY <2>1, NewFormTyped DEF TypedIsHandedIn
  <2>2. CASE desk = "proposal" /\ ProposalInv /\ tab = [t \in Tabs |-> NewTab]
    BY <2>2 DEF ProposalInv, FormOK, TypedIsHandedIn
  <2>3. QED
    BY <2>1, <2>2 DEF EditorsInv
<1>2. QED
  BY <1>1, EditorsInvariant, PTL

\* A change that is not saved has its timer, or a save that is awaited, or the page says that its
\* newest save failed; and no command is without an answer on its way.
THEOREM NothingGetsStuck == EditorsSpec => []NothingIsStuck
<1>1. EditorsInv => NothingIsStuck
  <2>1. CASE desk = "challenge" /\ ChallengeInv /\ form = [t \in Tabs |-> NewForm]
    BY <2>1, NewFormTyped
       DEF ChallengeInv, NothingIsStuck, CommandsAreAwaited, ChangesAreAwaited, Settled, Awaiting
  <2>2. CASE desk = "proposal" /\ ProposalInv /\ tab = [t \in Tabs |-> NewTab]
    BY <2>2 DEF ProposalInv, NothingIsStuck, ChangesAreAwaited, NewTab
  <2>3. QED
    BY <2>1, <2>2 DEF EditorsInv
<1>2. QED
  BY <1>1, EditorsInvariant, PTL

\* No answer takes a change off an open page before a version has it.
THEOREM UnstoredStaysOnThePage == EditorsSpec => UnstoredIsKept
<1> DEFINE Kept == \A t \in Tabs : tab[t].page = "open" /\ tab'[t].page = "open"
                                     => tab[t].shown \ Stored' \subseteq tab'[t].shown
<1>1. EditorsInv /\ [EditorsNext]_editorsVars => [Kept]_challengeVars
  <2> SUFFICES ASSUME EditorsInv, [EditorsNext]_editorsVars PROVE [Kept]_challengeVars
    OBVIOUS
  <2>1. CASE UNCHANGED editorsVars
    BY <2>1 DEF editorsVars
  <2>2. CASE desk = "challenge" /\ ChallengeNext
    BY <2>2, UnstoredStep DEF EditorsInv
  <2>3. CASE UNCHANGED tab
    BY <2>3
  <2>4. QED
    BY <2>1, <2>2, <2>3 DEF EditorsNext
<1>2. QED
  BY <1>1, EditorsInvariant, PTL DEF EditorsSpec, UnstoredIsKept

\* A proposal form writes only over what it has seen.
THEOREM FormsWriteOverWhatTheySaw == EditorsSpec => FormsOverwriteNothing
<1> DEFINE Over == desk = "proposal" => history[Latest] \subseteq history'[Len(history')]
<1>1. EditorsInv /\ [EditorsNext]_editorsVars => [Over]_editorsVars
  BY FormsOverwriteStep DEF EditorsInv, EditorsNext
<1>2. QED
  BY <1>1, EditorsInvariant, PTL DEF EditorsSpec, FormsOverwriteNothing
=============================================================================
