----------------------------- MODULE Challenge ------------------------------
(***************************************************************************)
(* One challenge of an organization, from its first draft through the      *)
(* approval gates to the published call, as the PostgreSQL adapter and the *)
(* constraints of its tables keep it (apps/api/src/postgres/challenges.ts, *)
(* packages/domain/src/challenge.ts, migrations 0003, 0005-0010, 0012 and  *)
(* 0022).                                                                  *)
(*                                                                         *)
(* A command is one transaction that holds the challenge's row lock from   *)
(* its first read to its commit, so it is one step here.  A command that   *)
(* is refused, or answered from a stored response, changes nothing and is  *)
(* no step.  Roles decide which command a member may give; who recorded a  *)
(* gate is part of the state.                                              *)
(***************************************************************************)
EXTENDS Integers, Sequences, FiniteSets

CONSTANTS
  Users,        \* members of the organization and of the platform
  RolesOf,      \* their roles: one in the organization, any number of platform roles
  Contents,     \* what a version may contain
  MaxTime,      \* bound: the last instant of a run
  MaxSkew,      \* bound: how far an API host's clock is off
  MaxVersion,   \* bound: the last lock_version
  MaxSaves,     \* bound: how often the content is saved
  MaxApprovals  \* bound: the decisions recorded in a run

Gates == {"technical", "legal", "finance", "quality"}

Roles == {"org:owner", "org:member", "org:publisher", "org:approver_technical",
          "org:approver_legal", "org:approver_finance",
          "platform:ops", "platform:legal", "platform:finance"}

Times == 0..MaxTime
Deadlines == 1..(MaxTime + 1)

\* A content passes no readiness rule, that of triage, or that of approval and publication too.
\* It may be listed in the public catalogue or not.
Content == [ready : {"no", "triage", "full"}, deadline : Deadlines, listed : BOOLEAN]

ASSUME ChallengeAssumption ==
  /\ RolesOf \in [Users -> SUBSET Roles]
  /\ Contents \subseteq Content
  /\ MaxTime \in Nat \ {0}
  /\ MaxSkew \in Nat
  /\ MaxVersion \in Nat
  /\ MaxSaves \in Nat
  /\ MaxApprovals \in Nat

VARIABLES
  now,         \* the database clock
  stage,       \* challenge.stage, "none" before the row exists
  lockVersion, \* lock_version
  versions,    \* challenge_version, with the eligibility_rule snapshot of each; the last is current
  approvals,   \* challenge_approval
  published,   \* published_version_id (0: null), owner_publisher_user_id, publication_state, deadline
  projection,  \* challenge_public_projection, or NoProjection
  receipts     \* mutation_receipt: the version each lock_version showed to those who read it

record == <<stage, lockVersion, receipts>>
call == <<published, projection>>
vars == <<now, record, versions, approvals, call>>

Version == [content : Contents, snapshot : BOOLEAN,
            lock : {"unlocked", "triage_submission", "approval_submission", "publication"}]

\* "read" is the expected_version the decision was sent with.
Approval == [version : Nat, gate : Gates, decision : {"approved", "rejected"}, by : Users,
             read : Nat]

PublicationStates == {"open", "paused", "closed", "cancelled"}

Unpublished == [version |-> 0, owner |-> FALSE, state |-> "hidden", deadline |-> 0]
NoProjection == [version |-> 0, state |-> "hidden", deadline |-> 0]

TypeOK ==
  /\ now \in Times
  /\ stage \in {"none", "draft", "triage", "formulation", "approvals", "published"}
  /\ lockVersion \in 0..MaxVersion
  /\ versions \in Seq(Version)
  /\ approvals \subseteq Approval
  /\ published \in {Unpublished} \cup
       [version : DOMAIN versions, owner : BOOLEAN, state : PublicationStates, deadline : Deadlines]
  /\ projection \in {NoProjection} \cup
       [version : DOMAIN versions, state : PublicationStates, deadline : Deadlines]
  /\ receipts \in Seq(DOMAIN versions)

Init ==
  /\ now = 0
  /\ stage = "none"
  /\ lockVersion = 0
  /\ versions = <<>>
  /\ approvals = {}
  /\ published = Unpublished
  /\ projection = NoProjection
  /\ receipts = <<>>

-----------------------------------------------------------------------------
Tick ==
  /\ now' \in Times
  /\ now' = now + 1
  /\ UNCHANGED <<record, versions, approvals, call>>

ApiClock == {t \in Times : now - MaxSkew <= t /\ t <= now + MaxSkew}

\* Someone with one of these roles gives the command.
GivenBy(roles) == \E u \in Users : RolesOf[u] \cap roles # {}

Authors == {"org:owner", "org:member"}
Publishers == {"org:owner", "org:publisher"}

current == Len(versions)
content == versions[current].content

\* expected_version is the version the caller has read: any up to now.
Expected == 0..lockVersion

\* Mutant of Fresh: the staleness check is dropped.
FreshAlways(expected) == TRUE

Fresh(expected) == expected = lockVersion

\* The token moves on, and the receipt says which content it stands for.
Accept ==
  /\ lockVersion' = lockVersion + 1
  /\ lockVersion' <= MaxVersion
  /\ receipts' = Append(receipts, Len(versions'))

NewVersion(what) == [content |-> what, snapshot |-> FALSE, lock |-> "unlocked"]

\* Mutant of LockFor: the reason is written without asking whether the version is locked.
RelockFor(version, reason) == [version EXCEPT !.lock = reason]

\* Only an unlocked version is locked, and then for good.
LockFor(version, reason) ==
  IF version.lock = "unlocked" THEN [version EXCEPT !.lock = reason] ELSE version

\* The rule snapshot is inserted once for a version; an editable challenge's must be unexpired.
Snapshot(version) ==
  IF stage \in {"draft", "formulation"} /\ version.content.deadline <= now
  THEN {}
  ELSE {[version EXCEPT !.snapshot = TRUE]}

\* The proposal deadline lies ahead, by the clock of the API host.
Attachable == \E at \in ApiClock : content.deadline > at

Decisions(v, decision) == {a \in approvals : a.version = v /\ a.decision = decision}

Rejected == Decisions(current, "rejected") # {}

-----------------------------------------------------------------------------
(***************************************************************************)
(* Authoring.                                                              *)
(***************************************************************************)

Create ==
  /\ stage = "none"
  /\ GivenBy(Authors)
  /\ \E what \in Contents : versions' = <<NewVersion(what)>>
  /\ stage' = "draft"
  /\ Accept
  /\ UNCHANGED <<now, approvals, call>>

Editable ==
  \/ stage \in {"draft", "formulation"} /\ GivenBy(Authors)
  \/ stage \in {"triage", "approvals"} /\ GivenBy({"org:owner"})
  \/ stage = "approvals" /\ Rejected /\ GivenBy(Authors)

\* Every save is a new version, without lock, snapshot or decisions.
Supersede(what) == versions' = Append(versions, NewVersion(what))

Patch ==
  /\ Editable
  /\ Len(versions) <= MaxSaves
  /\ \E expected \in Expected, what \in Contents : Fresh(expected) /\ Supersede(what)
  /\ stage' = IF Rejected \/ stage \in {"triage", "approvals"} THEN "formulation" ELSE stage
  /\ Accept
  /\ UNCHANGED <<now, approvals, call>>

RequestTriage ==
  /\ stage = "draft"
  /\ GivenBy(Authors)
  /\ content.ready \in {"triage", "full"}
  /\ \E expected \in Expected : Fresh(expected)
  /\ versions' = [versions EXCEPT ![current] = LockFor(@, "triage_submission")]
  /\ stage' = "triage"
  /\ Accept
  /\ UNCHANGED <<now, approvals, call>>

\* "triage-passed" is attested by the stage, so only the readiness rule of triage has been met.
AdvanceFormulation ==
  /\ stage = "triage"
  /\ GivenBy(Authors \cup {"platform:ops"})
  /\ \E expected \in Expected : Fresh(expected)
  /\ stage' = "formulation"
  /\ UNCHANGED versions
  /\ Accept
  /\ UNCHANGED <<now, approvals, call>>

\* Mutant of SubmitForApproval: the version is taken to be locked since triage.
SubmitLockedByTriage ==
  versions' \in {[versions EXCEPT ![current] = v] : v \in Snapshot(versions[current])}

SubmitForApproval ==
  versions' \in {[versions EXCEPT ![current] = LockFor(v, "approval_submission")] :
                   v \in Snapshot(versions[current])}

RequestApprovals ==
  /\ stage = "formulation"
  /\ GivenBy(Authors)
  /\ content.ready = "full"
  /\ Attachable
  /\ \E expected \in Expected : Fresh(expected)
  /\ SubmitForApproval
  /\ stage' = "approvals"
  /\ Accept
  /\ UNCHANGED <<now, approvals, call>>

-----------------------------------------------------------------------------
(***************************************************************************)
(* The gates.  A decision moves neither the stage nor the token.           *)
(***************************************************************************)

ApproverRoles(gate) ==
  CASE gate = "technical" -> {"org:approver_technical"}
    [] gate = "legal" -> {"org:approver_legal", "platform:legal"}
    [] gate = "finance" -> {"org:approver_finance", "platform:finance"}
    [] gate = "quality" -> {"platform:ops"}

\* Mutant of Undecided: one person may decide several gates.
UndecidedGate(gate, user) ==
  \A a \in approvals : a.version = current => a.gate # gate

Undecided(gate, user) ==
  \A a \in approvals : a.version = current => a.gate # gate /\ a.by # user

RecordApproval ==
  /\ stage = "approvals"
  /\ Cardinality(approvals) < MaxApprovals
  /\ \E gate \in Gates, user \in Users, decision \in {"approved", "rejected"},
        expected \in Expected :
       /\ RolesOf[user] \cap ApproverRoles(gate) # {}
       /\ Fresh(expected)
       /\ Undecided(gate, user)
       /\ approvals' = approvals \cup {[version |-> current, gate |-> gate,
            decision |-> decision, by |-> user, read |-> expected]}
  /\ UNCHANGED <<now, record, versions, call>>

-----------------------------------------------------------------------------
(***************************************************************************)
(* Publication.                                                            *)
(***************************************************************************)

Cleared == {a.gate : a \in Decisions(current, "approved")} = Gates

\* Mutant of Mirror: a new deadline is not copied.
MirrorState(row) ==
  projection' = IF projection = NoProjection THEN projection
                ELSE [projection EXCEPT !.state = row.state]

\* The projection row follows the aggregate, where there is one.
Mirror(row) ==
  projection' = IF projection = NoProjection THEN projection
                ELSE [projection EXCEPT !.state = row.state, !.deadline = row.deadline]

Release(byOwner) ==
  /\ content.ready = "full"
  /\ Attachable
  /\ content.deadline > now                       \* validate_challenge_publication
  /\ published.version = 0
  /\ published' = [version |-> current, owner |-> byOwner, state |-> "open",
                   deadline |-> content.deadline]
  /\ projection' = IF content.listed
                   THEN [version |-> current, state |-> "open", deadline |-> content.deadline]
                   ELSE NoProjection
  /\ \E expected \in Expected : Fresh(expected)
  /\ stage' = "published"
  /\ Accept
  /\ UNCHANGED <<now, approvals>>

PublishAsOwner ==
  /\ stage \in {"draft", "triage", "formulation", "approvals"}
  /\ GivenBy({"org:owner"})
  /\ versions' \in {[versions EXCEPT ![current] = LockFor(v, "publication")] :
                      v \in Snapshot(versions[current])}
  /\ Release(TRUE)

PublishCleared ==
  /\ stage = "approvals"
  /\ GivenBy({"org:publisher"})
  /\ Cleared
  /\ versions' = [versions EXCEPT ![current] = LockFor(@, "publication")]
  /\ Release(FALSE)

ExtendDeadline ==
  /\ GivenBy(Publishers)
  /\ published.state = "open"
  /\ \E expected \in Expected, deadline \in Deadlines, at \in ApiClock :
       /\ Fresh(expected)
       /\ deadline > at
       /\ deadline > published.deadline
       /\ published' = [published EXCEPT !.deadline = deadline]
  /\ Mirror(published')
  /\ UNCHANGED <<stage, versions>>
  /\ Accept
  /\ UNCHANGED <<now, approvals>>

\* Mutant of PublicationMoves: a closed call may be opened again.
ReopeningMoves == {"open", "paused", "closed"} \X {"open", "paused", "closed", "cancelled"}

PublicationMoves == {<<"open", "paused">>, <<"open", "closed">>, <<"open", "cancelled">>,
                     <<"paused", "open">>, <<"paused", "closed">>, <<"paused", "cancelled">>}

ChangePublicationState ==
  /\ GivenBy(Publishers)
  /\ \E expected \in Expected, to \in PublicationStates :
       /\ Fresh(expected)
       /\ <<published.state, to>> \in PublicationMoves
       /\ published' = [published EXCEPT !.state = to]
  /\ Mirror(published')
  /\ UNCHANGED <<stage, versions>>
  /\ Accept
  /\ UNCHANGED <<now, approvals>>

-----------------------------------------------------------------------------
Next ==
  \/ Create
  \/ Patch
  \/ RequestTriage
  \/ AdvanceFormulation
  \/ RequestApprovals
  \/ RecordApproval
  \/ PublishAsOwner
  \/ PublishCleared
  \/ ExtendDeadline
  \/ ChangePublicationState
  \/ Tick

Spec == Init /\ [][Next]_vars

-----------------------------------------------------------------------------
(***************************************************************************)
(* Properties.                                                             *)
(***************************************************************************)

(***************************************************************************)
(* A gate decides on the version its approver had read.  Decisions leave   *)
(* lock_version alone (recordApproval has a receipt of its own), so the    *)
(* token an approver sends is shared with all the other gates, and a save  *)
(* of the owner between the reading and the decision must make it stale.   *)
(***************************************************************************)
ApprovedWhatWasRead ==
  \A a \in approvals : a.read \in DOMAIN receipts /\ receipts[a.read] = a.version

(***************************************************************************)
(* What the gates decide on has been handed to them: the version is        *)
(* complete, locked and carries its eligibility rule, whichever submission *)
(* locked it first and however often it was sent back                      *)
(* (challenges.ts:1408-1442: "what must never happen is the version ending *)
(* this transition unlocked").                                             *)
(***************************************************************************)
Submitted(v) ==
  /\ versions[v].content.ready = "full"
  /\ versions[v].lock # "unlocked"
  /\ versions[v].snapshot

GatesDecideOnSubmitted ==
  /\ stage = "approvals" => Submitted(current)
  /\ \A a \in approvals : Submitted(a.version)

(***************************************************************************)
(* A published version is answered for: it is the current one, locked and  *)
(* with its rule, and either an owner published it or four people, one per *)
(* gate, approved exactly this version and nobody rejected it              *)
(* (validate_challenge_publication, 0022:7-56).                            *)
(***************************************************************************)
PublishedIsAccountable ==
  published.version # 0 =>
    /\ stage = "published"
    /\ published.version = current /\ Submitted(current)
    /\ published.owner \/
         /\ Decisions(current, "rejected") = {}
         /\ {a.gate : a \in Decisions(current, "approved")} = Gates
         /\ Cardinality({a.by : a \in Decisions(current, "approved")}) = Cardinality(Gates)

(***************************************************************************)
(* The public catalogue shows a published call exactly when its terms are  *)
(* public, with the state and the deadline the organization set last       *)
(* (protect_challenge_public_projection, 0012:19-54).                      *)
(***************************************************************************)
CatalogueIsCurrent ==
  projection = IF published.version # 0 /\ versions[published.version].content.listed
               THEN [version |-> published.version, state |-> published.state,
                     deadline |-> published.deadline]
               ELSE NoProjection

(***************************************************************************)
(* Evidence is append-only: a submitted version keeps its content and the  *)
(* reason it was first locked for, and a decision stays recorded           *)
(* (protect_challenge_version_evidence, 0005; 0006).                       *)
(***************************************************************************)
EvidenceIsKept ==
  [][/\ approvals \subseteq approvals'
     /\ \A v \in DOMAIN versions :
          /\ versions'[v].content = versions[v].content
          /\ versions[v].snapshot => versions'[v].snapshot
          /\ versions[v].lock # "unlocked" => versions'[v].lock = versions[v].lock]_vars

(***************************************************************************)
(* To solvers the challenge is a call that keeps what it promised.         *)
(***************************************************************************)
Promise == INSTANCE Call WITH Terms <- 1..MaxVersion, terms <- published.version,
                              state <- published.state, deadline <- published.deadline

KeepsThePromise == Promise!CallSpec
=============================================================================
