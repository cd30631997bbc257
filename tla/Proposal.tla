------------------------------ MODULE Proposal ------------------------------
(***************************************************************************)
(* One proposal of a solver workspace to one published call, as the        *)
(* PostgreSQL adapter and the constraints of its tables keep it            *)
(* (apps/api/src/postgres/proposals.ts, migrations 0013, 0016 and 0017).   *)
(*                                                                         *)
(* A command is one transaction that holds the proposal's row lock from    *)
(* its first read to its commit, so it is one step here.  Two clocks take  *)
(* part: that of the API host that serves the command, which may be off by *)
(* MaxSkew, and the database's transaction_timestamp(), the moment the     *)
(* transaction began, which may lie MaxWait before the moment it gets its  *)
(* locks.  A command refused, or answered from a stored response, changes  *)
(* nothing and is no step; so every command here is one that a caller with *)
(* the permission gives, permissions being no state of this component.     *)
(***************************************************************************)
EXTENDS Integers, Sequences, FiniteSets

CONSTANTS
  Contents,       \* what a version may contain
  Complete,       \* the contents the readiness rule accepts
  MaxTime,        \* bound: the last instant of a run
  MaxSkew,        \* bound: how far an API host's clock is off
  MaxWait,        \* bound: how long a transaction waits for its locks
  GrantDuration,  \* C4_PROPOSAL_GRANT_DURATION_MS
  MaxPatches      \* bound: how often a draft is saved

ASSUME ProposalAssumption ==
  /\ Complete \subseteq Contents
  /\ MaxTime \in Nat \ {0}
  /\ MaxSkew \in Nat
  /\ MaxWait \in Nat
  /\ GrantDuration \in Nat \ {0}
  /\ MaxPatches \in Nat

\* The instants of a run, and the deadlines it may meet: one lies beyond its end.
Times == 0..MaxTime
Deadlines == 1..(MaxTime + 1)

VARIABLES
  now,             \* the database clock
  call,            \* the published call: its publication state and proposal deadline
  standing,        \* the owner's: "eligible", "admitted" (only invited as required), "none"
  state,           \* proposal.state, "none" before the row exists
  lockVersion,     \* lock_version
  createdAt,       \* created_at
  current,         \* current_version_id
  versions,        \* proposal_version
  grants,          \* access_grant: the organization's read grants
  clarifications,  \* proposal_clarification
  revisions,       \* proposal_revision_request
  evidence         \* audit_event, mutation_receipt and outbox_event: a row per accepted command

environment == <<now, call, standing>>
aggregate == <<state, lockVersion, createdAt, evidence>>
content == <<current, versions>>
vars == <<environment, aggregate, content, grants, clarifications, revisions>>

States == {"none", "draft", "submitted", "eligibility_review", "eligible", "ineligible",
           "clarification_requested", "clarification_submitted", "reviewing",
           "revision_requested", "revision_draft", "resubmitted"}

Actions == {"created", "updated", "submitted", "eligibility.started", "eligible", "ineligible",
            "clarification.requested", "clarification.submitted", "review.started",
            "revision.requested", "revision.draft.created", "resubmitted"}

Version == [number : Nat, base : Nat, content : Contents,
            lock : {"unlocked", "submission", "resubmission"}, at : Times]
Grant == [version : Nat, from : Times, expires : Nat, state : {"active", "revoked"}]
Clarification == [version : Nat, state : {"requested", "submitted", "resolved"}, at : Times]
Revision == [base : Nat, deadline : Deadlines, result : Nat, at : Times,
             state : {"requested", "in_progress", "resubmitted"}]

TypeOK ==
  /\ now \in Times
  /\ call \in [state : {"open", "paused", "closed", "cancelled"}, deadline : Deadlines]
  /\ standing \in {"eligible", "admitted", "none"}
  /\ state \in States
  /\ lockVersion \in Nat
  /\ createdAt \in Times
  /\ versions \in Seq(Version)
  /\ current \in IF state = "none" THEN {0} ELSE DOMAIN versions
  /\ grants \in Seq(Grant)
  /\ clarifications \in Seq(Clarification)
  /\ revisions \in Seq(Revision)
  /\ evidence \in Seq([action : Actions, basis : Nat])

Init ==
  /\ now = 0
  /\ call \in [state : {"open"}, deadline : Deadlines]
  /\ standing \in {"eligible", "admitted", "none"}
  /\ state = "none"
  /\ lockVersion = 0
  /\ createdAt = 0
  /\ current = 0
  /\ versions = <<>>
  /\ grants = <<>>
  /\ clarifications = <<>>
  /\ revisions = <<>>
  /\ evidence = <<>>

-----------------------------------------------------------------------------
(***************************************************************************)
(* The environment.                                                        *)
(***************************************************************************)

Tick ==
  /\ now' \in Times
  /\ now' = now + 1
  /\ UNCHANGED <<call, standing, aggregate, content, grants, clarifications, revisions>>

\* Invitations and eligibility gates come and go.
ChangeStanding ==
  /\ standing' \in {"eligible", "admitted", "none"}
  /\ UNCHANGED <<now, call, aggregate, content, grants, clarifications, revisions>>

\* What an API host's clock may show, and when a transaction that runs now may have begun.
ApiClock == {t \in Times : now - MaxSkew <= t /\ t <= now + MaxSkew}
TransactionClock == {t \in Times : now - MaxWait <= t /\ t <= now}

ExtendDeadline ==
  /\ call.state = "open"
  /\ \E deadline \in Deadlines, at \in ApiClock :
       /\ deadline > at
       /\ deadline > call.deadline
       /\ call' = [call EXCEPT !.deadline = deadline]
  /\ UNCHANGED <<now, standing, aggregate, content, grants, clarifications, revisions>>

PublicationMoves == {<<"open", "paused">>, <<"open", "closed">>, <<"open", "cancelled">>,
                     <<"paused", "open">>, <<"paused", "closed">>, <<"paused", "cancelled">>}

ChangePublicationState ==
  /\ \E to \in {"open", "paused", "closed", "cancelled"} :
       /\ <<call.state, to>> \in PublicationMoves
       /\ call' = [call EXCEPT !.state = to]
  /\ UNCHANGED <<now, standing, aggregate, content, grants, clarifications, revisions>>

-----------------------------------------------------------------------------
(***************************************************************************)
(* What the commands share.                                                *)
(***************************************************************************)

\* expected_version is the version the caller has read: any up to now.
Expected == 0..lockVersion

\* Mutant of Fresh: the staleness check is dropped.
FreshAlways(expected) == TRUE

Fresh(expected) == expected = lockVersion

\* The rows record() adds, and the token every command moves on.
Accept(action, expected) ==
  /\ lockVersion' = lockVersion + 1
  /\ evidence' = Append(evidence, [action |-> action, basis |-> expected])

\* CHECK (updated_at >= created_at).
Updatable(at) == at >= createdAt

\* Mutant of NextNumber: the numbering of submit, where lock_version and versions agree.
NumberByToken == lockVersion + 1

NextNumber == Len(versions) + 1

InsertVersion(number, what, lock, at) ==
  /\ versions' = Append(versions,
       [number |-> number, base |-> current, content |-> what, lock |-> lock, at |-> at])
  /\ current' = Len(versions) + 1

NewGrant(begin) ==
  [version |-> Len(versions) + 1, from |-> begin, expires |-> begin + GrantDuration,
   state |-> "active"]

\* A grant is in force for a transaction that began in its window, whenever that runs.
InForce(grant, begin) ==
  /\ grant.state = "active"
  /\ grant.from <= begin
  /\ begin < grant.expires

Granted(begin) == \E i \in DOMAIN grants : InForce(grants[i], begin)

-----------------------------------------------------------------------------
(***************************************************************************)
(* The owner's commands.                                                   *)
(***************************************************************************)

Create ==
  /\ state = "none"
  /\ \E at \in ApiClock, what \in Contents :
       /\ call.state = "open" /\ call.deadline > at
       /\ createdAt' = at
       /\ InsertVersion(1, what, "unlocked", at)
  /\ state' = "draft"
  /\ Accept("created", 0)
  /\ UNCHANGED <<environment, grants, clarifications, revisions>>

Editable == {"draft", "revision_draft"}

\* Mutant of Patch: the current version is overwritten, not superseded.
PatchInPlace ==
  /\ state \in Editable \cup {"revision_requested"}
  /\ \E expected \in Expected, at \in ApiClock, what \in Contents :
       /\ Fresh(expected)
       /\ Updatable(at)
       /\ versions' = [versions EXCEPT ![current].content = what]
       /\ Accept("updated", expected)
  /\ UNCHANGED <<environment, state, createdAt, current, grants, clarifications, revisions>>

Saves == {i \in DOMAIN evidence : evidence[i].action = "updated"}

Patch ==
  /\ state \in Editable
  /\ Cardinality(Saves) < MaxPatches
  /\ \E expected \in Expected, at \in ApiClock, what \in Contents :
       /\ Fresh(expected)
       /\ Updatable(at)
       /\ InsertVersion(NextNumber, what, "unlocked", at)
       /\ Accept("updated", expected)
  /\ UNCHANGED <<environment, state, createdAt, grants, clarifications, revisions>>

Submittable(begin) ==
  /\ call.state = "open"
  /\ begin < call.deadline
  /\ standing = "eligible"

Submit ==
  /\ state = "draft"
  /\ versions[current].content \in Complete
  /\ \E expected \in Expected, begin \in TransactionClock :
       /\ Fresh(expected)
       /\ Submittable(begin)
       /\ Updatable(begin)
       /\ InsertVersion(lockVersion + 1, versions[current].content, "submission", begin)
       /\ grants' = Append(grants, NewGrant(begin))
       /\ Accept("submitted", expected)
  /\ state' = "submitted"
  /\ UNCHANGED <<environment, createdAt, clarifications, revisions>>

SubmitClarification ==
  /\ state = "clarification_requested"
  /\ \E expected \in Expected, at \in ApiClock, i \in DOMAIN clarifications :
       /\ Fresh(expected)
       /\ clarifications[i].state = "requested"
       /\ clarifications[i].version = current
       /\ Updatable(at) /\ at >= clarifications[i].at
       /\ clarifications' =
            [clarifications EXCEPT ![i] = [@ EXCEPT !.state = "submitted", !.at = at]]
       /\ Accept("clarification.submitted", expected)
  /\ state' = "clarification_submitted"
  /\ UNCHANGED <<environment, createdAt, content, grants, revisions>>

StartRevision ==
  /\ state = "revision_requested"
  /\ \E expected \in Expected, at \in ApiClock, i \in DOMAIN revisions :
       /\ Fresh(expected)
       /\ revisions[i].state = "requested"
       /\ revisions[i].deadline > at
       /\ Updatable(at) /\ at >= revisions[i].at
       /\ revisions' = [revisions EXCEPT ![i] = [@ EXCEPT !.state = "in_progress", !.at = at]]
       /\ InsertVersion(NextNumber, versions[current].content, "unlocked", at)
       /\ Accept("revision.draft.created", expected)
  /\ state' = "revision_draft"
  /\ UNCHANGED <<environment, createdAt, grants, clarifications>>

\* Mutant of Supersede: the new grant is added to the old one.
SupersedeNothing(begin) == grants' = Append(grants, NewGrant(begin))

\* The active read grants are revoked, whether or not they have expired: exactly one must be.
Supersede(begin) ==
  \E i \in DOMAIN grants :
    /\ grants[i].state = "active"
    /\ \A j \in DOMAIN grants : grants[j].state = "active" => j = i
    /\ grants' = Append([grants EXCEPT ![i] = [@ EXCEPT !.state = "revoked"]], NewGrant(begin))

\* Mutant of Resubmittable: the deadline of the request is not looked at.
ResubmittableLate(i, begin) == revisions[i].state = "in_progress"

Resubmittable(i, begin) ==
  /\ revisions[i].state = "in_progress"
  /\ begin < revisions[i].deadline

Resubmit ==
  /\ state = "revision_draft"
  /\ standing \in {"eligible", "admitted"}
  /\ versions[current].content \in Complete
  /\ \E expected \in Expected, begin \in TransactionClock, i \in DOMAIN revisions :
       /\ Fresh(expected)
       /\ Resubmittable(i, begin)
       /\ Updatable(begin) /\ begin >= revisions[i].at
       /\ InsertVersion(NextNumber, versions[current].content, "resubmission", begin)
       /\ revisions' = [revisions EXCEPT ![i] =
            [@ EXCEPT !.state = "resubmitted", !.at = begin, !.result = Len(versions) + 1]]
       /\ Supersede(begin)
       /\ Accept("resubmitted", expected)
  /\ state' = "resubmitted"
  /\ UNCHANGED <<environment, createdAt, clarifications>>

-----------------------------------------------------------------------------
(***************************************************************************)
(* The organization's commands: each needs a read grant in force when its  *)
(* transaction began, and none looks at the state of the call.             *)
(***************************************************************************)

OrganizationTransition(from, to, action, at) ==
  /\ state = from
  /\ \E begin \in TransactionClock : Granted(begin)
  /\ Updatable(at)
  /\ \E expected \in Expected : Fresh(expected) /\ Accept(action, expected)
  /\ state' = to
  /\ UNCHANGED <<environment, createdAt, content, grants>>

StartEligibilityReview ==
  /\ \E at \in ApiClock :
       OrganizationTransition("submitted", "eligibility_review", "eligibility.started", at)
  /\ UNCHANGED <<clarifications, revisions>>

DecideEligibility ==
  /\ \E at \in ApiClock, decision \in {"eligible", "ineligible"} :
       OrganizationTransition("eligibility_review", decision, decision, at)
  /\ UNCHANGED <<clarifications, revisions>>

RequestClarification ==
  /\ \E at \in ApiClock :
       /\ OrganizationTransition("eligible", "clarification_requested",
                                 "clarification.requested", at)
       /\ clarifications' = Append(clarifications,
            [version |-> current, state |-> "requested", at |-> at])
  /\ UNCHANGED revisions

\* Mutant of Resolve: the question stays open.
ResolveNothing(i, at) == UNCHANGED clarifications

Resolve(i, at) ==
  clarifications' = [clarifications EXCEPT ![i] = [@ EXCEPT !.state = "resolved", !.at = at]]

ResolveClarification ==
  /\ \E at \in ApiClock, i \in DOMAIN clarifications :
       /\ OrganizationTransition("clarification_submitted", "reviewing", "review.started", at)
       /\ clarifications[i].state = "submitted"
       /\ at >= clarifications[i].at
       /\ Resolve(i, at)
  /\ UNCHANGED revisions

\* Mutant of NewRevision: the request cites the base of the version it is about.
NewRevisionOfBase(deadline, at) ==
  [base |-> versions[current].base, deadline |-> deadline, result |-> 0, at |-> at,
   state |-> "requested"]

NewRevision(deadline, at) ==
  [base |-> current, deadline |-> deadline, result |-> 0, at |-> at, state |-> "requested"]

RequestRevision ==
  /\ \E at \in ApiClock, deadline \in Deadlines :
       /\ OrganizationTransition("reviewing", "revision_requested", "revision.requested", at)
       /\ deadline > at
       /\ revisions' = Append(revisions, NewRevision(deadline, at))
  /\ UNCHANGED clarifications

-----------------------------------------------------------------------------
Owner ==
  \/ Create
  \/ Patch
  \/ Submit
  \/ SubmitClarification
  \/ StartRevision
  \/ Resubmit

Organization ==
  \/ StartEligibilityReview
  \/ DecideEligibility
  \/ RequestClarification
  \/ ResolveClarification
  \/ RequestRevision

Environment ==
  \/ Tick
  \/ ChangeStanding
  \/ ExtendDeadline
  \/ ChangePublicationState

Next == Owner \/ Organization \/ Environment

Spec == Init /\ [][Next]_vars

-----------------------------------------------------------------------------
(***************************************************************************)
(* Properties.                                                             *)
(***************************************************************************)

(***************************************************************************)
(* No insert ever meets the trigger that refuses a version with a gap or   *)
(* with another base than the latest (0017:219-252), although submit       *)
(* numbers its version by lock_version and the later commands, when        *)
(* lock_version has run ahead, by the highest number.                      *)
(***************************************************************************)
HistoryIsChain ==
  /\ current = Len(versions)
  /\ \A i \in DOMAIN versions : versions[i].number = i /\ versions[i].base = i - 1

(***************************************************************************)
(* Of the commands of both parties that were based on one reading of the   *)
(* proposal at most one is ever accepted, and every version of the         *)
(* aggregate is accounted for by one receipt: expected_version against     *)
(* lock_version, with the UNIQUE (entity_id, entity_version) of receipts.  *)
(***************************************************************************)
NoLostUpdate ==
  /\ lockVersion = Len(evidence)
  /\ \A i \in DOMAIN evidence : evidence[i].basis = i - 1

Active == {i \in DOMAIN grants : grants[i].state = "active"}
Locked == {i \in DOMAIN versions : versions[i].lock # "unlocked"}

(***************************************************************************)
(* From submission on the organization holds exactly one live read grant,  *)
(* and it is for the version handed in last, also while a revision is      *)
(* being drafted: what resubmit counts on when it wants to revoke exactly  *)
(* one (proposals.ts:1666-1675).                                           *)
(***************************************************************************)
GrantTracksHandedIn ==
  IF state \in {"none", "draft"} THEN Active = {} /\ Locked = {}
  ELSE \E i \in Active : /\ Active = {i}
                         /\ grants[i].version \in Locked
                         /\ \A j \in Locked : j <= grants[i].version

(***************************************************************************)
(* A question or a revision request that is still open is about the        *)
(* version the organization has been granted, never about a draft.         *)
(***************************************************************************)
OpenRequestsCiteGranted ==
  \A i \in Active :
    /\ \A c \in DOMAIN clarifications :
         clarifications[c].state # "resolved" => clarifications[c].version = grants[i].version
    /\ \A r \in DOMAIN revisions :
         revisions[r].state # "resubmitted" => revisions[r].base = grants[i].version

(***************************************************************************)
(* The evidence rows and the state of the aggregate tell the same story:   *)
(* a question is open exactly while the state says so, and so is a         *)
(* revision, of which the last one names the version it resulted in.       *)
(***************************************************************************)
EvidenceMatchesState ==
  /\ \A c \in DOMAIN clarifications :
       /\ clarifications[c].state = "requested" <=> state = "clarification_requested"
       /\ clarifications[c].state = "submitted" <=> state = "clarification_submitted"
  /\ \A r \in DOMAIN revisions :
       /\ revisions[r].state = "requested" <=> state = "revision_requested"
       /\ revisions[r].state = "in_progress" <=> state = "revision_draft"
       /\ revisions[r].state = "resubmitted" => revisions[r].result = current

(***************************************************************************)
(* Nothing is handed in late by the clock that decides: the transaction of *)
(* a submission began before the call's deadline, that of a resubmission   *)
(* before the deadline of the revision it answers, whatever the API hosts' *)
(* clocks showed when the revision was requested and started.              *)
(***************************************************************************)
HandedInOnTime ==
  /\ \A v \in DOMAIN versions :
       versions[v].lock = "submission" => versions[v].at < call.deadline
  /\ \A r \in DOMAIN revisions :
       revisions[r].state = "resubmitted" => revisions[r].at < revisions[r].deadline

\* What a request of the organization that is answered now may be shown: the locked versions
\* it has grants for, in force when the request's transaction began.
OrganizationReads ==
  {versions[grants[i].version].content :
     i \in {j \in DOMAIN grants : /\ grants[j].version \in Locked
                                 /\ \E begin \in TransactionClock : InForce(grants[j], begin)}}

(***************************************************************************)
(* The commands follow the canonical lifecycle, "shared by the browser     *)
(* oracle and the authoritative API" (packages/domain/src/proposal.ts:73). *)
(* What the organization reads is at most one content, the one handed in   *)
(* last, and it changes in two ways only: a version is handed in, or the   *)
(* grant runs out, which no draft, question or revision undoes; and it     *)
(* moves a proposal on only while it may read it.                          *)
(***************************************************************************)
Lifecycle == INSTANCE ProposalLifecycle WITH stage <- state, seen <- OrganizationReads

FollowsLifecycle == Lifecycle!Spec
=============================================================================
