-------------------------- MODULE ChallengeProofs ---------------------------
(***************************************************************************)
(* The evidence of a challenge and the promise of its call, for any        *)
(* people, contents, clocks and bounds.                                    *)
(***************************************************************************)
EXTENDS Challenge, FiniteSetTheorems, SequenceTheorems, TLAPS

-----------------------------------------------------------------------------
(***************************************************************************)
(* The inductive invariant.                                                *)
(***************************************************************************)

\* There is one receipt for each token, the last of them names the current version, and a version
\* never comes without a token.
Tokens ==
  /\ Len(receipts) = lockVersion
  /\ Len(versions) <= lockVersion
  /\ stage = "none" => lockVersion = 0
  /\ stage # "none" => Len(versions) >= 1 /\ receipts[lockVersion] = Len(versions)

\* On one version nobody decides twice, and no gate is decided twice.
DecidedOnce ==
  /\ \A a \in approvals : a.version \in DOMAIN versions
  /\ \A a, b \in approvals :
       a.version = b.version /\ (a.gate = b.gate \/ a.by = b.by) => a = b

Inv ==
  /\ TypeOK
  /\ Tokens
  /\ DecidedOnce
  /\ ApprovedWhatWasRead
  /\ GatesDecideOnSubmitted
  /\ PublishedIsAccountable
  /\ CatalogueIsCurrent

\* What every command but a decision does to the versions and the token.
Kept(v, w) ==
  /\ w.content = v.content
  /\ v.snapshot => w.snapshot
  /\ v.lock # "unlocked" => w.lock = v.lock

Grows ==
  /\ versions' \in Seq(Version)
  /\ Len(versions') \in {Len(versions), Len(versions) + 1} /\ Len(versions') >= 1
  /\ \A v \in 1..Len(versions) : Kept(versions[v], versions'[v])

Advances ==
  /\ Grows
  /\ Accept
  /\ stage' \in {"draft", "triage", "formulation", "approvals", "published"}
  /\ UNCHANGED <<now, approvals>>

-----------------------------------------------------------------------------
(***************************************************************************)
(* Versions, locks and snapshots.                                          *)
(***************************************************************************)

LEMMA OneMore ==
  ASSUME NEW S, NEW s \in Seq(S), NEW e \in S
  PROVE  /\ Append(s, e) \in Seq(S)
         /\ Len(Append(s, e)) = Len(s) + 1 /\ DOMAIN Append(s, e) = 1..(Len(s) + 1)
         /\ Append(s, e)[Len(s) + 1] = e
         /\ DOMAIN s = 1..Len(s) /\ Len(s) \in Nat
         /\ \A k \in 1..Len(s) : Append(s, e)[k] = s[k]
<1>1. /\ Append(s, e) \in Seq(S) /\ Len(Append(s, e)) = Len(s) + 1
      /\ Append(s, e)[Len(s) + 1] = e /\ \A k \in 1..Len(s) : Append(s, e)[k] = s[k]
  BY AppendProperties
<1>2. QED
  BY <1>1, LenProperties

LEMMA WiderSeq ==
  ASSUME NEW S, NEW T, S \subseteq T, NEW s \in Seq(S)
  PROVE  s \in Seq(T)
<1>1. Len(s) \in Nat /\ s \in [1..Len(s) -> S]
  BY LenProperties
<1>2. s \in [1..Len(s) -> T]
  BY <1>1
<1>3. QED
  BY <1>1, <1>2

LEMMA VersionType ==
  ASSUME TypeOK
  PROVE  /\ Len(versions) \in Nat /\ DOMAIN versions = 1..Len(versions)
         /\ \A v \in 1..Len(versions) : versions[v] \in Version
         /\ Len(receipts) \in Nat /\ DOMAIN receipts = 1..Len(receipts)
         /\ \A k \in 1..Len(receipts) : receipts[k] \in 1..Len(versions)
<1>1. versions \in Seq(Version) /\ receipts \in Seq(DOMAIN versions)
  BY DEF TypeOK
<1>2. QED
  BY <1>1, LenProperties, ElementOfSeq

LEMMA Locked ==
  ASSUME NEW v \in Version,
         NEW reason \in {"triage_submission", "approval_submission", "publication"}
  PROVE  LockFor(v, reason) \in Version /\ Kept(v, LockFor(v, reason))
         /\ LockFor(v, reason).lock # "unlocked"
         /\ LockFor(v, reason).snapshot = v.snapshot
  BY DEF LockFor, Kept, Version

LEMMA Snapshotted ==
  ASSUME NEW v \in Version, NEW w \in Snapshot(v)
  PROVE  w \in Version /\ Kept(v, w) /\ w.snapshot
  BY DEF Snapshot, Kept, Version

LEMMA KeptOnce ==
  ASSUME NEW u, NEW v, NEW w, Kept(u, v), Kept(v, w)
  PROVE  Kept(u, w)
  BY DEF Kept

LEMMA Touched ==
  ASSUME TypeOK, Len(versions) >= 1, NEW w \in Version, Kept(versions[current], w),
         versions' = [versions EXCEPT ![current] = w]
  PROVE  Grows /\ Len(versions') = Len(versions) /\ versions'[current] = w
<1>1. /\ versions \in Seq(Version) /\ current \in 1..Len(versions)
  BY VersionType DEF TypeOK, current
<1>2. /\ versions' \in Seq(Version) /\ Len(versions') = Len(versions)
      /\ \A j \in 1..Len(versions) : versions'[j] = IF j = current THEN w ELSE versions[j]
  BY <1>1, ExceptSeq
<1>3. \A v \in 1..Len(versions) : Kept(versions[v], versions'[v])
  BY <1>2 DEF Kept
<1>4. QED
  BY <1>1, <1>2, <1>3 DEF Grows

LEMMA Superseded ==
  ASSUME TypeOK, NEW what \in Contents, versions' = Append(versions, NewVersion(what))
  PROVE  Grows /\ Len(versions') = Len(versions) + 1
<1>1. NewVersion(what) \in Version
  BY DEF NewVersion, Version
<1>2. versions \in Seq(Version)
  BY DEF TypeOK
<1>3. /\ versions' \in Seq(Version) /\ Len(versions') = Len(versions) + 1 /\ Len(versions) \in Nat
      /\ \A k \in 1..Len(versions) : versions'[k] = versions[k]
  BY <1>1, <1>2, OneMore
<1>4. QED
  BY <1>3 DEF Grows, Kept

LEMMA Untouched ==
  ASSUME TypeOK, Len(versions) >= 1, UNCHANGED versions
  PROVE  Grows
  BY VersionType DEF TypeOK, Grows, Kept

LEMMA SubmittedStays ==
  ASSUME Grows, NEW v \in 1..Len(versions), Submitted(v)
  PROVE  Submitted(v)'
  BY DEF Grows, Kept, Submitted

-----------------------------------------------------------------------------
(***************************************************************************)
(* Every command but a decision advances the token over versions that only *)
(* grow.                                                                   *)
(***************************************************************************)

LEMMA CreateAdvances == ASSUME Inv, Create PROVE Advances
<1>1. Len(versions) = 0
  BY VersionType DEF Inv, Tokens, Create, TypeOK
<1>2. PICK what \in Contents : versions' = <<NewVersion(what)>>
  BY DEF Create
<1>3. NewVersion(what) \in Version
  BY DEF NewVersion, Version
<1>4. versions' \in Seq(Version) /\ Len(versions') = 1
  BY <1>2, <1>3
<1>5. QED
  BY <1>1, <1>4 DEF Create, Advances, Grows

LEMMA PatchAdvances == ASSUME Inv, Patch PROVE Advances
<1>1. PICK what \in Contents : versions' = Append(versions, NewVersion(what))
  BY DEF Patch, Supersede
<1>2. Grows
  BY <1>1, Superseded DEF Inv
<1>3. QED
  BY <1>2 DEF Patch, Editable, Advances

LEMMA TriageAdvances ==
  ASSUME Inv, RequestTriage PROVE Advances /\ Len(versions') = Len(versions)
<1>1. Len(versions) >= 1 /\ versions[current] \in Version
  BY VersionType DEF Inv, Tokens, RequestTriage, current
<1>2. Grows /\ Len(versions') = Len(versions)
  BY <1>1, Locked, Touched DEF Inv, RequestTriage
<1>3. QED
  BY <1>2 DEF RequestTriage, Advances

LEMMA ApprovalsAdvances ==
  ASSUME Inv, RequestApprovals
  PROVE  Advances /\ Len(versions') = Len(versions) /\ Submitted(current)'
<1>1. Len(versions) >= 1 /\ versions[current] \in Version
  BY VersionType DEF Inv, Tokens, RequestApprovals, current
<1>2. PICK v \in Snapshot(versions[current]) :
        versions' = [versions EXCEPT ![current] = LockFor(v, "approval_submission")]
  BY DEF RequestApprovals, SubmitForApproval
<1> DEFINE w == LockFor(v, "approval_submission")
<1>3. v \in Version /\ Kept(versions[current], v) /\ v.snapshot
  BY <1>1, Snapshotted
<1>4. w \in Version /\ Kept(v, w) /\ w.lock # "unlocked" /\ w.snapshot
  BY <1>3, Locked
<1> HIDE DEF w
<1>5. Kept(versions[current], w)
  BY <1>3, <1>4, KeptOnce
<1>6. Grows /\ Len(versions') = Len(versions) /\ versions'[current] = w
  BY <1>1, <1>2, <1>4, <1>5, Touched DEF Inv, w
<1>7. w.content.ready = "full"
  BY <1>5 DEF RequestApprovals, content, Kept
<1>8. QED
  BY <1>4, <1>6, <1>7 DEF RequestApprovals, Advances, Submitted, current

LEMMA OwnerAdvances ==
  ASSUME Inv, PublishAsOwner
  PROVE  Advances /\ Len(versions') = Len(versions) /\ Submitted(current)'
<1>1. Len(versions) >= 1 /\ versions[current] \in Version
  BY VersionType DEF Inv, Tokens, PublishAsOwner, current
<1>2. PICK v \in Snapshot(versions[current]) :
        versions' = [versions EXCEPT ![current] = LockFor(v, "publication")]
  BY DEF PublishAsOwner
<1> DEFINE w == LockFor(v, "publication")
<1>3. v \in Version /\ Kept(versions[current], v) /\ v.snapshot
  BY <1>1, Snapshotted
<1>4. w \in Version /\ Kept(v, w) /\ w.lock # "unlocked" /\ w.snapshot
  BY <1>3, Locked
<1> HIDE DEF w
<1>5. Kept(versions[current], w)
  BY <1>3, <1>4, KeptOnce
<1>6. Grows /\ Len(versions') = Len(versions) /\ versions'[current] = w
  BY <1>1, <1>2, <1>4, <1>5, Touched DEF Inv, w
<1>7. w.content.ready = "full"
  BY <1>5 DEF PublishAsOwner, Release, content, Kept
<1>8. QED
  BY <1>4, <1>6, <1>7 DEF PublishAsOwner, Release, Advances, Submitted, current

LEMMA ClearedAdvances ==
  ASSUME Inv, PublishCleared
  PROVE  Advances /\ Len(versions') = Len(versions) /\ Submitted(current)'
<1>1. Len(versions) >= 1 /\ versions[current] \in Version /\ current \in 1..Len(versions)
  BY VersionType DEF Inv, Tokens, PublishCleared, current
<1>2. Grows /\ Len(versions') = Len(versions)
  BY <1>1, Locked, Touched DEF Inv, PublishCleared
<1>3. Submitted(current)
  BY DEF Inv, GatesDecideOnSubmitted, PublishCleared
<1>4. Submitted(current)'
  BY <1>1, <1>2, <1>3 DEF Grows, Kept, Submitted, current
<1>5. QED
  BY <1>2, <1>4 DEF PublishCleared, Release, Advances

\* Commands that leave the versions alone, a published call's among them.
Keeps == AdvanceFormulation \/ ExtendDeadline \/ ChangePublicationState

LEMMA CallIsPublished ==
  ASSUME Inv, published.state \in {"open", "paused"}
  PROVE  stage = "published" /\ published.version \in 1..Len(versions) /\ published # Unpublished
         /\ published \in [version : DOMAIN versions, owner : BOOLEAN, state : PublicationStates,
                           deadline : Deadlines]
<1>1. published \in [version : DOMAIN versions, owner : BOOLEAN, state : PublicationStates,
                     deadline : Deadlines]
  BY DEF Inv, TypeOK, Unpublished
<1>2. published.version \in 1..Len(versions)
  BY <1>1, VersionType DEF Inv
<1>3. QED
  BY <1>1, <1>2, VersionType DEF Inv, PublishedIsAccountable, Unpublished

LEMMA KeepsAdvances ==
  ASSUME Inv, Keeps PROVE Advances /\ UNCHANGED versions
<1>1. CASE AdvanceFormulation
  BY <1>1, Untouched DEF AdvanceFormulation, Inv, Tokens, Advances
<1>2. CASE ExtendDeadline
  <2>1. stage = "published"
    BY <1>2, CallIsPublished DEF ExtendDeadline
  <2>2. QED
    BY <1>2, <2>1, Untouched DEF ExtendDeadline, Inv, Tokens, Advances
<1>3. CASE ChangePublicationState
  <2>1. stage = "published"
    BY <1>3, CallIsPublished DEF ChangePublicationState, PublicationMoves
  <2>2. QED
    BY <1>3, <2>1, Untouched DEF ChangePublicationState, Inv, Tokens, Advances
<1>4. QED
  BY <1>1, <1>2, <1>3 DEF Keeps

LEMMA EveryCommandAdvances ==
  ASSUME Inv, Next
  PROVE  Advances \/ RecordApproval \/ Tick
  BY CreateAdvances, PatchAdvances, TriageAdvances, ApprovalsAdvances, OwnerAdvances,
     ClearedAdvances, KeepsAdvances DEF Next, Keeps

-----------------------------------------------------------------------------
(***************************************************************************)
(* What advancing keeps, whatever the command.                             *)
(***************************************************************************)

LEMMA AdvancedTokens ==
  ASSUME Inv, Advances
  PROVE  /\ Tokens' /\ lockVersion' \in 0..MaxVersion
         /\ DOMAIN versions' = 1..Len(versions') /\ Len(versions') \in Nat
         /\ Len(versions) \in Nat /\ 1..Len(versions) \subseteq 1..Len(versions')
         /\ receipts' \in Seq(DOMAIN versions')
         /\ DOMAIN receipts \subseteq DOMAIN receipts'
         /\ \A k \in DOMAIN receipts : receipts'[k] = receipts[k]
<1>1. /\ Len(versions) \in Nat /\ Len(receipts) \in Nat /\ DOMAIN receipts = 1..Len(receipts)
      /\ receipts \in Seq(1..Len(versions)) /\ lockVersion \in Nat /\ MaxVersion \in Nat
  BY VersionType, ChallengeAssumption DEF Inv, TypeOK
<1>2. /\ versions' \in Seq(Version) /\ Len(versions') >= 1
      /\ Len(versions') \in {Len(versions), Len(versions) + 1}
  BY DEF Advances, Grows
<1>3. DOMAIN versions' = 1..Len(versions') /\ Len(versions') \in Nat
  BY <1>2, LenProperties
<1>4. 1..Len(versions) \subseteq 1..Len(versions') /\ Len(versions') \in 1..Len(versions')
  <2> DEFINE m == Len(versions)  n == Len(versions')
  <2>1. m \in Nat /\ n \in Nat
    BY <1>1, <1>3
  <2>4. n \in {m, m + 1} /\ n >= 1
    BY DEF Advances, Grows
  <2> HIDE DEF m, n
  <2>2. 1..m \subseteq 1..n /\ n \in 1..n
    BY <2>1, <2>4
  <2>3. QED
    BY <2>2 DEF m, n
<1>9. receipts \in Seq(1..Len(versions'))
  BY <1>1, <1>4, WiderSeq
<1>5. /\ receipts' \in Seq(1..Len(versions')) /\ DOMAIN receipts' = 1..(Len(receipts) + 1)
      /\ Len(receipts') = Len(receipts) + 1 /\ receipts'[Len(receipts) + 1] = Len(versions')
      /\ \A k \in 1..Len(receipts) : receipts'[k] = receipts[k]
  BY <1>4, <1>9, OneMore DEF Advances, Accept
<1>6. lockVersion' = lockVersion + 1 /\ lockVersion' <= MaxVersion /\ stage' # "none"
  BY DEF Advances, Accept
<1>7. Tokens'
  BY <1>1, <1>2, <1>5, <1>6 DEF Inv, Tokens
<1>8. QED
  BY <1>1, <1>3, <1>4, <1>5, <1>6, <1>7

LEMMA AdvancedEvidence ==
  ASSUME Inv, Advances
  PROVE  DecidedOnce' /\ ApprovedWhatWasRead' /\ \A a \in approvals' : Submitted(a.version)'
<1>1. approvals' = approvals /\ Grows
  BY DEF Advances
<1>2. \A a \in approvals : a.version \in 1..Len(versions)
  BY VersionType DEF Inv, DecidedOnce
<1>3. DecidedOnce'
  BY <1>1, <1>2, AdvancedTokens DEF Inv, DecidedOnce
<1>4. ApprovedWhatWasRead'
  BY <1>1, AdvancedTokens DEF Inv, ApprovedWhatWasRead
<1>5. \A a \in approvals : Submitted(a.version)'
  BY <1>1, <1>2, SubmittedStays DEF Inv, GatesDecideOnSubmitted
<1>6. QED
  BY <1>1, <1>3, <1>4, <1>5

LEMMA AdvancedType ==
  ASSUME Inv, Advances,
         published' \in {Unpublished} \cup
           [version : DOMAIN versions', owner : BOOLEAN, state : PublicationStates, deadline : Deadlines],
         projection' \in {NoProjection} \cup
           [version : DOMAIN versions', state : PublicationStates, deadline : Deadlines]
  PROVE  TypeOK'
<1>1. versions' \in Seq(Version) /\ now' \in Times /\ approvals' \subseteq Approval
  BY DEF Inv, TypeOK, Advances, Grows
<1>2. stage' \in {"none", "draft", "triage", "formulation", "approvals", "published"}
  BY DEF Advances
<1>3. QED
  BY <1>1, <1>2, AdvancedTokens DEF TypeOK

\* Versions before the publication: nothing is published, and nothing changes about it.
LEMMA AdvancedUnpublished ==
  ASSUME Inv, Advances, stage # "published", UNCHANGED call,
         stage' = "approvals" => Submitted(current)'
  PROVE  Inv'
<1>1. published.version = 0
  BY DEF Inv, PublishedIsAccountable
<1>2. published = Unpublished /\ projection = NoProjection
  BY <1>1, VersionType DEF Inv, TypeOK, CatalogueIsCurrent
<1>3. published' = Unpublished /\ projection' = NoProjection
  BY <1>2 DEF call
<1>4. TypeOK'
  BY <1>3, AdvancedType
<1>5. GatesDecideOnSubmitted'
  BY AdvancedEvidence DEF GatesDecideOnSubmitted
<1>6. PublishedIsAccountable' /\ CatalogueIsCurrent'
  BY <1>3 DEF PublishedIsAccountable, CatalogueIsCurrent, Unpublished
<1>7. QED
  BY <1>4, <1>5, <1>6, AdvancedTokens, AdvancedEvidence DEF Inv

-----------------------------------------------------------------------------
(***************************************************************************)
(* Publication.                                                            *)
(***************************************************************************)

\* Each gate was decided once, so four that approved are four people, and nobody rejected.
LEMMA FourApproved ==
  ASSUME Inv, Cleared
  PROVE  /\ Decisions(current, "rejected") = {}
         /\ Cardinality({a.by : a \in Decisions(current, "approved")}) = Cardinality(Gates)
<1> DEFINE D == Decisions(current, "approved")
           People == {a.by : a \in D}
<1>1. /\ \A a \in approvals : a.gate \in Gates
      /\ \A a, b \in approvals :
           a.version = current /\ b.version = current /\ (a.gate = b.gate \/ a.by = b.by) => a = b
  BY DEF Inv, TypeOK, Approval, DecidedOnce
<1>2. \A g \in Gates : \E a \in D : a.gate = g
  BY DEF Cleared
<1>3. Decisions(current, "rejected") = {}
  <2>1. SUFFICES ASSUME NEW a \in Decisions(current, "rejected") PROVE FALSE
    OBVIOUS
  <2>2. a \in approvals /\ a.version = current /\ a.decision = "rejected" /\ a.gate \in Gates
    BY <1>1 DEF Decisions
  <2>3. PICK b \in D : b.gate = a.gate
    BY <1>2, <2>2
  <2>4. b \in approvals /\ b.version = current /\ b.decision = "approved"
    BY DEF Decisions
  <2>5. QED
    BY <1>1, <2>2, <2>3, <2>4
<1>4. ExistsBijection(Gates, People)
  <2> DEFINE decided == [g \in Gates |-> CHOOSE a \in D : a.gate = g]
             f == [g \in Gates |-> decided[g].by]
  <2>1. \A g \in Gates : decided[g] \in D /\ decided[g].gate = g
    BY <1>2
  <2>2. \A a, b \in D : a.gate = b.gate \/ a.by = b.by => a = b
    BY <1>1 DEF Decisions
  <2>3. \A a \in D : a.gate \in Gates /\ decided[a.gate] = a
    BY <1>1, <2>1, <2>2 DEF Decisions
  <2> HIDE DEF decided, D
  <2>4. f \in [Gates -> People]
    BY <2>1
  <2>5. \A g, h \in Gates : f[g] = f[h] => g = h
    BY <2>1, <2>2
  <2>6. \A p \in People : \E g \in Gates : f[g] = p
    BY <2>3
  <2> HIDE DEF f, People
  <2>7. f \in Bijection(Gates, People)
    BY <2>4, <2>5, <2>6 DEF Bijection, Injection, Surjection, IsInjective
  <2>8. QED
    BY <2>7 DEF ExistsBijection
<1>5. IsFiniteSet(Gates)
  <2>1. IsFiniteSet({"technical"})
    BY FS_Singleton
  <2>2. IsFiniteSet({"technical"} \cup {"legal"})
    BY <2>1, FS_AddElement
  <2>3. IsFiniteSet({"technical"} \cup {"legal"} \cup {"finance"})
    BY <2>2, FS_AddElement
  <2>4. IsFiniteSet({"technical"} \cup {"legal"} \cup {"finance"} \cup {"quality"})
    BY <2>3, FS_AddElement
  <2>5. Gates = {"technical"} \cup {"legal"} \cup {"finance"} \cup {"quality"}
    BY DEF Gates
  <2>6. QED
    BY <2>4, <2>5
<1>6. QED
  BY <1>3, <1>4, <1>5, FS_Bijection

LEMMA Released ==
  ASSUME Inv, Advances, Len(versions') = Len(versions), Submitted(current)', Len(versions) >= 1,
         NEW byOwner \in BOOLEAN, Release(byOwner), byOwner \/ Cleared
  PROVE  Inv'
<1>1. /\ current \in 1..Len(versions') /\ current' = current /\ current >= 1 /\ current \in Nat
      /\ DOMAIN versions' = 1..Len(versions')
      /\ versions[current] \in Version
      /\ versions'[current].content = versions[current].content
  BY VersionType, AdvancedTokens DEF Inv, current, Advances, Grows, Kept
<1>2. versions[current].content.deadline \in Deadlines
  BY <1>1, ChallengeAssumption DEF Version, Content
<1>3. /\ published' = [version |-> current, owner |-> byOwner, state |-> "open",
                       deadline |-> versions[current].content.deadline]
      /\ projection' = IF versions[current].content.listed
                       THEN [version |-> current, state |-> "open",
                             deadline |-> versions[current].content.deadline]
                       ELSE NoProjection
      /\ stage' = "published"
  BY DEF Release, content
<1>4. TypeOK'
  BY <1>1, <1>2, <1>3, AdvancedType DEF PublicationStates
<1>5. GatesDecideOnSubmitted'
  BY <1>3, AdvancedEvidence DEF GatesDecideOnSubmitted
<1>6. PublishedIsAccountable'
  <2>1. approvals' = approvals
    BY DEF Advances
  <2>2. CASE byOwner
    BY <1>1, <1>3, <2>2 DEF PublishedIsAccountable
  <2>3. CASE Cleared
    BY <1>1, <1>3, <2>1, <2>3, FourApproved DEF PublishedIsAccountable, Cleared, Decisions
  <2>4. QED
    BY <2>2, <2>3
<1>7. CatalogueIsCurrent'
  BY <1>1, <1>3 DEF CatalogueIsCurrent
<1>8. QED
  BY <1>4, <1>5, <1>6, <1>7, AdvancedTokens, AdvancedEvidence DEF Inv

\* A live call changes its state or its deadline, and the catalogue follows.
LEMMA Adjusted ==
  ASSUME Inv, Advances, UNCHANGED <<stage, versions>>, published.state \in {"open", "paused"},
         published' \in [version : {published.version}, owner : {published.owner},
                         state : PublicationStates, deadline : Deadlines],
         Mirror(published')
  PROVE  Inv'
<1> DEFINE newState == published'.state
           newDeadline == published'.deadline
<1>1. /\ stage = "published" /\ published.version \in 1..Len(versions)
      /\ published \in [version : DOMAIN versions, owner : BOOLEAN, state : PublicationStates,
                        deadline : Deadlines]
  BY CallIsPublished
<1>2. /\ published' \in [version : DOMAIN versions, owner : BOOLEAN, state : PublicationStates,
                          deadline : Deadlines]
      /\ published'.version = published.version /\ published'.owner = published.owner
      /\ newState \in PublicationStates /\ newDeadline \in Deadlines
  BY <1>1
<1> HIDE DEF newState, newDeadline
<1>3. /\ approvals' = approvals /\ current' = current
      /\ \A v : Submitted(v)' = Submitted(v)
  BY DEF Advances, current, Submitted
<1>4. projection' = IF versions[published.version].content.listed
                    THEN [version |-> published.version, state |-> newState, deadline |-> newDeadline]
                    ELSE NoProjection
  <2>1. published.version # 0 /\ published.version >= 1
    BY <1>1, VersionType DEF Inv
  <2>2. CASE versions[published.version].content.listed
    <3>1. projection = [version |-> published.version, state |-> published.state,
                        deadline |-> published.deadline]
      BY <2>1, <2>2 DEF Inv, CatalogueIsCurrent
    <3>2. projection # NoProjection
      BY <2>1, <3>1 DEF NoProjection
    <3> DEFINE Rows == [version : DOMAIN versions, state : PublicationStates, deadline : Deadlines]
    <3>3. projection \in Rows /\ projection.version = published.version
      BY <1>1, <3>1
    <3>4. projection' = [projection EXCEPT !.state = newState, !.deadline = newDeadline]
      BY <3>2 DEF Mirror, newState, newDeadline
    <3>5. projection' \in Rows /\ projection'.version = published.version
          /\ projection'.state = newState /\ projection'.deadline = newDeadline
      BY <1>2, <3>3, <3>4
    <3>6. projection' = [version |-> published.version, state |-> newState, deadline |-> newDeadline]
      BY <3>5
    <3>7. QED
      BY <2>2, <3>6
  <2>3. CASE ~versions[published.version].content.listed
    BY <2>3 DEF Inv, CatalogueIsCurrent, Mirror
  <2>4. QED
    BY <2>2, <2>3
<1>5. projection' \in {NoProjection} \cup
           [version : DOMAIN versions', state : PublicationStates, deadline : Deadlines]
  BY <1>1, <1>2, <1>4, VersionType DEF Inv
<1>6. TypeOK'
  BY <1>2, <1>5, AdvancedType
<1>7. GatesDecideOnSubmitted'
  BY <1>1, AdvancedEvidence DEF GatesDecideOnSubmitted
<1>8. PublishedIsAccountable'
  BY <1>1, <1>2, <1>3 DEF Inv, PublishedIsAccountable, Decisions
<1>9. CatalogueIsCurrent'
  <2>1. published.version # 0
    BY <1>1, VersionType DEF Inv
  <2>2. QED
    BY <1>2, <1>4, <2>1 DEF CatalogueIsCurrent, newState, newDeadline
<1>10. QED
  BY <1>6, <1>7, <1>8, <1>9, AdvancedTokens, AdvancedEvidence DEF Inv

-----------------------------------------------------------------------------
(***************************************************************************)
(* The invariant is inductive.                                             *)
(***************************************************************************)

LEMMA InitInv == Init => Inv
<1> SUFFICES ASSUME Init PROVE Inv
  OBVIOUS
<1>1. /\ versions = <<>> /\ receipts = <<>> /\ lockVersion = 0 /\ stage = "none" /\ now = 0
      /\ approvals = {} /\ published = Unpublished /\ projection = NoProjection
  BY DEF Init
<1>2. /\ versions \in Seq(Version) /\ receipts \in Seq(DOMAIN versions)
      /\ Len(versions) = 0 /\ Len(receipts) = 0
  BY <1>1, EmptySeq
<1>3. TypeOK
  BY <1>1, <1>2, ChallengeAssumption DEF TypeOK, Times
<1>4. Tokens
  BY <1>1, <1>2 DEF Tokens
<1>5. DecidedOnce /\ ApprovedWhatWasRead /\ GatesDecideOnSubmitted
  BY <1>1 DEF DecidedOnce, ApprovedWhatWasRead, GatesDecideOnSubmitted
<1>6. PublishedIsAccountable /\ CatalogueIsCurrent
  BY <1>1 DEF PublishedIsAccountable, CatalogueIsCurrent, Unpublished
<1>7. QED
  BY <1>3, <1>4, <1>5, <1>6 DEF Inv

\* Only the approvals changed, or only the clock.
LEMMA DecisionInv == ASSUME Inv, RecordApproval PROVE Inv'
<1>1. PICK gate \in Gates, user \in Users, decision \in {"approved", "rejected"}, expected \in Expected :
        /\ Fresh(expected) /\ Undecided(gate, user)
        /\ approvals' = approvals \cup {[version |-> current, gate |-> gate,
             decision |-> decision, by |-> user, read |-> expected]}
  BY DEF RecordApproval
<1> DEFINE new == [version |-> current, gate |-> gate, decision |-> decision, by |-> user,
                   read |-> expected]
<1>2. /\ UNCHANGED <<now, stage, lockVersion, receipts, versions, published, projection>>
      /\ stage = "approvals"
  BY DEF RecordApproval, record, call
<1>3. /\ current \in 1..Len(versions) /\ current \in Nat /\ expected = lockVersion
      /\ lockVersion \in 1..Len(receipts) /\ receipts[lockVersion] = current
      /\ DOMAIN versions = 1..Len(versions) /\ DOMAIN receipts = 1..Len(receipts)
  BY <1>1, <1>2, VersionType DEF Inv, Tokens, current, Fresh, TypeOK
<1>4. /\ new.version = current /\ new.gate = gate /\ new.by = user /\ new.read = lockVersion
      /\ new \in Approval
  BY <1>1, <1>3 DEF Approval, Expected
<1> HIDE DEF new
<1>5. approvals' = approvals \cup {new}
  BY <1>1 DEF new
<1>6. TypeOK'
  BY <1>2, <1>4, <1>5 DEF Inv, TypeOK
<1>7. Tokens' /\ CatalogueIsCurrent'
  BY <1>2 DEF Inv, Tokens, CatalogueIsCurrent
<1>8. DecidedOnce'
  BY <1>1, <1>2, <1>3, <1>4, <1>5 DEF Inv, DecidedOnce, Undecided
<1>9. ApprovedWhatWasRead'
  BY <1>2, <1>3, <1>4, <1>5 DEF Inv, ApprovedWhatWasRead
<1>10. GatesDecideOnSubmitted'
  BY <1>2, <1>4, <1>5 DEF Inv, GatesDecideOnSubmitted, Submitted, current
<1>11. PublishedIsAccountable'
  BY <1>2 DEF Inv, PublishedIsAccountable
<1>12. QED
  BY <1>6, <1>7, <1>8, <1>9, <1>10, <1>11 DEF Inv

LEMMA SameInv ==
  ASSUME Inv, UNCHANGED <<record, versions, approvals, call>>, now' \in Times
  PROVE  Inv'
<1>1. UNCHANGED <<stage, lockVersion, receipts, versions, approvals, published, projection>>
  BY DEF record, call
<1>2. TypeOK' /\ Tokens' /\ DecidedOnce' /\ ApprovedWhatWasRead'
  BY <1>1 DEF Inv, TypeOK, Tokens, DecidedOnce, ApprovedWhatWasRead
<1>3. GatesDecideOnSubmitted' /\ PublishedIsAccountable' /\ CatalogueIsCurrent'
  BY <1>1 DEF Inv, GatesDecideOnSubmitted, PublishedIsAccountable, CatalogueIsCurrent, Submitted,
              Decisions, current
<1>4. QED
  BY <1>2, <1>3 DEF Inv

LEMMA NextInv == ASSUME Inv, Next PROVE Inv'
<1>1. CASE Create
  BY <1>1, CreateAdvances, AdvancedUnpublished DEF Create
<1>2. CASE Patch
  <2>1. stage # "published" /\ stage' # "approvals"
    BY <1>2 DEF Patch, Editable
  <2>2. QED
    BY <1>2, <2>1, PatchAdvances, AdvancedUnpublished DEF Patch
<1>3. CASE RequestTriage
  BY <1>3, TriageAdvances, AdvancedUnpublished DEF RequestTriage
<1>4. CASE AdvanceFormulation
  BY <1>4, KeepsAdvances, AdvancedUnpublished DEF AdvanceFormulation, Keeps
<1>5. CASE RequestApprovals
  BY <1>5, ApprovalsAdvances, AdvancedUnpublished DEF RequestApprovals
<1>6. CASE RecordApproval
  BY <1>6, DecisionInv
<1>7. CASE PublishAsOwner
  <2>1. Len(versions) >= 1 /\ Release(TRUE)
    BY <1>7 DEF PublishAsOwner, Inv, Tokens
  <2>2. QED
    BY <1>7, <2>1, OwnerAdvances, Released
<1>8. CASE PublishCleared
  <2>1. Len(versions) >= 1 /\ Release(FALSE) /\ Cleared
    BY <1>8 DEF PublishCleared, Inv, Tokens
  <2>2. QED
    BY <1>8, <2>1, ClearedAdvances, Released
<1>9. CASE ExtendDeadline
  <2>1. PICK deadline \in Deadlines : published' = [published EXCEPT !.deadline = deadline]
    BY <1>9 DEF ExtendDeadline
  <2>2. published.state = "open" /\ "open" \in PublicationStates
    BY <1>9 DEF ExtendDeadline, PublicationStates
  <2>3. published' \in [version : {published.version}, owner : {published.owner},
                        state : PublicationStates, deadline : Deadlines]
    BY <2>1, <2>2, CallIsPublished
  <2>4. Advances
    BY <1>9, KeepsAdvances DEF Keeps
  <2>5. UNCHANGED <<stage, versions>> /\ Mirror(published')
    BY <1>9 DEF ExtendDeadline
  <2>6. QED
    BY <2>2, <2>3, <2>4, <2>5, Adjusted
<1>10. CASE ChangePublicationState
  <2>1. PICK to \in PublicationStates : /\ <<published.state, to>> \in PublicationMoves
                                        /\ published' = [published EXCEPT !.state = to]
    BY <1>10 DEF ChangePublicationState
  <2>2. published.state \in {"open", "paused"}
    BY <2>1 DEF PublicationMoves
  <2>3. published' \in [version : {published.version}, owner : {published.owner},
                        state : PublicationStates, deadline : Deadlines]
    BY <2>1, <2>2, CallIsPublished
  <2>4. Advances
    BY <1>10, KeepsAdvances DEF Keeps
  <2>5. UNCHANGED <<stage, versions>> /\ Mirror(published')
    BY <1>10 DEF ChangePublicationState
  <2>6. QED
    BY <2>2, <2>3, <2>4, <2>5, Adjusted
<1>11. CASE Tick
  BY <1>11, SameInv DEF Tick
<1>12. QED
  BY <1>1, <1>2, <1>3, <1>4, <1>5, <1>6, <1>7, <1>8, <1>9, <1>10, <1>11 DEF Next

\* The inductive invariant holds of every state of the specification.
THEOREM Invariance == Spec => []Inv
<1>1. Inv /\ [Next]_vars => Inv'
  BY NextInv, SameInv DEF vars, Inv, TypeOK
<1>2. QED
  BY InitInv, <1>1, PTL DEF Spec

\* Every variable has its type.
THEOREM TypeCorrect == Spec => []TypeOK
<1>1. Inv => TypeOK
  BY DEF Inv
<1>2. QED
  BY <1>1, Invariance, PTL

\* A decision is about the version its approver had read (recordApproval).
THEOREM GatesReadWhatTheyDecide == Spec => []ApprovedWhatWasRead
<1>1. Inv => ApprovedWhatWasRead
  BY DEF Inv
<1>2. QED
  BY <1>1, Invariance, PTL

\* Gates decide on complete, locked versions that carry their rule.
THEOREM OnlySubmittedIsDecided == Spec => []GatesDecideOnSubmitted
<1>1. Inv => GatesDecideOnSubmitted
  BY DEF Inv
<1>2. QED
  BY <1>1, Invariance, PTL

\* What is published is the current version, by the owner or by four people who approved it.
THEOREM PublicationIsAnsweredFor == Spec => []PublishedIsAccountable
<1>1. Inv => PublishedIsAccountable
  BY DEF Inv
<1>2. QED
  BY <1>1, Invariance, PTL

\* The public catalogue shows the terms, the state and the deadline of the call.
THEOREM CatalogueFollows == Spec => []CatalogueIsCurrent
<1>1. Inv => CatalogueIsCurrent
  BY DEF Inv
<1>2. QED
  BY <1>1, Invariance, PTL

-----------------------------------------------------------------------------
(***************************************************************************)
(* What a step may never do.                                               *)
(***************************************************************************)

LEMMA StepKeepsEvidence ==
  ASSUME Inv, Next
  PROVE  /\ approvals \subseteq approvals'
         /\ \A v \in DOMAIN versions : Kept(versions[v], versions'[v])
<1>1. CASE Advances
  BY <1>1, VersionType DEF Inv, Advances, Grows
<1>2. CASE RecordApproval
  BY <1>2 DEF RecordApproval, Kept
<1>3. CASE Tick
  BY <1>3 DEF Tick, Kept
<1>4. QED
  BY <1>1, <1>2, <1>3, EveryCommandAdvances

\* A version that was submitted keeps its content and the reason it was locked for, a decision
\* stays recorded.
THEOREM EvidenceStays == Spec => EvidenceIsKept
<1> DEFINE Keeping ==
      /\ approvals \subseteq approvals'
      /\ \A v \in DOMAIN versions :
           /\ versions'[v].content = versions[v].content
           /\ versions[v].snapshot => versions'[v].snapshot
           /\ versions[v].lock # "unlocked" => versions'[v].lock = versions[v].lock
<1>1. Inv /\ [Next]_vars => [Keeping]_vars
  BY StepKeepsEvidence DEF Kept
<1>2. QED
  BY <1>1, Invariance, PTL DEF Spec, EvidenceIsKept

-----------------------------------------------------------------------------
(***************************************************************************)
(* A challenge implements the promise of its call.                         *)
(***************************************************************************)

\* The call as solvers see it.
Seen == <<published.version, published.state, published.deadline>>

Promised == Promise!Publish \/ Promise!Extend \/ Promise!Move

LEMMA ReleasePublishes ==
  ASSUME Inv, Advances, Len(versions) >= 1, NEW byOwner \in BOOLEAN, Release(byOwner)
  PROVE  Promise!Publish
<1>1. /\ published' = [version |-> current, owner |-> byOwner, state |-> "open",
                       deadline |-> versions[current].content.deadline]
      /\ published.version = 0
  BY DEF Release, content
<1>2. published.state = "hidden"
  BY <1>1, VersionType DEF Inv, TypeOK, Unpublished
<1>3. current \in 1..MaxVersion
  BY VersionType, ChallengeAssumption DEF Inv, TypeOK, Tokens, current
<1>4. versions[current].content.deadline \in Deadlines
  BY VersionType, ChallengeAssumption DEF Inv, current, Version, Content
<1>5. QED
  BY <1>1, <1>2, <1>3, <1>4 DEF Promise!Publish

LEMMA StepIsPromised ==
  ASSUME Inv, Next
  PROVE  Promised \/ UNCHANGED Seen
<1>1. CASE PublishAsOwner
  BY <1>1, OwnerAdvances, ReleasePublishes DEF PublishAsOwner, Promised, Inv, Tokens
<1>2. CASE PublishCleared
  BY <1>2, ClearedAdvances, ReleasePublishes DEF PublishCleared, Promised, Inv, Tokens
<1>3. CASE ExtendDeadline
  <2>1. PICK deadline \in Deadlines : /\ deadline > published.deadline
                                      /\ published' = [published EXCEPT !.deadline = deadline]
    BY <1>3 DEF ExtendDeadline
  <2>2. published.state = "open"
    BY <1>3 DEF ExtendDeadline
  <2>3. published'.version = published.version /\ published'.state = published.state
        /\ published'.deadline = deadline
    BY <2>1, <2>2, CallIsPublished
  <2>4. QED
    BY <2>1, <2>2, <2>3 DEF Promise!Extend, Promised
<1>4. CASE ChangePublicationState
  <2>1. PICK to \in PublicationStates : /\ <<published.state, to>> \in PublicationMoves
                                        /\ published' = [published EXCEPT !.state = to]
    BY <1>4 DEF ChangePublicationState
  <2>2. published.state \in {"open", "paused"} /\ to # published.state
    BY <2>1 DEF PublicationMoves
  <2>3. published'.version = published.version /\ published'.state = to
        /\ published'.deadline = published.deadline
    BY <2>1, <2>2, CallIsPublished
  <2>4. QED
    BY <2>2, <2>3 DEF Promise!Move, Promise!Live, Promised, PublicationStates
<1>5. CASE UNCHANGED published
  BY <1>5 DEF Seen
<1>6. QED
  BY <1>1, <1>2, <1>3, <1>4, <1>5 DEF Next, Create, Patch, RequestTriage, AdvanceFormulation,
     RequestApprovals, RecordApproval, Tick, call

\* To solvers the terms are those of one version, the deadline never comes nearer, and a call that
\* was closed or cancelled stays so.
THEOREM CallKeepsItsPromise == Spec => KeepsThePromise
<1>1. Init => Promise!Hidden
  BY DEF Init, Promise!Hidden, Unpublished
<1>2. Inv /\ [Next]_vars => [Promised]_Seen
  BY StepIsPromised DEF vars, call, Seen
<1>3. QED
  BY <1>1, <1>2, Invariance, PTL DEF Spec, KeepsThePromise, Promise!CallSpec, Promise!call, Promised, Seen

=============================================================================
