----------------------------- MODULE TeamProofs -----------------------------
(***************************************************************************)
(* Proofs about Team for any number of people, invitations, requests and   *)
(* instants.  The bounds are only used as natural numbers.                 *)
(***************************************************************************)
EXTENDS Team, SequenceTheorems, TLAPS

\* Only the owner of the workspace row has the owner's role, and is active.
RowOwner ==
  /\ \A u \in Users : member[u].role = "owner" => u = team.owner
  /\ team.status # "none" =>
       /\ team.owner \in Users
       /\ member[team.owner].role = "owner"
       /\ member[team.owner].state = "active"

\* Before there is a team nobody is in it.
NobodyBefore ==
  team.status = "none" => \A u \in Users : member[u].state = "none" /\ member[u].role # "owner"

IInv ==
  /\ TypeOK
  /\ RowOwner
  /\ NobodyBefore
  /\ OnePending
  /\ MembershipsAreConsented

-----------------------------------------------------------------------------
(***************************************************************************)
(* What a step may do to the asks: nothing, turn one of them down, accept  *)
(* one of them, or mark some as expired and add a new one.                 *)
(***************************************************************************)

TurnsDown(i) ==
  /\ team.status = "active"
  /\ Open(i)
  /\ \E state \in {"refused", "withdrawn"} : asks' = [asks EXCEPT ![i].state = state]
  /\ UNCHANGED <<now, team, member, joined>>

Accepts(i) ==
  /\ team.status = "active"
  /\ Open(i)
  /\ asks' = [asks EXCEPT ![i].state = "accepted"]
  /\ MayJoin(asks[i].user)
  /\ \E role \in GivenRoles :
       member' = [member EXCEPT ![asks[i].user] = [state |-> "active", role |-> role]]
  /\ joined' = Append(joined, i)
  /\ UNCHANGED <<now, team>>

\* The asks w are those of before, some of them expired.
SomeExpired(w) ==
  /\ w \in Seq(Ask)
  /\ Len(w) = Len(asks)
  /\ \A i \in DOMAIN asks :
       \/ w[i] = asks[i]
       \/ Pending(asks[i]) /\ w[i] = [asks[i] EXCEPT !.state = "expired"]

Adds(w, new) ==
  /\ Len(asks) < MaxAsks
  /\ SomeExpired(w)
  /\ new \in Ask
  /\ Pending(new)
  /\ \A i \in DOMAIN w : Between(new.kind, new.user, w[i]) => ~ Pending(w[i])
  /\ asks' = Append(w, new)
  /\ UNCHANGED <<now, team, member, joined>>

AddsOne == \E w \in Seq(Ask), new \in Ask : Adds(w, new)

\* Expiring is a change of state, whichever asks it is applied to.
LEMMA SweptIsAsks ==
  ASSUME TypeOK, NEW mine
  PROVE  SomeExpired(Swept(mine))
<1>0. asks \in Seq(Ask)
  BY DEF TypeOK
<1>1. ASSUME NEW i \in DOMAIN asks
      PROVE  Swept(mine)[i] \in Ask
  <2>1. asks[i] \in Ask
    BY <1>0, <1>1
  <2>2. [asks[i] EXCEPT !.state = "expired"] \in Ask
    BY <2>1 DEF Ask
  <2> QED
    BY <1>1, <2>1, <2>2 DEF Swept
<1>2. DOMAIN asks = 1..Len(asks)
  BY <1>0
<1>3. DOMAIN Swept(mine) = 1..Len(asks)
  BY <1>2 DEF Swept
<1>4. Swept(mine) \in [1..Len(asks) -> Ask]
  <2>1. Swept(mine) = [i \in 1..Len(asks) |-> Swept(mine)[i]]
    BY <1>2 DEF Swept
  <2> QED
    BY <1>1, <1>2, <2>1
<1>5. Swept(mine) \in Seq(Ask) /\ Len(Swept(mine)) = Len(asks)
  BY <1>0, <1>4, IsASeq, LenProperties
<1> QED
  BY <1>5 DEF SomeExpired, Swept, Overdue

\* A new ask is added to asks some of which expired, and concerns no pending one.
LEMMA NewAskAdds ==
  ASSUME TypeOK, NEW kind \in {"invitation", "request"}, NEW u \in Users,
         NEW role \in GivenRoles, NEW life \in Nat, NEW mine,
         NewAsk(kind, u, role, life, mine)
  PROVE  AddsOne
<1> DEFINE new == [kind |-> kind, user |-> u, role |-> role, expires |-> now + life,
                   state |-> "pending"]
<1> DEFINE w == Swept(mine)
<1>1. new \in Ask
  <2>1. now + life \in Nat
    BY TeamAssumption DEF TypeOK
  <2> QED
    BY <2>1 DEF Ask
<1>2. SomeExpired(w)
  BY SweptIsAsks
<1>3. DOMAIN w = DOMAIN asks
  BY DEF Swept
<1>4. w \in Seq(Ask)
  BY <1>2 DEF SomeExpired
<1>5. /\ Len(asks) < MaxAsks
      /\ \A i \in DOMAIN asks : Between(kind, u, w[i]) => ~ Pending(w[i])
      /\ asks' = Append(w, new)
      /\ UNCHANGED <<now, team, member, joined>>
  BY DEF NewAsk
<1>6. new.kind = kind /\ new.user = u /\ Pending(new)
  BY DEF Pending
<1>7. Adds(w, new)
  <2> HIDE DEF w, new
  <2> QED
    BY <1>1, <1>2, <1>3, <1>5, <1>6 DEF Adds
<1> HIDE DEF w, new
<1> QED
  BY <1>1, <1>4, <1>7 DEF AddsOne

\* Steps about the roster leave the asks alone.
LEMMA RosterKeepsAsks ==
  ASSUME RosterStep
  PROVE  UNCHANGED <<now, asks, joined>>
BY DEF RosterStep, Create, SuspendMember, RestoreMember, RemoveMember, Leave, MoveMember,
       ChangeMemberRole, TransferOwnership

\* Every step about the asks is of one of the three kinds.
LEMMA AskStepKinds ==
  ASSUME TypeOK, AskStep
  PROVE  \/ \E i \in DOMAIN asks : TurnsDown(i) \/ Accepts(i)
         \/ AddsOne
<1>1. CASE \E u \in Users : RequestMembership(u)
  <2>1. PICK u \in Users : RequestMembership(u)
    BY <1>1
  <2> DEFINE own == {i \in DOMAIN asks : Between("request", u, asks[i])}
  <2>2. NewAsk("request", u, "member", RequestLife, own)
    BY <2>1 DEF RequestMembership
  <2>3. "member" \in GivenRoles /\ RequestLife \in Nat
    BY TeamAssumption DEF GivenRoles
  <2>4. AddsOne
    <3> HIDE DEF own
    <3> QED
      BY <2>2, <2>3, NewAskAdds
  <2> QED
    BY <2>4
<1>2. CASE \E u \in Users, role \in GivenRoles : Invite(u, role)
  <2>1. PICK u \in Users, role \in GivenRoles : Invite(u, role)
    BY <1>2
  <2> DEFINE invitations == {i \in DOMAIN asks : asks[i].kind = "invitation"}
  <2>2. NewAsk("invitation", u, role, InvitationLife, invitations)
    BY <2>1 DEF Invite
  <2>3. InvitationLife \in Nat
    BY TeamAssumption
  <2>4. AddsOne
    <3> HIDE DEF invitations
    <3> QED
      BY <2>2, <2>3, NewAskAdds
  <2> QED
    BY <2>4
<1>3. ASSUME NEW i \in DOMAIN asks,
             \/ DeclineInvitation(i) \/ RevokeInvitation(i)
             \/ RejectRequest(i) \/ WithdrawRequest(i)
      PROVE  TurnsDown(i)
  BY <1>3 DEF TurnsDown, DeclineInvitation, RevokeInvitation, RejectRequest, WithdrawRequest,
              Settle
<1>4. ASSUME NEW i \in DOMAIN asks, AcceptInvitation(i)
      PROVE  Accepts(i)
  <2>1. asks \in Seq(Ask)
    BY DEF TypeOK
  <2>2. asks[i] \in Ask
    BY <1>4, <2>1
  <2>3. asks[i].role \in GivenRoles
    BY <2>2 DEF Ask
  <2> QED
    BY <1>4, <2>3 DEF Accepts, AcceptInvitation, Settle, Join
<1>5. ASSUME NEW i \in DOMAIN asks, NEW role \in GivenRoles, AcceptRequest(i, role)
      PROVE  Accepts(i)
  BY <1>5 DEF Accepts, AcceptRequest, Settle, Join
<1> QED
  BY <1>1, <1>2, <1>3, <1>4, <1>5 DEF AskStep

\* What any step does to the asks.
LEMMA AskChanges ==
  ASSUME TypeOK, [Next]_vars
  PROVE  \/ UNCHANGED <<asks, joined>>
         \/ \E i \in DOMAIN asks : TurnsDown(i) \/ Accepts(i)
         \/ AddsOne
BY AskStepKinds, RosterKeepsAsks DEF Next, Tick, UpdatePolicy, Archive, vars

-----------------------------------------------------------------------------
(***************************************************************************)
(* Type correctness.                                                       *)
(***************************************************************************)

LEMMA AskTypes ==
  ASSUME TypeOK, \/ \E i \in DOMAIN asks : TurnsDown(i) \/ Accepts(i)
                 \/ AddsOne
  PROVE  /\ asks' \in Seq(Ask)
         /\ Len(asks') <= MaxAsks
         /\ joined' \in Seq(DOMAIN asks')
         /\ Len(asks) \in Nat /\ Len(asks) <= Len(asks')
<1>0. asks \in Seq(Ask) /\ Len(asks) \in Nat /\ Len(asks) <= MaxAsks
      /\ DOMAIN asks = 1..Len(asks) /\ MaxAsks \in Nat /\ joined \in Seq(DOMAIN asks)
  BY TeamAssumption DEF TypeOK
<1>1. ASSUME NEW i \in DOMAIN asks,
             NEW state \in {"refused", "withdrawn", "accepted"},
             asks' = [asks EXCEPT ![i].state = state]
      PROVE  asks' \in Seq(Ask) /\ Len(asks') = Len(asks) /\ DOMAIN asks' = DOMAIN asks
  <2>1. asks[i] \in Ask
    BY <1>0, <1>1
  <2>2. [asks[i] EXCEPT !.state = state] \in Ask
    BY <2>1, <1>1 DEF Ask
  <2>3. asks' = [asks EXCEPT ![i] = [asks[i] EXCEPT !.state = state]]
    BY <1>1
  <2> QED
    BY <1>0, <1>1, <2>2, <2>3
<1>2. ASSUME NEW i \in DOMAIN asks, TurnsDown(i)
      PROVE  /\ asks' \in Seq(Ask) /\ Len(asks') = Len(asks)
             /\ joined' \in Seq(DOMAIN asks')
  BY <1>0, <1>1, <1>2 DEF TurnsDown
<1>3. ASSUME NEW i \in DOMAIN asks, Accepts(i)
      PROVE  /\ asks' \in Seq(Ask) /\ Len(asks') = Len(asks)
             /\ joined' \in Seq(DOMAIN asks')
  <2>1. asks' \in Seq(Ask) /\ Len(asks') = Len(asks) /\ DOMAIN asks' = DOMAIN asks
    BY <1>1, <1>3 DEF Accepts
  <2>2. joined' = Append(joined, i)
    BY <1>3 DEF Accepts
  <2> QED
    BY <1>0, <2>1, <2>2
<1>4. ASSUME AddsOne
      PROVE  /\ asks' \in Seq(Ask) /\ Len(asks') = Len(asks) + 1 /\ Len(asks) < MaxAsks
             /\ joined' \in Seq(DOMAIN asks')
  <2>1. PICK w \in Seq(Ask), new \in Ask : Adds(w, new)
    BY <1>4 DEF AddsOne
  <2>2. asks' = Append(w, new) /\ Len(w) = Len(asks) /\ joined' = joined /\ Len(asks) < MaxAsks
    BY <2>1 DEF Adds, SomeExpired
  <2>3. asks' \in Seq(Ask) /\ Len(asks') = Len(asks) + 1
    BY <1>0, <2>2
  <2>4. DOMAIN asks \subseteq DOMAIN asks'
    BY <1>0, <2>3
  <2>5. joined \in Seq(DOMAIN asks')
    BY <1>0, <2>4
  <2> QED
    BY <2>2, <2>3, <2>5
<1> QED
  BY <1>0, <1>2, <1>3, <1>4

\* A row of the membership table stays one when its state or its role changes.
LEMMA RowChanges ==
  ASSUME member \in [Users -> Member], NEW u \in Users
  PROVE  /\ \A state \in {"active", "suspended", "removed"} :
              [member EXCEPT ![u].state = state] \in [Users -> Member]
         /\ \A role \in Roles : [member EXCEPT ![u].role = role] \in [Users -> Member]
         /\ \A role \in Roles : [member EXCEPT ![u] = [state |-> "active", role |-> role]]
                                \in [Users -> Member]
<1>1. member[u] \in Member
  OBVIOUS
<1>2. \A state \in {"active", "suspended", "removed"} :
        [member[u] EXCEPT !.state = state] \in Member
  BY <1>1 DEF Member
<1>3. \A role \in Roles : [member[u] EXCEPT !.role = role] \in Member
  BY <1>1 DEF Member
<1>4. \A role \in Roles : [state |-> "active", role |-> role] \in Member
  BY DEF Member
<1> QED
  BY <1>2, <1>3, <1>4

LEMMA RosterTypes ==
  ASSUME TypeOK, RosterStep
  PROVE  team' \in Team /\ member' \in [Users -> Member]
<1>0. team \in Team /\ member \in [Users -> Member]
  BY DEF TypeOK
<1>1. ASSUME NEW u \in Users, Create(u)
      PROVE  team' \in Team /\ member' \in [Users -> Member]
  BY <1>0, <1>1, RowChanges DEF Create, NoTeam, Team, Roles
<1>2. ASSUME NEW u \in Users,
             SuspendMember(u) \/ RestoreMember(u) \/ RemoveMember(u) \/ Leave(u)
      PROVE  team' \in Team /\ member' \in [Users -> Member]
  BY <1>0, <1>2, RowChanges DEF SuspendMember, RestoreMember, RemoveMember, Leave, MoveMember
<1>3. ASSUME NEW u \in Users, NEW role \in GivenRoles, ChangeMemberRole(u, role)
      PROVE  team' \in Team /\ member' \in [Users -> Member]
  BY <1>0, <1>3, RowChanges DEF ChangeMemberRole, Roles
<1>4. ASSUME NEW u \in Users, NEW successor \in Users, TransferOwnership(u, successor)
      PROVE  team' \in Team /\ member' \in [Users -> Member]
  <2>1. team' \in Team
    BY <1>0, <1>4 DEF TransferOwnership, Team
  <2>2. [member[u] EXCEPT !.role = "admin"] \in Member
    BY <1>0 DEF Member, Roles, GivenRoles
  <2>3. [member[successor] EXCEPT !.role = "owner"] \in Member
    BY <1>0 DEF Member, Roles
  <2>4. successor # u
    BY <1>4 DEF TransferOwnership, Owns
  <2>5. \A v \in Users :
          member'[v] = IF v = u THEN [member[u] EXCEPT !.role = "admin"]
                       ELSE IF v = successor THEN [member[successor] EXCEPT !.role = "owner"]
                       ELSE member[v]
    BY <1>0, <1>4, <2>4 DEF TransferOwnership
  <2>6. member' = [v \in Users |-> member'[v]]
    BY <1>0, <1>4 DEF TransferOwnership
  <2> QED
    BY <1>0, <2>1, <2>2, <2>3, <2>5, <2>6
<1> QED
  BY <1>1, <1>2, <1>3, <1>4 DEF RosterStep

LEMMA TypeStep ==
  ASSUME TypeOK, [Next]_vars
  PROVE  TypeOK'
<1>0. /\ now \in 0..MaxTime /\ team \in Team /\ member \in [Users -> Member]
      /\ asks \in Seq(Ask) /\ Len(asks) <= MaxAsks /\ joined \in Seq(DOMAIN asks)
  BY DEF TypeOK
<1>1. asks' \in Seq(Ask) /\ Len(asks') <= MaxAsks /\ joined' \in Seq(DOMAIN asks')
  BY <1>0, AskChanges, AskTypes
<1>2. CASE Tick
  BY <1>0, <1>1, <1>2, TeamAssumption DEF Tick, TypeOK
<1>3. CASE UpdatePolicy
  <2>1. team' \in Team
    BY <1>0, <1>3 DEF UpdatePolicy, Team
  <2> QED
    BY <1>0, <1>1, <1>3, <2>1 DEF UpdatePolicy, TypeOK
<1>4. CASE Archive
  <2>1. team' \in Team
    BY <1>0, <1>4 DEF Archive, Team
  <2> QED
    BY <1>0, <1>1, <1>4, <2>1 DEF Archive, TypeOK
<1>5. CASE RosterStep
  BY <1>0, <1>1, <1>5, RosterTypes, RosterKeepsAsks DEF TypeOK
<1>6. CASE AskStep
  <2>1. ASSUME NEW i \in DOMAIN asks, TurnsDown(i)
        PROVE  now' = now /\ team' = team /\ member' \in [Users -> Member]
    BY <1>0, <2>1 DEF TurnsDown
  <2>2. ASSUME NEW i \in DOMAIN asks, Accepts(i)
        PROVE  now' = now /\ team' = team /\ member' \in [Users -> Member]
    <3>1. asks[i] \in Ask
      BY <1>0, <2>2
    <3>2. asks[i].user \in Users
      BY <3>1 DEF Ask
    <3>3. PICK role \in GivenRoles :
            member' = [member EXCEPT ![asks[i].user] = [state |-> "active", role |-> role]]
      BY <2>2 DEF Accepts
    <3>4. role \in Roles
      BY DEF Roles
    <3>5. member' \in [Users -> Member]
      BY <1>0, <3>2, <3>3, <3>4, RowChanges
    <3> QED
      BY <2>2, <3>5 DEF Accepts
  <2>3. ASSUME AddsOne
        PROVE  now' = now /\ team' = team /\ member' \in [Users -> Member]
    BY <1>0, <2>3 DEF AddsOne, Adds
  <2>4. now' = now /\ team' = team /\ member' \in [Users -> Member]
    BY <1>6, <2>1, <2>2, <2>3, AskStepKinds
  <2> QED
    BY <1>0, <1>1, <2>4 DEF TypeOK
<1>7. CASE UNCHANGED vars
  BY <1>0, <1>7 DEF vars, TypeOK
<1> QED
  BY <1>2, <1>3, <1>4, <1>5, <1>6, <1>7 DEF Next

-----------------------------------------------------------------------------
(***************************************************************************)
(* The owner.                                                              *)
(***************************************************************************)

\* A step about the asks gives nobody the owner's role and touches no current member.
LEMMA JoiningKeepsOwner ==
  ASSUME IInv, AskStep
  PROVE  /\ team' = team
         /\ \A u \in Users : \/ member'[u] = member[u]
                             \/ /\ member'[u].role \in GivenRoles
                                /\ member'[u].state = "active"
                                /\ ~ Current(u)
                                /\ team.status = "active"
<1>0. asks \in Seq(Ask) /\ member \in [Users -> Member]
  BY DEF IInv, TypeOK
<1>1. ASSUME NEW i \in DOMAIN asks, Accepts(i)
      PROVE  /\ team' = team
             /\ \A u \in Users : \/ member'[u] = member[u]
                                 \/ /\ member'[u].role \in GivenRoles
                                    /\ member'[u].state = "active"
                                    /\ ~ Current(u)
                                    /\ team.status = "active"
  <2>1. asks[i] \in Ask
    BY <1>0, <1>1
  <2>2. asks[i].user \in Users
    BY <2>1 DEF Ask
  <2>3. PICK role \in GivenRoles :
          member' = [member EXCEPT ![asks[i].user] = [state |-> "active", role |-> role]]
    BY <1>1 DEF Accepts
  <2>4. ~ Current(asks[i].user) /\ team.status = "active" /\ team' = team
    BY <1>1 DEF Accepts, MayJoin
  <2> QED
    BY <1>0, <2>2, <2>3, <2>4
<1>2. ASSUME NEW i \in DOMAIN asks, TurnsDown(i)
      PROVE  team' = team /\ member' = member
  BY <1>2 DEF TurnsDown
<1>3. ASSUME AddsOne
      PROVE  team' = team /\ member' = member
  BY <1>3 DEF AddsOne, Adds
<1>4. TypeOK
  BY DEF IInv
<1> QED
  BY <1>1, <1>2, <1>3, <1>4, AskStepKinds

\* The owner keeps role and standing, or hands both over in one step.
LEMMA OwnerStep ==
  ASSUME IInv, [Next]_vars
  PROVE  RowOwner' /\ NobodyBefore'
<1>0. /\ member \in [Users -> Member]
      /\ team \in Team
      /\ \A u \in Users : member[u].role = "owner" => u = team.owner
      /\ team.status # "none" =>
           /\ team.owner \in Users
           /\ member[team.owner].role = "owner"
           /\ member[team.owner].state = "active"
      /\ team.status = "none" =>
           \A u \in Users : member[u].state = "none" /\ member[u].role # "owner"
  BY DEF IInv, TypeOK, RowOwner, NobodyBefore
<1>1. ASSUME team'.owner = team.owner, team'.status = team.status, member' = member
      PROVE  RowOwner' /\ NobodyBefore'
  BY <1>0, <1>1 DEF RowOwner, NobodyBefore
<1>2. CASE Tick \/ UNCHANGED vars
  BY <1>1, <1>2 DEF Tick, vars
<1>3. CASE UpdatePolicy
  BY <1>0, <1>1, <1>3 DEF UpdatePolicy, Team
<1>4. CASE Archive
  <2>1. team'.owner = team.owner /\ team'.status = "archived" /\ team.status = "active"
    BY <1>0, <1>4 DEF Archive, Team, Owns, Acts
  <2> QED
    BY <1>0, <1>4, <2>1 DEF Archive, RowOwner, NobodyBefore
<1>5. CASE AskStep
  BY <1>0, <1>5, JoiningKeepsOwner DEF RowOwner, NobodyBefore, Current, GivenRoles
<1>6. CASE RosterStep
  <2>1. ASSUME NEW u \in Users, Create(u)
        PROVE  RowOwner' /\ NobodyBefore'
    <3>1. \A v \in Users : member[v].role # "owner"
      BY <1>0, <2>1 DEF Create
    <3> QED
      BY <1>0, <2>1, <3>1 DEF Create, NoTeam, RowOwner, NobodyBefore
  <2>2. ASSUME NEW u \in Users, NEW from \in {"active", "suspended"}, NEW to,
               team.status = "active", member[u].role # "owner", MoveMember(u, from, to)
        PROVE  RowOwner' /\ NobodyBefore'
    BY <1>0, <2>2 DEF MoveMember, RowOwner, NobodyBefore
  <2>3. ASSUME NEW u \in Users,
               SuspendMember(u) \/ RemoveMember(u) \/ Leave(u)
        PROVE  RowOwner' /\ NobodyBefore'
    BY <2>2, <2>3 DEF SuspendMember, RemoveMember, Leave, Removable, AnotherManages, Manages, Acts
  <2>4. ASSUME NEW u \in Users, RestoreMember(u)
        PROVE  RowOwner' /\ NobodyBefore'
    <3>1. team.status = "active" /\ MoveMember(u, "suspended", "active")
      BY <2>4 DEF RestoreMember, SomeoneManages, Manages, Acts
    <3>2. member[u].role # "owner"
      BY <1>0, <3>1 DEF MoveMember
    <3> QED
      BY <2>2, <3>1, <3>2
  <2>5. ASSUME NEW u \in Users, NEW role \in GivenRoles, ChangeMemberRole(u, role)
        PROVE  RowOwner' /\ NobodyBefore'
    <3>1. team.status = "active"
      BY <2>5 DEF ChangeMemberRole, SomeoneManages, Manages, Acts
    <3>2. role # "owner"
      BY DEF GivenRoles
    <3> QED
      BY <1>0, <2>5, <3>1, <3>2 DEF ChangeMemberRole, RowOwner, NobodyBefore
  <2>6. ASSUME NEW u \in Users, NEW successor \in Users, TransferOwnership(u, successor)
        PROVE  RowOwner' /\ NobodyBefore'
    <3>1. /\ u = team.owner /\ successor # u /\ team.status = "active"
          /\ member[successor].state = "active"
      BY <1>0, <2>6 DEF TransferOwnership, Owns, Acts
    <3>2. /\ team'.owner = successor /\ team'.status = "active"
          /\ member'[successor].role = "owner" /\ member'[successor].state = "active"
          /\ member'[u].role = "admin"
          /\ \A v \in Users \ {u, successor} : member'[v] = member[v]
      BY <1>0, <2>6, <3>1 DEF TransferOwnership, Team, Member
    <3> QED
      BY <1>0, <3>1, <3>2 DEF RowOwner, NobodyBefore
  <2> QED
    BY <1>6, <2>1, <2>3, <2>4, <2>5, <2>6 DEF RosterStep
<1> QED
  BY <1>2, <1>3, <1>4, <1>5, <1>6 DEF Next

\* The first half of what the constraints of the tables demand.
LEMMA OneOwnerHolds ==
  ASSUME IInv
  PROVE  OneOwner
BY DEF IInv, RowOwner, OneOwner, Owners

-----------------------------------------------------------------------------
(***************************************************************************)
(* Asks: one pending of a kind for each person, each used once.            *)
(***************************************************************************)

\* What settling one ask does to the others: nothing.
LEMMA Settled ==
  ASSUME TypeOK, NEW i \in DOMAIN asks, NEW state,
         asks' = [asks EXCEPT ![i].state = state]
  PROVE  /\ DOMAIN asks' = DOMAIN asks
         /\ asks'[i].state = state
         /\ \A j \in DOMAIN asks : asks'[j].kind = asks[j].kind /\ asks'[j].user = asks[j].user
         /\ \A j \in DOMAIN asks : j # i => asks'[j] = asks[j]
<1>0. asks \in Seq(Ask)
  BY DEF TypeOK
<1>1. asks[i] \in Ask
  BY <1>0
<1>2. asks'[i] = [asks[i] EXCEPT !.state = state] /\ DOMAIN asks' = DOMAIN asks
  BY <1>0
<1>3. asks'[i].state = state /\ asks'[i].kind = asks[i].kind /\ asks'[i].user = asks[i].user
  BY <1>1, <1>2 DEF Ask
<1>4. \A j \in DOMAIN asks : j # i => asks'[j] = asks[j]
  BY <1>0
<1> QED
  BY <1>2, <1>3, <1>4

\* What adding an ask does to the others: some of the pending ones expire.
LEMMA Added ==
  ASSUME TypeOK, NEW w \in Seq(Ask), NEW new \in Ask, Adds(w, new)
  PROVE  /\ DOMAIN asks = 1..Len(asks) /\ Len(asks) \in Nat
         /\ DOMAIN asks' = 1..(Len(asks) + 1)
         /\ asks'[Len(asks) + 1] = new
         /\ \A j \in DOMAIN asks :
              /\ asks'[j] = w[j]
              /\ asks'[j].kind = asks[j].kind /\ asks'[j].user = asks[j].user
              /\ asks'[j].state = "accepted" <=> asks[j].state = "accepted"
              /\ Pending(asks'[j]) => Pending(asks[j])
<1>0. asks \in Seq(Ask)
  BY DEF TypeOK
<1>1. /\ DOMAIN asks = 1..Len(asks) /\ Len(asks) \in Nat /\ Len(w) = Len(asks)
      /\ asks' = Append(w, new)
  BY <1>0 DEF Adds, SomeExpired
<1>2. /\ DOMAIN asks' = 1..(Len(asks) + 1)
      /\ asks'[Len(asks) + 1] = new
      /\ \A j \in DOMAIN asks : asks'[j] = w[j]
  BY <1>1
<1>3. ASSUME NEW j \in DOMAIN asks
      PROVE  /\ w[j].kind = asks[j].kind /\ w[j].user = asks[j].user
             /\ w[j].state = "accepted" <=> asks[j].state = "accepted"
             /\ Pending(w[j]) => Pending(asks[j])
  <2>1. asks[j] \in Ask
    BY <1>0
  <2>2. \/ w[j] = asks[j]
        \/ Pending(asks[j]) /\ w[j] = [asks[j] EXCEPT !.state = "expired"]
    BY DEF Adds, SomeExpired
  <2>3. CASE w[j] = asks[j]
    BY <2>3
  <2>4. CASE Pending(asks[j]) /\ w[j] = [asks[j] EXCEPT !.state = "expired"]
    BY <2>1, <2>4 DEF Ask, Pending
  <2> QED
    BY <2>2, <2>3, <2>4
<1> QED
  BY <1>1, <1>2, <1>3

LEMMA PendingStep ==
  ASSUME IInv, [Next]_vars
  PROVE  OnePending'
<1>0. TypeOK /\ OnePending
  BY DEF IInv
<1>1. CASE UNCHANGED <<asks, joined>>
  BY <1>0, <1>1 DEF OnePending, Pending, Between
<1>2. ASSUME NEW i \in DOMAIN asks, NEW state, state # "pending",
             asks' = [asks EXCEPT ![i].state = state]
      PROVE  OnePending'
  BY <1>0, <1>2, Settled DEF OnePending, Pending, Between
<1>3. ASSUME NEW i \in DOMAIN asks, TurnsDown(i) \/ Accepts(i)
      PROVE  OnePending'
  BY <1>2, <1>3 DEF TurnsDown, Accepts
<1>4. CASE AddsOne
  <2>1. PICK w \in Seq(Ask), new \in Ask : Adds(w, new)
    BY <1>4 DEF AddsOne
  <2>2. \A j \in DOMAIN asks : Between(new.kind, new.user, w[j]) => ~ Pending(w[j])
    <3>1. DOMAIN w = DOMAIN asks
      BY <1>0, <2>1 DEF Adds, SomeExpired, TypeOK
    <3> QED
      BY <2>1, <3>1 DEF Adds
  <2> SUFFICES ASSUME NEW i \in DOMAIN asks', NEW j \in DOMAIN asks',
                      Pending(asks'[i]), Pending(asks'[j]),
                      asks'[i].kind = asks'[j].kind, asks'[i].user = asks'[j].user
               PROVE  i = j
    BY DEF OnePending, Pending, Between
  <2>3. CASE i \in DOMAIN asks /\ j \in DOMAIN asks
    BY <1>0, <2>1, <2>3, Added DEF OnePending, Between
  <2>4. CASE i \in DOMAIN asks /\ j = Len(asks) + 1
    BY <1>0, <2>1, <2>2, <2>4, Added DEF Between
  <2>5. CASE i = Len(asks) + 1 /\ j \in DOMAIN asks
    BY <1>0, <2>1, <2>2, <2>5, Added DEF Between
  <2>6. CASE i = Len(asks) + 1 /\ j = Len(asks) + 1
    BY <2>6
  <2> QED
    BY <1>0, <2>1, <2>3, <2>4, <2>5, <2>6, Added
<1> QED
  BY <1>0, <1>1, <1>3, <1>4, AskChanges

\* Nobody is in or out of the team by a step that accepts nothing, but by its foundation.
LEMMA RosterKeepsFounder ==
  ASSUME IInv, [Next]_vars, UNCHANGED <<asks, joined>>
  PROVE  \A u, v \in Users : Founder(u)' /\ Founder(v)' => u = v
<1>0. /\ member \in [Users -> Member]
      /\ \A u, v \in Users : Founder(u) /\ Founder(v) => u = v
      /\ team.status = "none" => \A u \in Users : member[u].state = "none"
  BY DEF IInv, TypeOK, MembershipsAreConsented, NobodyBefore
<1>1. ASSUME \A u \in Users : member'[u].state # "none" => member[u].state # "none"
      PROVE  \A u, v \in Users : Founder(u)' /\ Founder(v)' => u = v
  BY <1>0, <1>1 DEF Founder
<1>2. ASSUME NEW u \in Users, Create(u)
      PROVE  \A v \in Users : member'[v].state # "none" => v = u
  BY <1>0, <1>2 DEF Create
<1>3. ASSUME NEW u \in Users, Create(u)
      PROVE  \A x, y \in Users : Founder(x)' /\ Founder(y)' => x = y
  BY <1>2, <1>3 DEF Founder
<1>4. CASE Tick \/ UpdatePolicy \/ Archive \/ UNCHANGED vars
  BY <1>1, <1>4 DEF Tick, UpdatePolicy, Archive, vars
<1>5. ASSUME NEW u \in Users,
             \/ SuspendMember(u) \/ RestoreMember(u) \/ RemoveMember(u) \/ Leave(u)
             \/ \E role \in GivenRoles : ChangeMemberRole(u, role)
             \/ \E successor \in Users : TransferOwnership(u, successor)
      PROVE  \A v \in Users : member'[v].state # "none" => member[v].state # "none"
  <2>1. CASE SuspendMember(u) \/ RestoreMember(u) \/ RemoveMember(u) \/ Leave(u)
    BY <1>0, <2>1 DEF SuspendMember, RestoreMember, RemoveMember, Leave, MoveMember
  <2>2. ASSUME NEW role \in GivenRoles, ChangeMemberRole(u, role)
        PROVE  \A v \in Users : member'[v].state # "none" => member[v].state # "none"
    BY <1>0, <2>2 DEF ChangeMemberRole, Member
  <2>3. ASSUME NEW successor \in Users, TransferOwnership(u, successor)
        PROVE  \A v \in Users : member'[v].state # "none" => member[v].state # "none"
    <3>1. u # successor /\ member[u].state = "active" /\ member[successor].state = "active"
      BY <2>3 DEF TransferOwnership, Owns, Acts
    <3>2. \A v \in Users \ {u, successor} : member'[v] = member[v]
      BY <1>0, <2>3 DEF TransferOwnership
    <3> QED
      BY <3>1, <3>2
  <2> QED
    BY <1>5, <2>1, <2>2, <2>3
<1>6. CASE RosterStep
  BY <1>1, <1>3, <1>5, <1>6 DEF RosterStep
<1>7. CASE AskStep
  <2>1. \A i \in DOMAIN asks : ~ Accepts(i)
    <3> SUFFICES ASSUME NEW i \in DOMAIN asks, Accepts(i)
                 PROVE  FALSE
      OBVIOUS
    <3>1. joined' = Append(joined, i) /\ joined \in Seq(DOMAIN asks)
      BY DEF Accepts, IInv, TypeOK
    <3>2. Len(joined') = Len(joined) + 1 /\ Len(joined) \in Nat
      BY <3>1
    <3> QED
      BY <3>2
  <2>2. member' = member
    <3>1. (\E i \in DOMAIN asks : TurnsDown(i)) \/ AddsOne
      BY <1>7, <2>1, AskStepKinds DEF IInv
    <3> QED
      BY <3>1 DEF TurnsDown, AddsOne, Adds
  <2> QED
    BY <1>1, <2>2
<1> QED
  BY <1>4, <1>6, <1>7 DEF Next

LEMMA AcceptingConsents ==
  ASSUME IInv, NEW i \in DOMAIN asks, Accepts(i)
  PROVE  MembershipsAreConsented'
<1>0. /\ asks \in Seq(Ask) /\ joined \in Seq(DOMAIN asks) /\ member \in [Users -> Member]
      /\ UsedOnce /\ UsedWhenAccepted
      /\ \A u, v \in Users : Founder(u) /\ Founder(v) => u = v
  BY DEF IInv, TypeOK, MembershipsAreConsented
<1>1. \A m \in DOMAIN joined : joined[m] # i
  <2>1. asks[i].state # "accepted"
    BY DEF Accepts, Open, Pending
  <2> QED
    BY <1>0, <2>1 DEF UsedWhenAccepted
<1>2. /\ DOMAIN joined' = DOMAIN joined \cup {Len(joined) + 1}
      /\ Len(joined) + 1 \notin DOMAIN joined
      /\ joined'[Len(joined) + 1] = i
      /\ \A m \in DOMAIN joined : joined'[m] = joined[m] /\ joined[m] \in DOMAIN asks
  <2>1. joined' = Append(joined, i)
    BY DEF Accepts
  <2> QED
    BY <1>0, <2>1
<1>3. /\ DOMAIN asks' = DOMAIN asks
      /\ asks'[i].state = "accepted"
      /\ \A j \in DOMAIN asks : asks'[j].user = asks[j].user
      /\ \A j \in DOMAIN asks : j # i => asks'[j] = asks[j]
  <2>1. asks' = [asks EXCEPT ![i].state = "accepted"]
    BY DEF Accepts
  <2> QED
    BY <2>1, Settled DEF IInv
<1>4. UsedOnce'
  BY <1>0, <1>1, <1>2 DEF UsedOnce
<1>5. UsedWhenAccepted'
  BY <1>0, <1>1, <1>2, <1>3 DEF UsedWhenAccepted
<1>6. \A u \in Users : Founder(u)' => Founder(u)
  <2>1. PICK role \in GivenRoles :
          member' = [member EXCEPT ![asks[i].user] = [state |-> "active", role |-> role]]
    BY DEF Accepts
  <2>2. \A u \in Users : u # asks[i].user => member'[u] = member[u]
    BY <1>0, <2>1
  <2>3. \A u \in Users : Founder(u)' => u # asks[i].user
    BY <1>2, <1>3 DEF Founder
  <2>4. \A u \in Users : Founder(u)' => \A m \in DOMAIN joined : asks[joined[m]].user # u
    BY <1>2, <1>3 DEF Founder
  <2> QED
    BY <2>2, <2>3, <2>4 DEF Founder
<1> QED
  BY <1>0, <1>4, <1>5, <1>6 DEF MembershipsAreConsented

\* A member who is in came by a consent of their own, used once.
LEMMA ConsentStep ==
  ASSUME IInv, [Next]_vars
  PROVE  MembershipsAreConsented'
<1>0. /\ TypeOK /\ asks \in Seq(Ask) /\ joined \in Seq(DOMAIN asks)
      /\ UsedOnce /\ UsedWhenAccepted
      /\ \A u, v \in Users : Founder(u) /\ Founder(v) => u = v
  BY DEF IInv, TypeOK, MembershipsAreConsented
<1>1. CASE UNCHANGED <<asks, joined>>
  BY <1>0, <1>1, RosterKeepsFounder DEF MembershipsAreConsented, UsedOnce, UsedWhenAccepted
<1>2. ASSUME NEW i \in DOMAIN asks, TurnsDown(i)
      PROVE  MembershipsAreConsented'
  <2>1. PICK state \in {"refused", "withdrawn"} : asks' = [asks EXCEPT ![i].state = state]
    BY <1>2 DEF TurnsDown
  <2>2. /\ joined' = joined /\ member' = member /\ asks[i].state # "accepted"
    BY <1>2 DEF TurnsDown, Open, Pending
  <2>3. /\ DOMAIN asks' = DOMAIN asks
        /\ \A j \in DOMAIN asks : asks'[j].user = asks[j].user
        /\ \A j \in DOMAIN asks : asks'[j].state = "accepted" <=> asks[j].state = "accepted"
    BY <1>0, <2>1, <2>2, Settled
  <2>4. \A m \in DOMAIN joined : joined[m] \in DOMAIN asks
    BY <1>0
  <2>5. UsedOnce' /\ UsedWhenAccepted'
    BY <1>0, <2>2, <2>3 DEF UsedOnce, UsedWhenAccepted
  <2>6. \A u \in Users : Founder(u)' => Founder(u)
    BY <2>2, <2>3, <2>4 DEF Founder
  <2> QED
    BY <1>0, <2>5, <2>6 DEF MembershipsAreConsented
<1>3. CASE AddsOne
  <2>1. PICK w \in Seq(Ask), new \in Ask : Adds(w, new)
    BY <1>3 DEF AddsOne
  <2>2. joined' = joined /\ member' = member /\ new.state = "pending"
    BY <2>1 DEF Adds, Pending
  <2>3. \A m \in DOMAIN joined : joined[m] \in DOMAIN asks
    BY <1>0
  <2>4. UsedWhenAccepted'
    <3> SUFFICES ASSUME NEW i \in DOMAIN asks'
                 PROVE  asks'[i].state = "accepted" <=> \E m \in DOMAIN joined : joined[m] = i
      BY <2>2 DEF UsedWhenAccepted
    <3>1. CASE i \in DOMAIN asks
      BY <1>0, <2>1, <3>1, Added DEF UsedWhenAccepted
    <3>2. CASE i = Len(asks) + 1
      BY <1>0, <2>1, <2>2, <2>3, <3>2, Added
    <3> QED
      BY <1>0, <2>1, <3>1, <3>2, Added
  <2>5. \A u \in Users : Founder(u)' => Founder(u)
    BY <1>0, <2>1, <2>2, <2>3, Added DEF Founder
  <2> QED
    BY <1>0, <2>2, <2>4, <2>5 DEF MembershipsAreConsented, UsedOnce
<1> QED
  BY <1>0, <1>1, <1>2, <1>3, AskChanges, AcceptingConsents

-----------------------------------------------------------------------------
(***************************************************************************)
(* The theorems.                                                           *)
(***************************************************************************)

LEMMA InitIInv == Init => IInv
<1> SUFFICES ASSUME Init
             PROVE  IInv
  OBVIOUS
<1>1. TypeOK
  BY TeamAssumption DEF Init, NoTeam, TypeOK, Team, Member, Roles, GivenRoles
<1>2. RowOwner /\ NobodyBefore
  BY DEF Init, NoTeam, RowOwner, NobodyBefore
<1>3. OnePending
  BY DEF Init, OnePending
<1>4. MembershipsAreConsented
  BY DEF Init, MembershipsAreConsented, UsedOnce, UsedWhenAccepted, Founder
<1> QED
  BY <1>1, <1>2, <1>3, <1>4 DEF IInv

LEMMA Invariance == Spec => []IInv
<1>1. IInv /\ [Next]_vars => IInv'
  BY TypeStep, OwnerStep, PendingStep, ConsentStep DEF IInv
<1> QED
  BY InitIInv, <1>1, PTL DEF Spec

(***************************************************************************)
(* The rows are always rows of their tables.                               *)
(***************************************************************************)
THEOREM TypeCorrect == Spec => []TypeOK
<1>1. IInv => TypeOK
  BY DEF IInv
<1> QED
  BY Invariance, <1>1, PTL

(***************************************************************************)
(* No history of commands makes the unique indexes or the deferred owner   *)
(* check of the tables refuse a commit.                                    *)
(***************************************************************************)
THEOREM ConstraintsHold == Spec => []ConstraintsNeverRefuse
<1>1. IInv => ConstraintsNeverRefuse
  BY OneOwnerHolds DEF IInv, ConstraintsNeverRefuse
<1> QED
  BY Invariance, <1>1, PTL

(***************************************************************************)
(* Nobody is in the team, or back in it, without a consent of their own    *)
(* that was not used before.                                               *)
(***************************************************************************)
THEOREM ConsentHolds == Spec => []MembershipsAreConsented
<1>1. IInv => MembershipsAreConsented
  BY DEF IInv
<1> QED
  BY Invariance, <1>1, PTL

\* One step: a suspension is only lifted, and nothing moves in an archived team.
LEMMA CutOffStep ==
  ASSUME IInv, [Next]_vars
  PROVE  /\ \A u \in Users : OnlyLiftedByManager(u)
         /\ team.status = "archived" => UNCHANGED <<team, member, asks>>
<1>0. member \in [Users -> Member] /\ TypeOK
  BY DEF IInv, TypeOK
<1>1. CASE Tick \/ UNCHANGED vars
  BY <1>1 DEF Tick, vars, OnlyLiftedByManager
<1>2. CASE UpdatePolicy \/ Archive
  BY <1>2 DEF UpdatePolicy, Archive, OnlyLiftedByManager, SomeoneManages, Manages, Owns, Acts
<1>3. CASE AskStep
  <2>1. \A u \in Users : OnlyLiftedByManager(u)
    BY <1>3, JoiningKeepsOwner DEF OnlyLiftedByManager, Current
  <2>2. team.status = "active"
    <3>1. CASE \E u \in Users : RequestMembership(u)
      BY <3>1 DEF RequestMembership
    <3>2. CASE \E u \in Users, role \in GivenRoles : Invite(u, role)
      BY <3>2 DEF Invite, SomeoneInvites, Invites, Manages, Acts
    <3>3. CASE \E i \in DOMAIN asks, end \in {"accepted", "refused", "withdrawn"} : Settle(i, end)
      BY <3>3 DEF Settle
    <3> QED
      BY <1>3, <3>1, <3>2, <3>3
      DEF AskStep, AcceptInvitation, DeclineInvitation, RevokeInvitation, RejectRequest,
          WithdrawRequest, AcceptRequest
  <2> QED
    BY <2>1, <2>2
<1>4. CASE RosterStep
  <2>1. ASSUME NEW u \in Users, Create(u)
        PROVE  team.status = "none" /\ \A v \in Users : member[v].state = "none"
    BY <2>1 DEF Create, IInv, NobodyBefore
  <2>2. ASSUME NEW u \in Users, SuspendMember(u) \/ RemoveMember(u) \/ Leave(u)
        PROVE  /\ team.status = "active"
               /\ \A v \in Users : member[v].state = "suspended" => member'[v] = member[v]
    BY <1>0, <2>2 DEF SuspendMember, RemoveMember, Leave, MoveMember, AnotherManages, Manages, Acts
  <2>3. ASSUME NEW u \in Users, RestoreMember(u)
        PROVE  team.status = "active" /\ \A v \in Users : OnlyLiftedByManager(v)
    <3>1. PICK m \in Users : Manages(m)
      BY <2>3 DEF RestoreMember, SomeoneManages
    <3>2. m # u /\ team.status = "active"
      BY <2>3, <3>1 DEF RestoreMember, MoveMember, Manages, Acts
    <3>3. member' = [member EXCEPT ![u].state = "active"] /\ UNCHANGED <<team, asks>>
      BY <2>3 DEF RestoreMember, MoveMember
    <3> QED
      BY <1>0, <3>1, <3>2, <3>3 DEF OnlyLiftedByManager
  <2>4. ASSUME NEW u \in Users, NEW role \in GivenRoles, ChangeMemberRole(u, role)
        PROVE  /\ team.status = "active"
               /\ \A v \in Users : member[v].state = "suspended" => member'[v] = member[v]
    BY <1>0, <2>4 DEF ChangeMemberRole, SomeoneManages, Manages, Acts
  <2>5. ASSUME NEW u \in Users, NEW successor \in Users, TransferOwnership(u, successor)
        PROVE  /\ team.status = "active"
               /\ \A v \in Users : member[v].state = "suspended" => member'[v] = member[v]
    BY <1>0, <2>5 DEF TransferOwnership, Owns, Acts
  <2>6. ASSUME team.status = "active",
               \A v \in Users : member[v].state = "suspended" => member'[v] = member[v]
        PROVE  /\ \A u \in Users : OnlyLiftedByManager(u)
               /\ team.status = "archived" => UNCHANGED <<team, member, asks>>
    BY <2>6 DEF OnlyLiftedByManager
  <2>7. ASSUME team.status = "none", \A v \in Users : member[v].state = "none"
        PROVE  /\ \A u \in Users : OnlyLiftedByManager(u)
               /\ team.status = "archived" => UNCHANGED <<team, member, asks>>
    BY <2>7 DEF OnlyLiftedByManager
  <2> QED
    BY <1>4, <2>1, <2>2, <2>3, <2>4, <2>5, <2>6, <2>7 DEF RosterStep
<1> QED
  BY <1>1, <1>2, <1>3, <1>4 DEF Next

(***************************************************************************)
(* Whom a manager suspends stays out until a manager says otherwise, and   *)
(* an archived team stays as it was.                                       *)
(***************************************************************************)
THEOREM CutOffHolds == Spec => CutOffStaysOut
<1>1. IInv /\ [Next]_vars =>
        [ /\ \A u \in Users : OnlyLiftedByManager(u)
          /\ team.status = "archived" => UNCHANGED <<team, member, asks>> ]_vars
  BY CutOffStep
<1> QED
  BY Invariance, <1>1, PTL DEF Spec, CutOffStaysOut
=============================================================================
