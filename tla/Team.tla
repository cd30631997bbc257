-------------------------------- MODULE Team --------------------------------
(***************************************************************************)
(* One team workspace: its members and their roles, its owner, invitations *)
(* and requests to join, as the PostgreSQL adapter and the constraints of  *)
(* its tables keep them (apps/api/src/postgres/teams.ts,                   *)
(* packages/domain/src/team.ts, migration 0015).                           *)
(*                                                                         *)
(* A command is one transaction that locks the team's row before any row   *)
(* of a member, an invitation or a request, and the actor's membership     *)
(* stays locked from authorization to commit (RowLocks), so a command is   *)
(* one step here.  A command that is refused, stale or answered from a     *)
(* stored response changes nothing and is no step; expected_version lets a *)
(* command through only in the state its caller read, which any caller may *)
(* have done.  An invitation goes to an e-mail address, which belongs to   *)
(* one person for good and is verified before that person's first session. *)
(***************************************************************************)
EXTENDS Naturals, Sequences

CONSTANTS
  Users,           \* people with an account, or an address to invite them at
  NoUser,          \* workspace.owner_user_id before there is a workspace
  Emailed,         \* who has an e-mail address; others signed up with a phone
  InvitationLife,  \* how long an invitation is open (14 days)
  RequestLife,     \* how long a request to join is open (30 days)
  MaxAsks,         \* bound: invitations and requests of a run
  MaxTime          \* bound: the last instant of a run

ASSUME TeamAssumption ==
  /\ NoUser \notin Users
  /\ Emailed \subseteq Users
  /\ InvitationLife \in Nat \ {0}
  /\ RequestLife \in Nat \ {0}
  /\ MaxAsks \in Nat
  /\ MaxTime \in Nat

\* A member stands for contributors and viewers, who have no say over the team.
GivenRoles == {"admin", "manager", "member"}
Roles == GivenRoles \cup {"owner"}

VARIABLES
  now,      \* the clock
  team,     \* team_workspace and the owner of its workspace row
  member,   \* membership: one row for each user, "none" where there is no row
  asks,     \* team_invitation and team_membership_request, in order of creation
  joined    \* history: the asks by which someone became a member, in that order

vars == <<now, team, member, asks, joined>>

Team == [status : {"none", "active", "archived"}, owner : Users \cup {NoUser},
         inviteOnly : BOOLEAN, managersInvite : BOOLEAN]

Member == [state : {"none", "active", "suspended", "removed"}, role : Roles]

\* "pending" is an invitation that was sent, or a request that was made.
Ask == [kind : {"invitation", "request"}, user : Users, role : GivenRoles, expires : Nat,
        state : {"pending", "accepted", "refused", "withdrawn", "expired"}]

TypeOK ==
  /\ now \in 0..MaxTime
  /\ team \in Team
  /\ member \in [Users -> Member]
  /\ asks \in Seq(Ask)
  /\ Len(asks) <= MaxAsks
  /\ joined \in Seq(DOMAIN asks)

NoTeam == [status |-> "none", owner |-> NoUser, inviteOnly |-> FALSE, managersInvite |-> FALSE]

Init ==
  /\ now = 0
  /\ team = NoTeam
  /\ member = [u \in Users |-> [state |-> "none", role |-> "member"]]
  /\ asks = <<>>
  /\ joined = <<>>

-----------------------------------------------------------------------------
Tick ==
  /\ now < MaxTime
  /\ now' = now + 1
  /\ UNCHANGED <<team, member, asks, joined>>

\* activeAccess and teamCommand: the membership and the team must be active.
Acts(u) == team.status = "active" /\ member[u].state = "active"

\* decideTeamPermission
Manages(u) == Acts(u) /\ member[u].role \in {"owner", "admin"}
Invites(u) == Manages(u) \/ (Acts(u) /\ member[u].role = "manager" /\ team.managersInvite)
Owns(u) == Acts(u) /\ member[u].role = "owner"

SomeoneManages == \E u \in Users : Manages(u)
SomeoneInvites == \E u \in Users : Invites(u)

Current(u) == member[u].state \in {"active", "suspended"}

Create(u) ==
  /\ team.status = "none"
  /\ \E inviteOnly \in BOOLEAN :
       team' = [NoTeam EXCEPT !.status = "active", !.owner = u, !.inviteOnly = inviteOnly]
  /\ member' = [member EXCEPT ![u] = [state |-> "active", role |-> "owner"]]
  /\ UNCHANGED <<now, asks, joined>>

UpdatePolicy ==
  /\ SomeoneManages
  /\ \E inviteOnly, managersInvite \in BOOLEAN :
       team' = [team EXCEPT !.inviteOnly = inviteOnly, !.managersInvite = managersInvite]
  /\ UNCHANGED <<now, member, asks, joined>>

-----------------------------------------------------------------------------
(***************************************************************************)
(* Invitations and requests to join.                                       *)
(***************************************************************************)

Pending(ask) == ask.state = "pending"
Overdue(ask) == Pending(ask) /\ ask.expires <= now

\* The asks among these whose time is over are marked as expired.
Swept(mine) ==
  [i \in DOMAIN asks |->
    IF i \in mine /\ Overdue(asks[i]) THEN [asks[i] EXCEPT !.state = "expired"] ELSE asks[i]]

Between(kind, u, ask) == ask.kind = kind /\ ask.user = u

\* What invite and requestMembership have in common: nobody is asked twice at a time.
NewAsk(kind, u, role, life, mine) ==
  /\ Len(asks) < MaxAsks
  /\ ~ Current(u)
  /\ \A i \in DOMAIN asks : Between(kind, u, Swept(mine)[i]) => ~ Pending(Swept(mine)[i])
  /\ asks' = Append(Swept(mine),
               [kind |-> kind, user |-> u, role |-> role, expires |-> now + life,
                state |-> "pending"])
  /\ UNCHANGED <<now, team, member, joined>>

\* Inviting marks every invitation of the team that is overdue.
Invite(u, role) ==
  /\ SomeoneInvites
  /\ u \in Emailed
  /\ NewAsk("invitation", u, role, InvitationLife,
            {i \in DOMAIN asks : asks[i].kind = "invitation"})

\* Asking to join marks the requester's own requests only.  Nothing reads the role asked for.
RequestMembership(u) ==
  /\ team.status = "active"
  /\ ~ team.inviteOnly
  /\ NewAsk("request", u, "member", RequestLife,
            {i \in DOMAIN asks : Between("request", u, asks[i])})

\* Mutant of Open: an ask that was settled can be settled again.
OpenStill(i) == asks[i].expires > now

Open(i) == Pending(asks[i]) /\ asks[i].expires > now

Settle(i, state) ==
  /\ team.status = "active"
  /\ Open(i)
  /\ asks' = [asks EXCEPT ![i].state = state]
  /\ UNCHANGED <<now, team>>

\* Mutant of MayJoin: only an active member is turned away.
MayJoinUnlessActive(u) == member[u].state # "active"

MayJoin(u) == ~ Current(u)

\* addOrRestoreMember: whoever was a member before gets the old row back.
Join(i, role) ==
  /\ MayJoin(asks[i].user)
  /\ member' = [member EXCEPT ![asks[i].user] = [state |-> "active", role |-> role]]
  /\ joined' = Append(joined, i)

Invitation(i) == asks[i].kind = "invitation" /\ asks[i].user \in Emailed
Request(i) == asks[i].kind = "request"

\* respondInvitation
AcceptInvitation(i) ==
  /\ Invitation(i)
  /\ Settle(i, "accepted")
  /\ Join(i, asks[i].role)

DeclineInvitation(i) ==
  /\ Invitation(i)
  /\ Settle(i, "refused")
  /\ UNCHANGED <<member, joined>>

RevokeInvitation(i) ==
  /\ SomeoneInvites
  /\ asks[i].kind = "invitation"
  /\ Settle(i, "withdrawn")
  /\ UNCHANGED <<member, joined>>

\* decideMembershipRequest: the role is chosen with the decision.
AcceptRequest(i, role) ==
  /\ SomeoneManages
  /\ Request(i)
  /\ Settle(i, "accepted")
  /\ Join(i, role)

RejectRequest(i) ==
  /\ SomeoneManages
  /\ Request(i)
  /\ Settle(i, "refused")
  /\ UNCHANGED <<member, joined>>

WithdrawRequest(i) ==
  /\ Request(i)
  /\ Settle(i, "withdrawn")
  /\ UNCHANGED <<member, joined>>

-----------------------------------------------------------------------------
(***************************************************************************)
(* The roster.                                                             *)
(***************************************************************************)

Managers == {u \in Users : member[u].state = "active" /\ member[u].role \in {"owner", "admin"}}

\* Mutant of Removable: the owner is counted, and protected, like any manager.
RemovableManager(u) == member[u].role \in {"owner", "admin"} => \E v \in Managers : v # u

\* ensureRemovable; the owner is a manager too, so an admin is never the last one.
Removable(u) ==
  /\ member[u].role # "owner"
  /\ member[u].role = "admin" => \E v, w \in Managers : v # w

ChangeMemberRole(u, role) ==
  /\ SomeoneManages
  /\ member[u].state = "active"
  /\ member[u].role # "owner"
  /\ member[u].role = "admin" /\ role # "admin" => Removable(u)
  /\ member' = [member EXCEPT ![u].role = role]
  /\ UNCHANGED <<now, team, asks, joined>>

MoveMember(u, from, to) ==
  /\ member[u].state = from
  /\ member' = [member EXCEPT ![u].state = to]
  /\ UNCHANGED <<now, team, asks, joined>>

AnotherManages(u) == \E v \in Users \ {u} : Manages(v)

SuspendMember(u) ==
  /\ AnotherManages(u)
  /\ Removable(u)
  /\ MoveMember(u, "active", "suspended")

RestoreMember(u) == SomeoneManages /\ MoveMember(u, "suspended", "active")

RemoveMember(u) ==
  /\ AnotherManages(u)
  /\ Removable(u)
  /\ MoveMember(u, "active", "removed")

Leave(u) ==
  /\ Acts(u)
  /\ Removable(u)
  /\ MoveMember(u, "active", "removed")

TransferOwnership(u, successor) ==
  /\ Owns(u)
  /\ member[successor].state = "active"
  /\ member[successor].role # "owner"
  /\ member' = [member EXCEPT ![u].role = "admin", ![successor].role = "owner"]
  /\ team' = [team EXCEPT !.owner = successor]
  /\ UNCHANGED <<now, asks, joined>>

\* The members and whatever is pending stay as they are.
Archive ==
  /\ \E u \in Users : Owns(u)
  /\ team' = [team EXCEPT !.status = "archived"]
  /\ UNCHANGED <<now, member, asks, joined>>

-----------------------------------------------------------------------------
RosterStep ==
  \E u \in Users :
    \/ Create(u) \/ SuspendMember(u) \/ RestoreMember(u) \/ RemoveMember(u) \/ Leave(u)
    \/ \E role \in GivenRoles : ChangeMemberRole(u, role)
    \/ \E successor \in Users : TransferOwnership(u, successor)

AskStep ==
  \/ \E u \in Users : RequestMembership(u) \/ \E role \in GivenRoles : Invite(u, role)
  \/ \E i \in DOMAIN asks :
       \/ AcceptInvitation(i) \/ DeclineInvitation(i) \/ RevokeInvitation(i)
       \/ RejectRequest(i) \/ WithdrawRequest(i)
       \/ \E role \in GivenRoles : AcceptRequest(i, role)

Next == Tick \/ UpdatePolicy \/ Archive \/ RosterStep \/ AskStep

Spec == Init /\ [][Next]_vars

-----------------------------------------------------------------------------
(***************************************************************************)
(* Properties.                                                             *)
(***************************************************************************)

\* Who holds the ownership of the team.
Owners == {u \in Users : member[u].state = "active" /\ member[u].role = "owner"}

OneOwner == team.status # "none" => Owners = {team.owner}

OnePending ==
  \A i, j \in DOMAIN asks :
    Pending(asks[i]) /\ Pending(asks[j]) /\ Between(asks[j].kind, asks[j].user, asks[i]) => i = j

(***************************************************************************)
(* The unique indexes and the deferred owner check of migration 0015 never *)
(* refuse what a command was about to commit: whatever suspensions,        *)
(* removals, transfers and returns came before, exactly one active owner   *)
(* remains and is the owner of the workspace row, and nobody has two       *)
(* invitations, or two requests, pending in the same team.                 *)
(***************************************************************************)
ConstraintsNeverRefuse == OneOwner /\ OnePending

UsedOnce == \A m, n \in DOMAIN joined : joined[m] = joined[n] => m = n

UsedWhenAccepted ==
  \A i \in DOMAIN asks : asks[i].state = "accepted" <=> \E m \in DOMAIN joined : joined[m] = i

\* Someone who is or was in the team, and never joined it.
Founder(u) == member[u].state # "none" /\ \A m \in DOMAIN joined : asks[joined[m]].user # u

(***************************************************************************)
(* Nobody is put into a team: everyone in it but the founder came by an    *)
(* invitation they accepted or a request of theirs that was accepted, and  *)
(* after a removal the same one does not bring them back.                  *)
(***************************************************************************)
MembershipsAreConsented ==
  /\ UsedOnce
  /\ UsedWhenAccepted
  /\ \A u, v \in Users : Founder(u) /\ Founder(v) => u = v

(***************************************************************************)
(* A suspended member gets back in only when a manager lifts the           *)
(* suspension, with the role of before, not by an invitation or a request  *)
(* that was still pending; and an archived team never changes again.       *)
(***************************************************************************)
OnlyLiftedByManager(u) ==
  member[u].state = "suspended" /\ member'[u] # member[u] =>
    /\ \E v \in Users \ {u} : Manages(v)
    /\ member'[u] = [member[u] EXCEPT !.state = "active"]
    /\ UNCHANGED <<team, asks>>

CutOffStaysOut ==
  [][ /\ \A u \in Users : OnlyLiftedByManager(u)
      /\ team.status = "archived" => UNCHANGED <<team, member, asks>> ]_vars
=============================================================================
