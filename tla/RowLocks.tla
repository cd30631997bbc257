------------------------------ MODULE RowLocks ------------------------------
(***************************************************************************)
(* Commands that meet on rows of PostgreSQL: which rows each of them       *)
(* locks, how and in which order, from the authorization of the request to *)
(* the commit (runAuthorizedWorkspace, runTeamAction, runSolverActorAction *)
(* and registerChallengeCommand, then the adapter).  The other modules     *)
(* take a command to be one step; here that step is taken apart.           *)
(*                                                                         *)
(* FOR SHARE and FOR UPDATE are held to the end of the transaction.  A row *)
(* is granted when no other transaction holds it in conflict, so that a    *)
(* reader joins readers even when a writer waits.  When transactions wait  *)
(* for each other in a circle one of them is aborted, rolled back and      *)
(* answered with a server error: PostgresUnitOfWork does not try again.    *)
(* A request bears an idempotency key: an advisory lock on it is held to   *)
(* the end as well, and the response stored by a committed command is      *)
(* looked up under that lock and answered instead of doing it again.       *)
(* Every caller has just read the record the command is about, and the     *)
(* command compares what it reads of it once it has locked it.             *)
(***************************************************************************)
EXTENDS Integers, Sequences, FiniteSets

CONSTANTS
  Commands,  \* the commands in flight
  Roster,    \* the members of a team, in the order in which they are locked
  Actor,     \* who gives the command
  Target,    \* the member it is about, if it is about one
  Key,       \* the idempotency key it is sent with
  Kinds      \* the kinds of command that may be in flight

Members == {Roster[i] : i \in DOMAIN Roster}

Keys == {Key[c] : c \in Commands}

\* Proposals, files and the verification are those of the team's workspace.
AllKinds ==
  {"challenge", "proposal", "upload", "verify", "policy", "archive", "role", "decide", "withdraw"}

ASSUME RowLocksAssumption ==
  /\ IsFiniteSet(Commands) /\ Commands # {}
  /\ Roster \in Seq(Members)
  /\ Actor \in [Commands -> Members]
  /\ Target \in [Commands -> Members]
  /\ DOMAIN Key = Commands
  /\ Kinds \subseteq AllKinds

\* Memberships in the organization are read by many and written by none of these commands.
Rows == {"organization", "challenge", "workspace", "team", "proposal", "verification", "request"}
          \cup Members \cup Keys

\* A membership is a row of a table of its own, and an advisory lock is not a row.
ASSUME RowsAreApart ==
  /\ Members \cap Keys = {}
  /\ (Members \cup Keys)
       \cap {"organization", "challenge", "workspace", "team", "proposal", "verification", "request"} = {}

VARIABLES
  kind,     \* what each command is
  done,     \* how many of its locks a command has been granted
  seen,     \* the version its statement saw when it began, while it goes on or waits, or Idle
  read,     \* the version the command read of its record under the lock, or Idle
  outcome,  \* "none" until the command is answered
  version   \* lock_version of each record

vars == <<kind, done, seen, read, outcome, version>>

Idle == -1

Outcomes == {"none", "committed", "replayed", "mismatch", "stale", "notFound", "aborted"}

Init ==
  /\ kind \in [Commands -> Kinds]
  /\ done = [c \in Commands |-> 0]
  /\ seen = [c \in Commands |-> Idle]
  /\ read = [c \in Commands |-> Idle]
  /\ outcome = [c \in Commands |-> "none"]
  /\ version = [r \in Rows |-> 0]

-----------------------------------------------------------------------------
(***************************************************************************)
(* What each command locks.  "joined" says that the statement also joins   *)
(* the version row current_version_id pointed to when it began.            *)
(***************************************************************************)

Share(row) == [row |-> row, mode |-> "share", joined |-> FALSE]
Update(row) == [row |-> row, mode |-> "update", joined |-> FALSE]
Joined(lock) == [lock EXCEPT !.joined = TRUE]

\* The adapters name the advisory lock in two ways, which do not exclude each other.
Advisory == {"prefixed", "separated"}

\* lockIdempotency: "<length>:<tenant><key>", or "<tenant>:<key>".
Prefixed(c) == [row |-> Key[c], mode |-> "prefixed", joined |-> FALSE]
Separated(c) == [row |-> Key[c], mode |-> "separated", joined |-> FALSE]

\* activeAccess: the actor's membership, then the workspace.
SolverAccess(c) == <<Share(Actor[c]), Share("workspace")>>

\* teams.get: the team, its workspace and every membership.
ReadTeam == <<Share("team"), Share("workspace")>> \o [i \in DOMAIN Roster |-> Share(Roster[i])]

TeamCommand == <<Update("team"), Update("workspace")>>

ChallengeLocks(c) ==
  <<Share("organization"), Joined(Share("challenge")), Prefixed(c), Joined(Update("challenge"))>>

\* Mutant of ProposalLocks: the row is read and not locked against others.
ProposalLocksShared(c) == SolverAccess(c) \o <<Prefixed(c), Share("proposal")>> \o ReadTeam

\* Mutant of ProposalLocks: the row is locked by the statement that joins the version.
ProposalLocksJoined(c) == SolverAccess(c) \o <<Prefixed(c), Joined(Update("proposal"))>> \o ReadTeam

\* The row is locked by a statement of its own, before the version is read; then permitted asks
\* what the team allows.
ProposalLocks(c) == SolverAccess(c) \o <<Prefixed(c), Update("proposal")>> \o ReadTeam

\* editable locks the proposal, and reads the team, before the key is asked for.
UploadLocks(c) ==
  SolverAccess(c) \o <<Update("proposal")>> \o ReadTeam \o <<Separated(c)>> \o <<Update("workspace")>>

\* Verification and gates ask for the role the authorization found, and for nothing of the team.
VerifyLocks(c) == SolverAccess(c) \o <<Separated(c)>> \o <<Update("verification")>>

TeamLocks(c) == SolverAccess(c) \o ReadTeam \o TeamCommand \o <<Separated(c)>>

Program ==
  [c \in Commands |-> [k \in AllKinds |->
     CASE k = "challenge" -> ChallengeLocks(c)
       [] k = "proposal" -> ProposalLocks(c)
       [] k = "upload" -> UploadLocks(c)
       [] k = "verify" -> VerifyLocks(c)
       [] k \in {"policy", "archive"} -> TeamLocks(c)
       [] k = "role" -> TeamLocks(c) \o <<Update(Target[c])>>
       [] k = "decide" -> TeamLocks(c) \o <<Update("request")>>
       [] k = "withdraw" -> <<Update("request"), Update("team"), Separated(c)>>]]

\* The locks of a command in the order in which it asks for them.
Locks(c) == Program[c][kind[c]]

\* The record whose lock_version the command was sent with.
Record(c) ==
  CASE kind[c] = "challenge" -> "challenge"
    [] kind[c] \in {"proposal", "upload"} -> "proposal"
    [] kind[c] = "verify" -> "verification"
    [] kind[c] \in {"policy", "archive"} -> "team"
    [] kind[c] = "role" -> Target[c]
    [] kind[c] \in {"decide", "withdraw"} -> "request"

\* The records whose lock_version the command moves on.  Accepting a request moves the team's.
Writes(c) ==
  CASE kind[c] = "upload" -> {{}}
    [] kind[c] = "role" -> {{Target[c], "team"}}
    [] kind[c] = "decide" -> {{"request"}, {"request", "team"}}
    [] OTHER -> {{Record(c)}}

\* How many locks the command has when it compares versions: an upload asks for the workspace after.
Compares(c) == IF kind[c] = "upload" THEN Len(Locks(c)) - 1 ELSE Len(Locks(c))

\* Mutant of Recalls: the stored response is looked up when the request comes in.
RecallsAtOnce(c) == 1

\* After how many locks the stored response is looked up: under the key, before versions are compared.
Recalls(c) ==
  IF kind[c] \in {"challenge", "upload", "verify", "role", "decide"} THEN Len(Locks(c)) - 1 ELSE Len(Locks(c))

Conflict(lock, held) ==
  /\ lock.row = held.row
  /\ \/ "update" \in {lock.mode, held.mode}
     \/ lock.mode = held.mode /\ lock.mode \in Advisory

\* The lock a command is waiting for, or about to be granted.
Wanted(c) == Locks(c)[done[c] + 1]

Running(c) == outcome[c] = "none"

\* Transaction d holds a row in the way of the statement c is about to run, or is running.
Blocks(d, c) ==
  /\ c # d
  /\ Running(d)
  /\ LET wanted == Wanted(c)
         held == Locks(d)
     IN  \E i \in 1..done[d] : Conflict(wanted, held[i])

WaitsFor(c, d) == Running(c) /\ seen[c] # Idle /\ Blocks(d, c)

\* Everyone in S waits for another of S and is waited for by another of S.
Circle(S, waits) == \A c \in S : (\E d \in S : <<c, d>> \in waits) /\ (\E d \in S : <<d, c>> \in waits)

Deadlocked(c) ==
  /\ seen[c] # Idle
  /\ LET waits == {w \in Commands \X Commands : WaitsFor(w[1], w[2])}
     IN  \E S \in SUBSET Commands : c \in S /\ Circle(S, waits)

\* Mutant of Answer: a failed transaction is not rolled back and goes on holding its rows.
AnswerHolding(c, what) ==
  outcome' = [outcome EXCEPT ![c] = IF what = "aborted" THEN "none" ELSE what]

\* COMMIT or ROLLBACK: the command is answered and holds nothing any more.
Answer(c, what) == outcome' = [outcome EXCEPT ![c] = what]

-----------------------------------------------------------------------------
(***************************************************************************)
(* The next statement gets its row, at once or after a wait.               *)
(***************************************************************************)

\* Everyone was sent with version 0 of the record.
Stale(c) == read[c] # 0 /\ done[c] >= Compares(c)

Wants(c) == Running(c) /\ done[c] < Len(Locks(c)) /\ ~ Stale(c)

Free(c) == Wants(c) /\ \A d \in Commands : ~ Blocks(d, c)

\* The same request: the fingerprint names the actor, the action and its target.
Resent(c, d) ==
  /\ Key[c] = Key[d] /\ kind[c] = kind[d] /\ Actor[c] = Actor[d]
  /\ kind[c] = "role" => Target[c] = Target[d]

\* A row of idempotency_key, whose unique constraint knows one way to name a key.
Stored(c) == \E d \in Commands : outcome[d] = "committed" /\ Key[d] = Key[c]

\* The next lock is the one under which a stored response is looked up, and there is one.
Recalled(c) == Stored(c) /\ done[c] + 1 = Recalls(c)

\* Archiving changes the status of the team and nothing else.
Archived == \E d \in Commands : kind[d] = "archive" /\ outcome[d] = "committed"

\* Running the statement of activeAccess, which begins with the membership.
Authorizing(c) ==
  kind[c] \notin {"challenge", "withdraw"} /\ done[c] < Len(SolverAccess(c))

GoesOn(c) == Authorizing(c) /\ done[c] + 1 < Len(SolverAccess(c))

\* Every statement that locks the team looks at the status of what it locks.  activeAccess asks
\* for it in a subquery: what that finds was decided when the statement began.
CutOff(c) ==
  Archived /\ (Wanted(c).row = "team" \/ (Authorizing(c) /\ seen[c] = Idle))

Wait(c) ==
  /\ Wants(c) /\ seen[c] = Idle
  /\ ~ Free(c) /\ ~ CutOff(c)
  /\ seen' = [seen EXCEPT ![c] = version[Wanted(c).row]]
  /\ UNCHANGED <<kind, done, read, outcome, version>>

\* Mutant of LostInJoin: a row that had to be waited for is skipped.
LostInWait(c) == Wanted(c).joined /\ seen[c] # Idle

\* EvalPlanQual looks at the row again, but not for a version row that came after the snapshot.
LostInJoin(c) == Wanted(c).joined /\ seen[c] \notin {Idle, version[Wanted(c).row]}

\* The row as it is now, also after a wait.
Reads(c) == IF Wanted(c).row = Record(c) THEN version[Record(c)] ELSE read[c]

Grant(c) ==
  /\ ~ Recalled(c)
  /\ Free(c) /\ ~ LostInJoin(c) /\ ~ CutOff(c)
  /\ done' = [done EXCEPT ![c] = @ + 1]
  /\ seen' = [seen EXCEPT ![c] = IF GoesOn(c) THEN version[Wanted(c).row] ELSE Idle]
  /\ read' = [read EXCEPT ![c] = Reads(c)]
  /\ UNCHANGED <<kind, outcome, version>>

Miss(c) ==
  /\ Free(c)
  /\ LostInJoin(c)
  /\ Answer(c, "notFound")
  /\ UNCHANGED <<kind, done, seen, read, version>>

\* An archived team, and what belongs to it, is answered as one that does not exist.
Deny(c) ==
  /\ Wants(c) /\ CutOff(c)
  /\ Answer(c, "notFound")
  /\ UNCHANGED <<kind, done, seen, read, version>>

\* The answer of the first, or that the key was used for something else.
Recall(c) ==
  /\ Recalled(c)
  /\ Free(c) /\ ~ LostInJoin(c)
  /\ Answer(c, IF \E d \in Commands : outcome[d] = "committed" /\ Resent(c, d)
                 THEN "replayed" ELSE "mismatch")
  /\ UNCHANGED <<kind, done, seen, read, version>>

Finished(c) == Running(c) /\ done[c] = Len(Locks(c)) /\ ~ Stale(c)

Commit(c) ==
  /\ Finished(c) /\ ~ Stored(c)
  /\ \E written \in Writes(c) :
       version' = [r \in Rows |-> IF r \in written THEN version[r] + 1 ELSE version[r]]
  /\ Answer(c, "committed")
  /\ UNCHANGED <<kind, done, seen, read>>

\* A key that was locked by its other name has been stored meanwhile: the insertion fails.
Collide(c) ==
  /\ Finished(c) /\ Stored(c)
  /\ Answer(c, "aborted")
  /\ UNCHANGED <<kind, done, seen, read, version>>

Refuse(c) ==
  /\ Running(c)
  /\ Stale(c)
  /\ Answer(c, "stale")
  /\ UNCHANGED <<kind, done, seen, read, version>>

Abort(c) ==
  /\ Deadlocked(c)
  /\ Answer(c, "aborted")
  /\ UNCHANGED <<kind, done, seen, read, version>>

Step(c) ==
  \/ Wait(c) \/ Grant(c) \/ Miss(c) \/ Deny(c) \/ Recall(c)
  \/ Commit(c) \/ Collide(c) \/ Refuse(c) \/ Abort(c)

Next == \E c \in Commands : Step(c)

\* While a transaction can go on, one does; PostgreSQL looks for circles of waiting ones.
Fairness == WF_vars(Next)

Spec == Init /\ [][Next]_vars /\ Fairness

-----------------------------------------------------------------------------
(***************************************************************************)
(* Properties.                                                             *)
(***************************************************************************)

\* Every variable has its type.
TypeOK ==
  /\ kind \in [Commands -> Kinds]
  /\ done \in [Commands -> Nat]
  /\ \A c \in Commands : done[c] <= Len(Locks(c))
  /\ seen \in [Commands -> Nat \cup {Idle}]
  /\ read \in [Commands -> Nat \cup {Idle}]
  /\ outcome \in [Commands -> Outcomes]
  /\ version \in [Rows -> Nat]

(***************************************************************************)
(* Of the commands whose callers read the same version of a record one at  *)
(* most is committed, although each of them first reads the record under a *)
(* lock it shares with the others, or waits with a snapshot of its own, or *)
(* goes on to other rows after it compared.  An upload advances nothing.   *)
(***************************************************************************)
OneWinner ==
  \A c, d \in Commands :
    /\ c # d
    /\ kind[c] # "upload" /\ kind[d] # "upload"
    /\ outcome[c] = "committed" /\ outcome[d] = "committed"
    => Record(c) # Record(d)

(***************************************************************************)
(* A race has a winner: however the commands meet, whoever is aborted or   *)
(* refused, they do not all come away empty-handed.                        *)
(***************************************************************************)
SomeoneWins ==
  (\A c \in Commands : ~ Running(c)) => \E c \in Commands : outcome[c] = "committed"

(***************************************************************************)
(* Who is told that the record does not exist has lost to an archive,      *)
(* which hides the team and all that is its own; no other loser of a race  *)
(* is, and who loses one for a proposal is told that it is stale (the      *)
(* comment in proposals.ts:583-590).  Only a challenge is joined to its    *)
(* version by the statement that locks it: a command on one is told so     *)
(* when another command has moved the challenge on.                        *)
(***************************************************************************)
LoserIsToldTheTruth ==
  [][\A c \in Commands :
       outcome[c] # "notFound" /\ outcome'[c] = "notFound" =>
         IF kind[c] = "challenge" THEN version["challenge"] > 0 ELSE Archived]_vars

(***************************************************************************)
(* Sending a request again with its key is harmless, however the two meet  *)
(* in the database: it is done once, an upload too, which moves no version *)
(* on, and the second is never told that the version it was sent with is   *)
(* out of date because the first was carried out.                          *)
(***************************************************************************)
SentAgainIsHarmless ==
  \A c, d \in Commands :
    c # d /\ Key[c] = Key[d] /\ outcome[d] = "committed" =>
      /\ outcome[c] # "committed"
      /\ Resent(c, d) => outcome[c] # "stale"

(***************************************************************************)
(* Every command is answered, whatever circle of waiting it gets into.     *)
(***************************************************************************)
EveryCommandAnswered == <>(\A c \in Commands : ~ Running(c))

(***************************************************************************)
(* Team-changing commands cannot "deadlock by taking the same rows in      *)
(* reverse order" (the comment in teams.ts:1068-1070).                     *)
(***************************************************************************)
TeamCommandsDoNotDeadlock == \A c \in Commands : ~ Deadlocked(c)

(***************************************************************************)
(* "Archived teams remain retained evidence and cannot authorize a         *)
(* workspace request" (50_DATA_MODEL.md:102): once a team is archived      *)
(* nothing is committed in its workspace.  Challenges are an               *)
(* organization's.                                                         *)
(***************************************************************************)
ArchivedTeamsAuthorizeNothing ==
  [][\A c \in Commands :
       Archived /\ outcome[c] # "committed" /\ outcome'[c] = "committed"
         => kind[c] = "challenge"]_vars
=============================================================================
