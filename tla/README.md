# Rahhal: verification project

TLA+ models of Rahhal, a Persian open-innovation platform: organizations publish challenges,
solvers (individuals and teams) answer with proposals or are invited by direct offers, files
are scanned before anybody reads them, and a worker turns what happened into notifications.
The models are translated from the PostgreSQL adapters of the API (`apps/api/src/postgres`),
its browser routes (`apps/api/src/app.ts`), the worker (`apps/worker/src`), the domain rules
they call (`packages/domain/src`), the constraints and triggers of the migrations
(`apps/api/migrations`), and, on the browser's side, the connected client and its two editors
(`lib/api`, `lib/challenges`, `components/challenge-flow`, `components/solver`). The in-memory
adapters and the browser-only demo store are stand-ins and are not modelled.

Contents: 1 the system, 2 the modules, 3 what is model-checked, 4 what is proved,
5 disagreements found, 6 what is left out, 7 plan, 8 how to run.

## 1. The system

### 1.1 How a command runs

Every command of the API has the same shape, and the models rest on it:

1. The route authenticates the session (`requireSession`) and calls
   `runAuthorizedWorkspace` (`identity-workspace.ts`), which opens **one transaction** at
   READ COMMITTED. The unit of work (`unit-of-work.ts`) lets inner calls join it and never
   repeats a transaction that was aborted.
2. In it the session, the actor's membership and the workspace are locked `FOR SHARE`, the
   permission is decided and an audit row of the decision is written.
3. The adapter takes an advisory lock on tenant and idempotency key. A stored response for
   the key (kept for 24 hours) is returned as it is.
4. The aggregate's row is locked `FOR UPDATE`; `expected_version` is compared with
   `lock_version`, then the state and the clocks are checked.
5. The aggregate changes, and `record()` writes an audit event, a mutation receipt (unique
   per entity and version), an outbox row and the stored response.
6. Deferred constraints and triggers are checked, and the transaction commits.

So `Proposal`, `Challenge`, `Team` and `DirectOffer` take a whole command as **one step**: a
refused or replayed command is a stutter, and permission is an input. `RowLocks` takes that
step apart and justifies it: it shows which locks are taken in which order, that of the
commands based on one reading only one commits, that one sent again is not done twice, and
that the others are answered. Where a
command is *not* one transaction, its steps are kept apart: the statements of the worker's
pollers (`Outbox`), the transactions of the browser routes and the way of their answers
(`Session`), the volume next to the database (`PrivateFile`), and everything between a page
and the server (`Draft` and the editors).

Two clocks take part. Deadlines are judged by the clock of the API host that serves the
command (`new Date()`), which may be off, or by the database's `transaction_timestamp()`,
the moment the transaction *began*, which may be well before it gets its locks. Both are
modelled where the code uses them (`ApiClock`, `TransactionClock`).

### 1.2 Inventory

**Outbox and worker** (`apps/worker/src`; tables `outbox_event`, `outbox_delivery`,
`notification`).
- State: a queue row with `available_at`, `locked_at`, `attempt_count`, `published_at` and
  `last_error_code`; a delivery record per consumer; notifications per recipient.
- Operations: commands insert rows; a poll claims due rows under a 60 s lease
  (`SKIP LOCKED`), rejects unroutable ones, runs the effect and the delivery record in one
  transaction, then marks the row published, releases it, or dead-letters it.
- Interacts with: every command (rows), teams and workspaces (who is a recipient).
- Hard: `setInterval` overlaps polls; leases run out; a worker dies in a batch; a COMMIT is
  applied and its answer lost; retiring statements name the row and not the claim.
- Correct when: the effect is exactly-once; nothing is published undelivered; retries are
  not cut short; every event is retired at some time.

**Proposals** (`proposals.ts`, `domain/proposal.ts`; migrations 0013, 0016, 0017).
- State: proposal with state and `lock_version`; a chain of versions; read grants of the
  organization; clarifications; revision requests; evidence rows.
- Operations: of the owner: create, patch, submit, submit clarification, start revision,
  resubmit. Of the organization: start eligibility review, decide eligibility, request and
  resolve clarification, request revision.
- Interacts with: the call (deadline, publication state) and the owner's standing (profile,
  team, eligibility), both read under a shared lock.
- Hard: two parties and several members of a team against one token; two ways to number
  versions; grants that a later command counts on; two clocks around every deadline.
- Correct when: no lost update; one unbroken chain; exactly one live grant, for the version
  handed in last; evidence that agrees with the state; nothing late.

**Challenges** (`challenges.ts`, `domain/challenge.ts`, `challenge-draft.ts`; migrations
0003, 0005-0010, 0012, 0022).
- State: challenge with stage and `lock_version`; versions with content, lock and rule
  snapshot; approvals; publication columns; the row of the public catalogue.
- Operations: create, patch, request triage, advance formulation, submit for approval,
  record a gate's decision, publish with cleared gates or as the owner, extend the deadline,
  pause, resume, close, cancel.
- Interacts with: proposals and offers (deadline and publication state), the catalogue.
- Hard: gate decisions do not move `lock_version`; four submissions may lock a version
  first; people hold several roles; the catalogue row is a copy kept by six commands.
- Correct when: gates decide on what was read and submitted; a published version is
  answered for; evidence is append-only; what solvers were told is not taken back.

**Direct offers** (`opportunities.ts`, `domain/opportunity.ts`; migrations 0018, 0021).
- State: offer with state, deadline and version; its response; two access grants.
- Operations: send, start negotiation, cancel; view, start, patch and submit a response,
  decline; marking of overdue offers, which happens only when somebody lists offers or the
  sender reads one. A recipient who reads its own overdue offer is answered 404, which
  rolls the marking back, since the whole action is one transaction.
- Hard: lazy expiry against every other command by hosts' clocks; contributors edit what
  managers submit; grants that run to the call's deadline as it was at sending.
- Correct when: one offer is alive; grants and response agree with the state; a manager
  submits what was read; no answer is lost, no draft is seen by the sender.

**Team workspaces** (`teams.ts`, `domain/team.ts`; migration 0015).
- State: team with status and policy, memberships, invitations, requests to join.
- Operations: create, policy, invite, accept, decline, revoke, request, accept, reject,
  withdraw, change role, suspend, restore, remove, leave, transfer ownership, archive.
- Hard: an invitation and a request of one person at once; asks that outlive a removal or a
  suspension; overdue asks stay pending until somebody's next command; the owner in two
  tables; shared locks before exclusive ones.
- Correct when: one owner at every commit; a membership rests on a consent of its own;
  a suspension is lifted only by another manager; an archived team never changes.

**Unit of work and row locks** (`unit-of-work.ts` with the order of locks in `app.ts`,
`identity-workspace.ts` and the adapters).
- State: the row locks of PostgreSQL, the advisory locks on idempotency keys, and the stored
  responses found under them.
- Hard: shared locks taken before exclusive ones on the same rows, joins re-evaluated after a
  wait (EvalPlanQual), deadlocks; a team that is archived while a command waits to be
  authorized; a key that is asked for before, between or after the rows,
  and bears one of two names, which do not exclude each other.
- Correct when: one winner, never none, everyone is answered, a loser is told why, a
  request sent again is done once and does not lose to itself; an archived team stays as it is.

**Sessions, OIDC authorization and contacts** (`app.ts`, `identity-workspace.ts`,
`oidc-authorization.ts`, `solver-activation.ts`; migrations 0002, 0004, 0014; in the browser
`lib/api/http.ts`, `components/runtime-provider.tsx`).
- State: sessions with two token digests, a version, two expiries and the active workspace;
  the one-time authorization (pending, validated, consumed); used contact assertions; stored
  responses; in the browser three HttpOnly cookies shared by all pages.
- Operations: start and callback of an authorization, sign-in by contact, activation, any
  authorized command, workspace switch, refresh, sign-out; the client's "refresh once, then
  the same request again".
- Hard: two pages with one set of cookies; a refresh whose answer is lost; the callback in
  three transactions around the call to the provider; rights that end between the check and
  the commit.
- Correct when: a command commits on the authority it was checked for; sending again is
  harmless; one proof opens one session, whose tokens are replaced one by one until it ends.

**Private files** (`private-files.ts`, `private-pdf-storage.ts`; migration 0023).
- State: a file's row (awaiting upload, quarantined, pending scan, clean, rejected, failed)
  with digest and version; the bytes on the private volume; the records that attach files.
- Operations: reserve (under the workspace's quota), upload, complete, the scanner's timer,
  attach by a save; the record is handed in or reopened.
- Hard: no transaction covers both row and volume; hosts die or lose their connection, and
  with it their locks, and go on writing; every API process scans.
- Correct when: what is clean is what was scanned; the quota holds; a record that was handed
  in keeps its files; every scan asked for ends in a verdict.

**Browser editors** (`components/challenge-flow/hooks.ts` over
`lib/challenges/adapters/network.ts`; `components/solver/connected-proposal-editor.tsx`).
- State: what is on the screen, what counts as saved, the version the page or its gateway
  knows, keys of commands of unknown outcome; requests and answers on the way.
- Operations: open, type, attach, save by timer or button, submit, leave, reload; answers
  that come late, in any order or never.
- Hard: saves that overlap; a save of unknown outcome before a newer one; two tabs.
- Correct when: "saved" is said of what the server has; nothing typed is lost from an open
  page or left out of what is handed in; a change that is not saved is timed, on its way, or shown as failed.

**Solver activation and workspaces** (`solver-activation.ts`, `solver-workspaces.ts`): the
activation is in `Session`; profiles are versioned records.

**Notifications inbox** (`notifications.ts`, migration 0020; `lib/workspace/unread-badge.ts`): read
marks, receipts numbered per target, lists by cursor, an unread count that pages poll.

**Public catalogue**, **transport**, **contracts**, **migration runner**, **in-memory
adapters**, **other pages of the browser application**: see section 6.

Every hazard of this code that we know of is listed at its line in `PROJECT.json`
("hazards"), with the properties that would catch it, or with why none does.

## 2. The modules

```
  ExactlyOnce <---- Outbox <---- MCOutbox            (abstract <- detailed <- instance)
                      ^--------- OutboxProofs

  Call <-------- Challenge <---- MCChallenge
   ^ (environment)  ^----------- ChallengeProofs
   +------------ DirectOffer <-- MCDirectOffer
                   |  ^--------- DirectOfferProofs
  Offer <----------+

  ProposalLifecycle <-- Proposal <-- MCProposal
                          ^--------- ProposalProofs

  Team <---- MCTeam          PrivateFile <---- MCPrivateFile
    ^------- TeamProofs           ^----------- PrivateFileProofs

  RowLocks <---- MCRowLocks  TokenFamily <---- Session <---- MCSession
    ^------- RowLocksProofs                    ^------- SessionProofs

  Draft <--+-- ChallengeEditor <--+-- Editors <---- MCEditors
           +-- ProposalEditor <---+      ^--------- ProposalProofs
```

| module | models | state corresponds to |
| --- | --- | --- |
| `Outbox` | the queue and any number of running `pollOnce` calls | `stored, due, lock, attempts, published, dead`: columns of `outbox_event`; `ledger, notes`: `outbox_delivery`, `notification`; `step, claims, attempt, current`: the locals of a poll; `effects, fresh` are history |
| `ExactlyOnce` | what the queue promises: store, take effect once, retire | refinement is the identity on the shared names |
| `Proposal` | one proposal and both parties | `state, lockVersion, createdAt, current`: columns of `proposal`; `versions, grants, clarifications, revisions, evidence`: its tables, in order of insertion; `call`, `standing`: what it reads |
| `ProposalLifecycle` | the canonical state machine of `domain/proposal.ts`, and what the organization may read | `stage <- state`, `seen <-` contents of the locked versions whose grant is in force for a transaction that runs now (`InForce`: active and within its window) |
| `Challenge` | one challenge from draft to closed call | `stage, lockVersion, versions, approvals, receipts`: its tables; `published`: the publication columns; `projection`: the catalogue row |
| `Call` | what a published call promises solvers | `terms <- published.version`, `state`, `deadline` |
| `DirectOffer` | the offers of one call to one workspace | `offers`: `direct_offer` with its response and grants; `readings` is history. The call is its environment and moves by the actions of `Call`, which `Challenge` implements |
| `Offer` | the canonical machine of `domain/opportunity.ts` as both parties see it | `dealings <-` each offer as the sender's projection shows it |
| `Team` | one team, its members, invitations and requests | `team, member, asks`; `joined` is history |
| `Session` | the pages of one browser and of one person, the browser routes, the provider and the administrators | `sessions, attempt, used, exchanged`: tables; `jar, flow`: the cookies; `tab`: each page's request, with how far its handler is, what it carries and what is stored under its key |
| `TokenFamily` | what a session promises: opened once, one accepted token, replaced until the end | `family <-` stage and number of the accepted tokens of each session |
| `PrivateFile` | the files of one workspace on the database and on the volume | `files`: `file_object`; `volume`: the bytes under the object key; `host`, `scanner`: the locals of a command and of a scan, with whether the connection stands; `record`: proposals and challenges as far as files see them |
| `Draft` | one versioned record on a server, and the requests of several tabs on the way to it | `history`: the text of every version; `handed`: what was submitted; `stored`: the response of each key; `calls`: requests, with who still awaits their answer |
| `ChallengeEditor` | the challenge editor and the gateway under it | `tab`: React state and refs of the page (`shown, status, timer`), the gateway's cache (`cached`) and its keys (`pending`) |
| `ProposalEditor` | the proposal editor | `form`: React state and refs (`draft, saved, version, busy, pendingSave, pendingSubmit, uncertain`); `attached` is history |
| `Editors` | the two editors together; they share no record, so a behaviour is that of one | `desk`: which one |
| `RowLocks` | the locks of nine kinds of command of and around a team, one by one, rows and idempotency keys | `done`: locks granted; `seen`: what a statement that waits or goes on saw when it began; `read`: the version read under the lock; `version`: `lock_version`; a stored response is a committed `outcome` |

Actions bear the names of the functions or routes they model (`Submit`, `Resubmit`,
`RecordApproval`, `AcceptInvitation`, `ReleaseForRetry`, ...), and `PROJECT.json` "map" gives
the lines of each definition. Database constraints and triggers that guard a command are
conjuncts of its action when they refuse what a user may try, and invariants when the code
relies on never meeting them (`ConstraintsNeverRefuse`, `OffersAreCoherent`,
`HistoryIsChain`).

Data are abstract: a content is *rough* or *full* (accepted by the readiness rule) or has
one of three degrees; the bytes of a file are good or infected; a text in an editor is the set
of changes made to it, so that one text holds another exactly if nothing anybody wrote was
lost between them (an edit only adds; attaching stands for removing too). Who may give a
command is a set of roles in `Challenge` and `Team`, where it is state, and an input elsewhere.

The server under the editors is atomic: what it does with a patch or a submission is what
`Challenge` and `Proposal` model in full. The refresh the client makes under a page's request
is in `Session` and not repeated in the editors.

## 3. What is model-checked

Twelve runs. Those marked "violation" show a disagreement of code and documentation (5).

| run | instance | what it shows |
| --- | --- | --- |
| `MCOutbox` | 2 pollers, 2 events (one unroutable), 3 faults, limit 2, 2 attempts, 1 user, with fairness | `ExactlyOneEffect`, `GivenUpOnlyWhenExhausted`, `EventuallyRetired`; refines `ExactlyOnce` |
| `MCProposal` | instants 0..2, hosts' clocks off by 1, waits of 1, grants of 1, 2 saves | `HistoryIsChain`, `NoLostUpdate`, `GrantTracksHandedIn`, `OpenRequestsCiteGranted`, `EvidenceMatchesState`, `HandedInOnTime`; refines `ProposalLifecycle`: what the organization reads changes when a version is handed in or a grant runs out, and it moves a proposal on only while it reads it |
| `MCChallenge` | 4 people with several roles, instants 0..1, skew 1, 9 values of `lock_version`, 1 save, 5 decisions | `ApprovedWhatWasRead`, `GatesDecideOnSubmitted`, `PublishedIsAccountable`, `CatalogueIsCurrent`, `EvidenceIsKept`; refines `Call` |
| `MCDirectOffer` | 2 offers, instants 0..2, skew 1, 1 save | `OffersAreCoherent`, `SubmittedWhatWasRead`; refines `Offer` |
| `MCTeam` | 3 people (one without an e-mail address, the others symmetric), 2 asks, lifetimes of 1 instant | `ConstraintsNeverRefuse`, `MembershipsAreConsented`, `CutOffStaysOut` |
| `MCRowLocks` | 3 commands of 2 members about each other, each of any of 7 kinds, two with one key | `OneWinner`, `SomeoneWins`, `LoserIsToldTheTruth`, `SentAgainIsHarmless`, `EveryCommandAnswered` |
| `MCSession` | 2 symmetric tabs, an authorization or a contact, 2 workspaces, 2 versions of a session, 1 fault | `AuthorizedAtCommit`, `ResendIsHarmless`; refines `TokenFamily` |
| `MCPrivateFile` | 2 hosts, 2 scanners, 2 files, 2 records, quota 2 (with 0 to 2 files there before), 5 versions of a file, 1 fault, with fairness | `CleanBytesWereScanned`, `QuotaHolds`, `FrozenWithTheRecord`, `EveryPendingGetsVerdict` |
| `MCEditors` | 2 symmetric tabs on one challenge or one proposal, 2 changes, 4 incidents (2 of a challenge) | `SavedMeansStored`, `TypedIsHandedIn`, `NothingIsStuck`, `UnstoredIsKept`, `FormsOverwriteNothing` |
| `MCTeamDeadlock` | as `MCRowLocks`, the four kinds that change a team | violation of `TeamCommandsDoNotDeadlock` |
| `MCOverwrite` | as `MCEditors` | violation of `NothingIsOverwritten` |
| `MCArchive` | as `MCRowLocks`, an archive and the kinds that change the workspace | violation of `ArchivedTeamsAuthorizeNothing` |

Every property of a passing run has a mutant of the code's model that TLC finds to violate it
(`PROJECT.json` "mutants"): a delivery without its record, a revocation that is dropped, a
token that is not compared, an approver who decides twice, a request counted under a shared
lock, a version taken from what was read back, and so on. Type invariants that are proved (4)
are not run; that of `Session` documents the types of its variables.

**Bounds and why they are enough.** Two pollers suffice for a race on one row, and a third
claim comes from a poller that returns; three faults let a lease run out, an answer be lost
and a mark fail in one history; a limit of 2 lets a batch hold more than the row that is
being delivered. Two attempts tell the last from the one before. For proposals, three
instants tell before, at and after a deadline while a host is a tick off either way and a
transaction waits a tick; the last deadline lies beyond the run, so both outcomes occur.
Each command of a proposal can happen at most once or twice by the state machine itself, and
two saves make `lock_version` and the version number part in a revision. Nine versions and
five decisions are what one challenge takes when a gate rejects it, it is saved, resubmitted
and approved by all four gates. Two offers are one that is over and its successor.
Two asks are an invitation and a request of one person, or two of two people. Three commands
are enough for a circle of waiting with a bystander, and for a circle of three; two of them
with one key are a request and its repetition, or two that should not have shared it. A change of
policy takes the locks of an archive, on the same record, and meets other commands in
`MCTeamDeadlock` and the proofs. Uploads move no version on, so `OneWinner` leaves them to `SentAgainIsHarmless`.

Two versions of a session are one refresh *or* one switch before it, so that each meets the
other side's rotation; one fault is the lost answer or the failed transaction whose
consequences the properties are about, and only the membership of the other workspace may
end (`Unstable`). Five versions of a file are reservation, upload, scan asked for, failed,
asked for again; `settled` starts the workspace anywhere from an empty one to a full one, so a
quota of 2 meets the last free place with two requests on two records at once. In the editors
an incident is a pressed button, a page left or reloaded, an answer lost or a request refused;
three presses are what one proposal form takes to save over another's, and a fourth leaves
room for a fault. The challenge editor saves by its timer, without presses, so two incidents do
(`MaxOfChallenge`). Two changes tell a tab's own from the other tab's.
The proofs (4) remove all these bounds from everything but the liveness properties.

**Fairness and why the code justifies it.**
- `Outbox`: weak fairness of each poller's next statement, as `setInterval` keeps starting
  polls and the statements of one poll are awaited in order; weak fairness of a row becoming
  due and of an abandoned lease running out, as the database's clock goes on. Nothing says
  that a command is ever given, that memberships change or that a fault happens. Faults are
  bounded: with a crash at every delivery no event would ever be retired, and the code has
  no answer to that (`consumer.ts:116`, section 5).
- `RowLocks`: weak fairness of `Next`, weaker than of each command's steps: while some
  transaction can go on one does, as PostgreSQL grants a lock that is free and its deadlock
  detector aborts one of a circle.
- `PrivateFile`: weak fairness of each scanner, as every API process has a timer of two
  seconds that starts a scan when none is under way (`postgres-composition.ts:146-162`); strong
  fairness of the verdict, as the row-lock queue of the workspace gives a waiting scanner its
  turn however many requests come; weak fairness of the insert that lets the workspace go.
- No other module states fairness: whether anybody gives a command is up to people. What the
  editors must not leave behind is the invariant `NothingIsStuck`: a disabled button always has an
  awaited request, and a change that is not saved has a timer, an awaited save, or a page that
  says its newest save failed. That last status does not end by itself: no timer runs and nothing is
  asked until the person saves, types, leaves or reloads (`hooks.ts:136-141`).

`CHECK_DEADLOCK FALSE` in all configurations: all commands may have been given, the run may
have reached its last instant, and in `RowLocks` all may be answered. That *waiting* ends is
checked as `EveryCommandAnswered`.

## 4. What is proved

TLAPS checks the theorems for every value of the constants, from the named assumptions on
the constants (`OutboxAssumption`, `ProposalAssumption`, `ChallengeAssumption`,
`TeamAssumption`, `PrivateFileAssumption`, `DirectOfferAssumption`, `RowLocksAssumption`,
`SessionAssumption`, `DraftAssumption`: the bounds are natural numbers, subsets are subsets, the
reserved values are no data, there is a command and everybody named is on the roster) and from
`RowsAreApart` (a membership, an advisory lock and a row of another table are never the same).

**`OutboxProofs`** (any events, pollers and faults). The inductive invariant is
`TypeOK /\ Delivery`, and for the retries also `Retries`. `ExactlyOneEffect` is not inductive
by itself: one has to know that a poller standing before its effect saw no delivery record,
and that no other poller stands before the effect of the same event (`Inserting`, what the
uncommitted insert into `outbox_delivery` guarantees). `PublishedWasDelivered` needs that a
poller about to mark its row saw the record (`MarkingDelivered`), and
`GivenUpOnlyWhenExhausted` that nobody holds an attempt number above the row's
(`AttemptsKnown`). `OutboxImplementsExactlyOnce` maps every step to a step of `ExactlyOnce`
or a stutter; `OnlyDeliveredNotify` is what it needs beyond the invariants.
Theorems: `TypeCorrect`, `EffectsAreExactlyOnce`, `PublishedIsDelivered`,
`RecipientsAreSettled`, `RetriesAreNotCutShort`, `OutboxImplementsExactlyOnce`.

**`ProposalProofs`** (any contents, clocks, skew, waits and durations). `IInv` adds to the
checked invariants: `DraftNumbers` (while the proposal is a draft `lock_version` is the number
of versions, so the two ways of numbering agree when `submit` uses one and later commands
the other), `RowCounts` (how many grants, questions and revisions a state has), `GrantedVersion`
(the last grant is for the version handed in last, and only drafts follow it), `LiveGrant` (all
grants but the last are revoked) and `OpenRequestsCiteLast`. From these follow
`GrantTracksHandedIn` and `OpenRequestsCiteGranted`, and with them that `resubmit` always finds
the one grant it wants to revoke. `ImplementsLifecycle` maps every command to a move of the
canonical machine, and the passing of time to the lapse of what the organization reads. It needs
`GrantsInTime` (no grant begins in the future or is empty), so that a version that was handed in is
read at once and no command but a submission brings a lapsed reading back. Theorems: `TypeCorrect`, `TokensProtect`, `HistoryNeverForks`,
`RowsMatchState`, `DeadlinesHold`, `GrantTracks`, `RequestsCiteGranted`, `ImplementsLifecycle`.

**`ChallengeProofs`** (any people, roles, contents, clocks, skew and bounds). `Inv` adds to the
checked invariants `Tokens` (one receipt for each value of the token, the last of them names the
current version: so a gate whose token is compared has read what it decides on) and
`DecidedOnce` (on one version nobody decides twice and no gate is decided twice: so four
approvals are four people, which `FourApproved` counts). Every command but a decision
`Advances`: it takes the next token over versions that only *grow*, each keeping its content,
its lock and its snapshot. What follows is shown once for all such commands, and the publishing
ones are looked at by themselves (`Released`, `Adjusted`). Theorems: `TypeCorrect`,
`GatesReadWhatTheyDecide`, `OnlySubmittedIsDecided`, `PublicationIsAnsweredFor`,
`CatalogueFollows`, `EvidenceStays`, `CallKeepsItsPromise`.

**`RowLocksProofs`** (any number of commands in flight, any roster, any sharing of keys). The
invariant says that what running transactions hold does not conflict (`LocksExclude`), so what a
command has read of its record is still so (`ReadIsCurrent`), and a record somebody was
committed on has moved on (`CommitsCount`): a second commit would need version 0 of it. For keys,
`KeyInv` says that a command past its lookup holds the lock on its key, so nobody with the same
name for it has committed since (`KeyIsFree`), that who holds
its record has read it (`RecordIsRead`), and that nobody is refused over a record that has not
moved on (`StaleMovedOn`). Each kind of command enters only through `Coherent`: it locks for update what
it writes, its record before it compares, and its key before it looks the response up. Theorems:
`TypeCorrect`, `OneCommandWins`, `RacesHaveAWinner`, `LosersAreToldTheTruth`, `ResendIsSafe`, and
`ArchiveIsFinal`: nobody at work holds the row of an archived team (`RowIsFree`), as archiving
locked it against them and every later statement on it sees the status; so of what belongs to
the team only `verify`, which never asks for that row, is left to `MCArchive`. For
`RacesHaveAWinner` the invariant is `StillOpen`: as long as nobody has won, every record stands at
the version the commands were sent with and somebody is at work. Nothing then gives a reason to
turn anybody away (`NobodyTurnedAway`: not stale, no stored response, no archived team, no row
that a join loses), and who is aborted leaves the others of its circle.

An archived team, and what belongs to it, is answered as one that does not exist: by `activeAccess`
(workspace unreachable), by the commands of the team (`teams.ts:564, 1072, 1424`), and by those of
proposals and files, which look the team up again. So who is told "not found" lost to an archive;
any other loser is told that it is stale. The exception are commands on a challenge, which lock and
join the version in one statement: they are told so when another command has moved the challenge
on. `LosersAreToldTheTruth` says both, and rests on the order of statements (only challenges are
joined while they are being locked, `ChallengeRows`) and on `SeenIsPast`, that a waiting
statement saw no version newer than the one there is.

`OnlyUpgradesDeadlock` bounds what `MCTeamDeadlock` finds: a circle of waiting always has a
command in it that asks for update for a row it had shared. The commands that never do this are
of the three kinds of `WhoUpgrades`; by kind and locks granted they have a place in one order
(`Rank`, from the shape of their programs, `Shaped`), and each waits only for one further on
(`WaitingClimbs`), so no circle closes (`NobodyClimbsForEver`). The other six kinds all upgrade,
and TLC finds two commands of any one of them in a circle; this is a theorem of its own, which no
run states.

**`TeamProofs`** (any people, asks and lifetimes). `IInv` adds to the checked invariants
`RowOwner` (the owner's role belongs to the owner of the workspace row, who is an active
member: `OneOwner` follows) and `NobodyBefore`. The steps on asks are first classified
(nothing, one turned down, one accepted, overdue ones marked and one added), and each part of
the invariant is shown for the four classes. Theorems: `TypeCorrect`, `ConstraintsHold`,
`ConsentHolds`, `CutOffHolds`.

**`PrivateFileProofs`** (any files, records, hosts, scanners, quota and faults). `Inv` adds to
the type invariant what the locks are worth. `HostsApart`: two hosts with standing connections
have no file and no record in common, and nobody holds the workspace shared while one counts
under the exclusive lock. `RowsOK`: bytes with a digest are those on the volume. `HostsOK`: a
host that is past writing or comparing sees its own bytes under the key, also when its
connection is gone, because the exclusive creation lets only one host ever write a key and a
host in the middle of writing is the one that created it. `ScannersOK`: a scanner whose
connection stands has read the bytes of the row it locked. `RecordsOK`: attachments are clean
files of that record. `Counting`: what a host counted is still true when it inserts. Theorems:
`TypeCorrect`, `CleanIsScanned`, `QuotaIsKept`, `FilesFreezeWithTheRecord`.

**`DirectOfferProofs`** (any contents, instants, skew, offers and saves). `Inv` adds `Agrees`
(what state, response, grants and clocks say of each other; in particular there is no response
before the state speaks of one, so nobody starts over an answer), `Remembers` (the last reading
of an offer is the row itself, so who knows the version knows the content), `OneLive` and
`LapsedIsClosed`: only the live offer can be overdue, so the marking of all overdue offers,
which every list does, is the closing of one, and maps to one step of `Offer`. Theorems:
`TypeCorrect`, `Coherence`, `NothingUnreadIsSubmitted`, `OffersImplementTheMachine`.

**`SessionProofs`** (any pages, ways to sign in, workspaces, versions and faults). `Inv` adds to
the type invariant `Opened` (only what has been used up has opened a session: a proof that is
still good finds none, so it opens one and not a second), `TokensIssued` (no cookie and no
stored response bears a token newer than its session's newest, so a token that was replaced
cannot match again) and `RequestsFit`, what is known of a request where it stands. A command
that holds its locks was found authorized, and nothing else moves the row it holds or ends the
membership it relies on; a request with a stored response comes to the handler that finds it: for a
refresh this needs that the access token it carries stays unusable (`StillUnusable`), as the
route would otherwise answer without looking. `OthersFit` and `MovesStep` show once for all steps
that the requests of other pages stay as they were. For the refinement each step is an opening,
a replacement or a keeping of one row (`Advances`), and `Numbered` says that an opened session
has issued a token. Theorems: `SessionIsTyped`, `CommandsAreAuthorizedAtCommit`,
`RepeatsAreHarmless`, `SessionsImplementFamilies`.

**The editors** (any tabs, changes and incidents; in the second part of `ProposalProofs`, as what
the forms save and hand in are proposals). `EditorsInv` is `ChallengeInv` or `ProposalInv`. Both
rest on what is known of the server whatever is lost or comes late (`RequestsOK`, `Keyed`): a key
stands for one command, in every request on its way and in every command a page keeps for a
repetition; a key the server remembers did exactly that command, so a replayed answer says of the
page's command what the first would have; an answer that was given is so, as versions are only
added. A page awaits one answer at a time. Of the challenge page one has to know that it takes an
answer for the end of a save only if what it shows was in that save or a timer runs
(`AwaitedByTab`), that its status agrees with its timer and with what it awaits, also after a save
failed (`Settled`), and that nothing anywhere holds a change that was not made yet (`TextsMade`),
so that a new one is never mistaken for a part of a save on its way. Of the proposal form, that each of its saves, on the way or kept, expects a
version whose text it holds (`Seen`), that what it sends again it still shows, and that once a
submission is under way or in doubt, nothing is on the screen that is not in the version it hands
in, added files aside (`FormOK`): `saveDraft` repeats until what it saved is what the form showed
when the button was pressed, and the fields are frozen from then on. The lemmas on the server (a read, a replay, a rejection, a write keep
`RequestsOK` and `Keyed`) are stated once for both editors, those on the pages by class of step:
a page that asks, one that goes on typing, one that hears. Theorems: `EditorsInvariant`,
`SavedIsWhatIsStored`, `WhatIsTypedIsHandedIn`, `NothingGetsStuck`, `UnstoredStaysOnThePage`,
`FormsWriteOverWhatTheySaw`.

**Only model-checked**: the liveness properties (`EventuallyRetired`, `EveryCommandAnswered`,
`EveryPendingGetsVerdict`), which need fairness and `ENABLED`; every other property of a passing
run is a theorem. Liveness, `ENABLED`, induction over data and RECURSIVE
operators are out of the installed provers' reach; no module declares a RECURSIVE operator.

## 5. Disagreements found while modelling

- `MCTeamDeadlock`: `teams.ts:1068-1070` says the order of locks rules out deadlocks between
  team-changing commands. Authorization takes shared locks on the same rows first, so two such
  commands can wait for each other; PostgreSQL aborts one and nothing repeats it.
- `MCOverwrite`: `project-documents/26_LEAN_MVP_SCOPE.md:77` rules out a save that silently
  overwrites a newer version. The challenge page keeps the text that was typed and saves it at
  the version its *gateway* read last (`network.ts:237, 304`, `hooks.ts:109-112`), which a reread
  may have moved past a change the page never showed: no conflict, the change is gone.
- `MCArchive`: `project-documents/50_DATA_MODEL.md:102` says an archived team cannot authorize a
  workspace request. `activeAccess` (`identity-workspace.ts:327`) asks for the status in a
  subquery and locks the membership and the workspace, which archiving locks but does not
  change: who waited there goes on with the status it saw before. Commands on the team, on
  proposals and files read the team again under a lock and are turned away; starting the
  verification, accepting a gate and an owner's change of the profile are committed.

Facts found by reading, which no run speaks of.

*Server.* `domain/challenge.ts:605` says "a cancelled call closes in-flight proposals with
notice"; cancelling (`challenges.ts:1817-1904`) writes nothing to proposals, and later commands
on them do not look at the call. A reason of 501 to 2000 characters is admitted by the contract
(`schemas.ts:2671, 2680`) and by the offer's table (`0018:57-59`), but is copied into
`access_grant.revocation_reason`, whose check (`0001:113`) ends at 500: cancelling or declining
fails and the offer stays alive. The worker's statements that release or retire a row name the
row and not the claim (`postgres.ts:92-94`), so a poller that overran its lease frees it under
its successor: the effect stays exactly-once, attempts are spent early. A worker that dies on
one event is never counted, so a crash loop is never dead-lettered (`consumer.ts:116`). A
revision whose deadline has passed has no way on (`proposal.ts:72`); a challenge whose deadline
passed while it waited for its gates can only be revised by its owner
(`challenge-draft.ts:185`). Challenges lock and join in one statement (`challenges.ts:803`), so a
command that waited there may be told "not found"; one sent again while the first is running
waits in the same statement, and so may it. The adapters name the advisory lock on a key in two ways
(`proposals.ts:360`, `teams.ts:326`) that do not exclude each other: one key sent to both at once
ends in the unique constraint and a server error. Lists of offers lock all overdue offers in no
order (`opportunities.ts:498`); grants of an offer run to the call's deadline as it was when the
offer was sent (`opportunities.ts:899`). The tracking code of proposals ends at 1,000,000
(`0013:112`), and `0013:125` compares two clocks.

*Sessions.* Sign-out with an expired access cookie clears the cookies without revoking, and a
late refresh of another page signs the browser in again (`app.ts:1105-1119`). A second equal
callback is refused although its response is stored, as its flow cookie is gone. The grant of
the provider is lost when a host dies after the exchange of the code (`GrantIsLost`). The answer
"clear" of a page that lost a race wipes the winner's cookies. The runtime ignores the answer to
sign-out (`runtime-provider.tsx:166`), and a lost contact sign-in answer gives 403 when the
button is pressed again, under a new key (`contact-session.ts:97, 116`).

*Private files.* A file in quarantine of a record that was handed in cannot be completed until the record
is reopened; a crash in the middle of a write makes every retry a refused replacement
(`private-pdf-storage.ts:106`) while the file counts against the quota; a request upgrades its
shared lock on the workspace, so two can deadlock (`Fail`); saves lock record before file and
uploads file before record; a file that keeps failing is scanned before newer ones.

*Browser.* `87_SOLVER_PROPOSAL_RELIABILITY.md:10` says that editing is frozen until the result of
a submission is known; the fields are (`connected-proposal-editor.tsx:541, 607`), the list of
attachments (714) is not, so a file added then is on the screen and not in what is handed in
(`TypedIsHandedIn` leaves out such changes, `attached`). Autosaves that overlap carry the same version, so the second conflicts with the
first and the page says a newer version exists (`edit-page.tsx:187`), offering to reload over
what was typed; the last save of a page that is left is lost without a word if it conflicts
(`hooks.ts:109-112`); after a failed save nothing tries again, and after a conflict the gateway
keeps the stale version (`network.ts:299-318`), so every further save is refused as well until
another answer or a reload brings it on (`edit-page.tsx:187-199`); the preview publishes the gateway's version and not the one it shows
(`preview-page.tsx:377`); a refusal of a replayed submission unfreezes the editor although the
first may have been carried out.

*Notifications.* "Mark all read" marks what arrived after the list was shown; `read_at` is a
host's clock against a check on `occurred_at`.

## 6. What is not modelled and why

- Lists and single reads, except where reading changes state (offers), locks rows, or gives a
  page its version (editors).
- Stored responses of the commands in `Proposal`, `Challenge`, `Team` and `DirectOffer`: they
  repeat an answer without effect (`Session`, `Draft` have them, as a page acts on them). That
  the same key may come again after 24 hours is covered by the token, which is stale by then
  (`NoLostUpdate`).
- In `PrivateFile`: the quota of bytes (100 MiB), which the statement that counts the files also reads
  and compares, under the same locks (`private-files.ts:330-337`). What is shown of the number of
  files carries over, as a sum is as current as a count while nobody can insert.
- Saved opportunities: a bookmark that is inserted and deleted.
- The text of contents, files, names and reasons, beyond what a rule tells apart.
- Notification texts; who is a recipient is the set of active members.
- In `RowLocks`: the expiry of stored responses; the permission that is decided again before a
  response is repeated, so that who lost a role or left a team meanwhile is refused; the commands
  of offers and sessions, the challenge that a submission and a gate also lock, and the
  requests for files that are already there.
- In `Session`: reads and answers that change neither cookies nor the page; the machine route;
  the expiry of stored responses; attempts at contact verification, which only the in-memory
  development provider counts. A membership only ends. The page knows the session's version
  when it switches.
- In the editors: creating, publishing and advancing a challenge, clarifications and revisions,
  the list of challenges; one record per tab, and a workspace that stays the active one.
- **Solver profiles and workspaces**: plain versioned records; the start of a verification is in
  `RowLocks`.
- **Notifications inbox**: read marks, each one statement on rows of one user that goes one way;
  the rows, and who gets them, are in `Outbox`.
- **Public catalogue**: read-only queries over the row `CatalogueIsCurrent` is about.
- **Transport**: parsing and routing; what it locks is in `RowLocks`, what it does to cookies
  in `Session`. **Contracts**: shapes of data. **In-memory adapters**: single-process stand-ins.
  **Other pages of the browser**: they show data and send one command per press; most of the
  browser's lines are layout and text, which no property is about.
- **Migration runner**: run by hand, one at a time under an advisory lock.

## 7. Plan

Done, in this order: `Outbox` with `ExactlyOnce` and proofs; `Proposal` with
`ProposalLifecycle` and proofs; `Challenge` with `Call`; `RowLocks`; `Team` with proofs;
`DirectOffer` with `Offer`, composed with `Call`; `Session` with `TokenFamily`; `PrivateFile` and
proofs; `Draft` and the two editors; proofs of `DirectOffer`, `Challenge` and `RowLocks`;
idempotency keys and archiving in `RowLocks`; proofs of `Session`; winners and losers in
`RowLocks`; `Editors` and their proofs.

Next, proving: the liveness properties are out of reach; what is left are further theorems that no
run states, such as the condition under which the challenge page overwrites nothing.

Next, modelling: the migration runner (a crash between two migrations, a changed checksum) and
the inbox with its clocks.

## 8. How to run

In this directory, with TLC, the community modules and TLAPS installed:

```
tlc -workers 2 -config MCProposal.cfg MCProposal
tlapm ProposalProofs.tla
```

The longest runs (`MCSession`, `MCPrivateFile`, `MCEditors`) take one to three minutes.
