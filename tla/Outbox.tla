------------------------------- MODULE Outbox -------------------------------
(***************************************************************************)
(* The transactional outbox and its worker (apps/worker).                  *)
(*                                                                         *)
(* An API command stores an outbox row in its own transaction.  Pollers    *)
(* claim rows under a lease, run each event's effect and its delivery      *)
(* record in one transaction, and then retire the row, with no fencing     *)
(* token between the claim and the statements that retire or release it.   *)
(* A poller is one running call of pollOnce: the interval of server.ts     *)
(* starts one every second whether or not the previous one has ended, so   *)
(* two pollers may belong to one process or to two.                        *)
(*                                                                         *)
(* Clocks are abstracted to what the statements compare: whether a row's   *)
(* available_at has passed on the database clock, and whether the lease of *)
(* its last claim has.                                                     *)
(***************************************************************************)
EXTENDS Naturals, FiniteSets

CONSTANTS
  Events,       \* ids of the outbox rows the API may write
  Poison,       \* those the consumer cannot route: malformed, wrong schema version, unknown type
  Silent,       \* those that no notification projection names
  Users,        \* possible recipients
  Pollers,      \* running calls of pollOnce
  NoEvent,      \* the absence of an event
  MaxAttempts,  \* maxDeliveryAttempts
  Limit,        \* the poll limit
  MaxFaults     \* bound: failed statements, crashes and overrun leases together

ASSUME OutboxAssumption ==
  /\ Poison \subseteq Events
  /\ Silent \subseteq Events
  /\ NoEvent \notin Events
  /\ MaxAttempts \in Nat \ {0}
  /\ Limit \in Nat \ {0}
  /\ MaxFaults \in Nat

VARIABLES
  stored,     \* rows the API has committed
  due,        \* rows whose available_at is not after the database clock
  lock,       \* locked_at: null, within the lease, or older than the lease
  attempts,   \* attempt_count
  published,  \* rows with published_at
  dead,       \* rows with last_error_code
  ledger,     \* outbox_delivery
  notes,      \* notification rows of each event: the users they are addressed to
  effects,    \* history: how many effect transactions of an event have committed
  members,    \* users whose membership is active: the recipients a projection resolves now
  step,       \* where each poller stands
  claims,     \* the claims of a poller's batch it has not finished with
  attempt,    \* the attempt number each claim came with
  current,    \* the event a poller is delivering
  fresh,      \* history: the claims of a poller whose lease has not run out
  faults      \* faults so far

rows == <<stored, due, published, dead, lock, attempts>>
effectVars == <<ledger, notes, effects>>
pollerVars == <<step, claims, attempt, current, fresh>>
vars == <<rows, effectVars, members, pollerVars, faults>>

Steps == {"idle", "next", "effect", "mark", "failed"}

\* What the queue stores, and what a poller holds at each of its steps.
TypeOK ==
  /\ stored \subseteq Events /\ due \subseteq stored
  /\ published \subseteq stored /\ dead \subseteq stored /\ ledger \subseteq stored
  /\ lock \in [Events -> {"free", "live", "expired"}]
  /\ attempts \in [Events -> Nat]
  /\ notes \in [Events -> SUBSET Users]
  /\ effects \in [Events -> Nat]
  /\ members \subseteq Users
  /\ step \in [Pollers -> Steps]
  /\ claims \in [Pollers -> SUBSET stored]
  /\ attempt \in [Pollers -> [Events -> Nat]]
  /\ current \in [Pollers -> Events \cup {NoEvent}]
  /\ fresh \in [Pollers -> SUBSET Events]
  /\ faults \in 0..MaxFaults
  /\ \A p \in Pollers :
       /\ fresh[p] \subseteq claims[p]
       /\ step[p] = "idle" => claims[p] = {}
       /\ IF step[p] \in {"idle", "next"} THEN current[p] = NoEvent
                                         ELSE current[p] \in claims[p] \ Poison

Init ==
  /\ stored = {}
  /\ due = {}
  /\ published = {}
  /\ dead = {}
  /\ lock = [e \in Events |-> "free"]
  /\ attempts = [e \in Events |-> 0]
  /\ ledger = {}
  /\ notes = [e \in Events |-> {}]
  /\ effects = [e \in Events |-> 0]
  /\ members \in SUBSET Users
  /\ step = [p \in Pollers |-> "idle"]
  /\ claims = [p \in Pollers |-> {}]
  /\ attempt = [p \in Pollers |-> [e \in Events |-> 0]]
  /\ current = [p \in Pollers |-> NoEvent]
  /\ fresh = [p \in Pollers |-> {}]
  /\ faults = 0

-----------------------------------------------------------------------------
(***************************************************************************)
(* The environment: API commands, memberships and clocks.                  *)
(***************************************************************************)

(***************************************************************************)
(* A command's record() commits one outbox row whose available_at is the   *)
(* API host's clock, so the row may lie in the database's future.          *)
(***************************************************************************)
Emit(e) ==
  /\ e \notin stored
  /\ stored' = stored \cup {e}
  /\ due' \in {due, due \cup {e}}
  /\ UNCHANGED <<published, dead, lock, attempts, effectVars, members, pollerVars, faults>>

BecomeDue(e) ==
  /\ e \in stored \ due
  /\ due' = due \cup {e}
  /\ UNCHANGED <<stored, published, dead, lock, attempts, effectVars, members, pollerVars, faults>>

\* Memberships start and end while events wait.
ChangeMembers ==
  /\ members' \in SUBSET Users
  /\ UNCHANGED <<rows, effectVars, pollerVars, faults>>

Fault == faults < MaxFaults /\ faults' = faults + 1

Abandoned(e) == \A p \in Pollers : e \notin fresh[p]

(***************************************************************************)
(* A lease runs out: that of a claim nobody holds any more, or, a fault,   *)
(* that of a poller that is still at work.                                 *)
(***************************************************************************)
ExpireLease(e) ==
  /\ lock[e] = "live"
  /\ \/ Abandoned(e) /\ UNCHANGED faults
     \/ ~Abandoned(e) /\ Fault
  /\ lock' = [lock EXCEPT ![e] = "expired"]
  /\ fresh' = [p \in Pollers |-> fresh[p] \ {e}]
  /\ UNCHANGED <<stored, due, published, dead, attempts, effectVars, members,
                 step, claims, attempt, current>>

-----------------------------------------------------------------------------
(***************************************************************************)
(* The pollers.                                                            *)
(***************************************************************************)

\* Mutant of Claimable: an expired lease is never reclaimed.
ClaimableOnlyFree(e) == e \in (stored \cap due) \ (published \cup dead) /\ lock[e] = "free"

Claimable(e) ==
  /\ e \in stored \cap due
  /\ e \notin published
  /\ lock[e] \in {"free", "expired"}
  /\ e \notin dead

\* One statement claims up to Limit rows; FOR UPDATE SKIP LOCKED lets it miss some.
Claim(p) ==
  /\ step[p] = "idle"
  /\ \E batch \in SUBSET {e \in Events : Claimable(e)} :
       /\ batch # {}
       /\ Cardinality(batch) <= Limit
       /\ lock' = [e \in Events |-> IF e \in batch THEN "live" ELSE lock[e]]
       /\ attempts' = [e \in Events |-> IF e \in batch THEN attempts[e] + 1 ELSE attempts[e]]
       /\ claims' = [claims EXCEPT ![p] = batch]
       /\ attempt' = [attempt EXCEPT ![p] =
                         [e \in Events |-> IF e \in batch THEN attempts[e] + 1 ELSE 0]]
       /\ fresh' = [fresh EXCEPT ![p] = batch]
  /\ step' = [step EXCEPT ![p] = "next"]
  /\ UNCHANGED <<stored, due, published, dead, effectVars, members, current, faults>>

\* The claim p is done with: the loop of pollOnce goes on to the next one.
Drop(p, e) ==
  /\ claims' = [claims EXCEPT ![p] = @ \ {e}]
  /\ fresh' = [fresh EXCEPT ![p] = @ \ {e}]
  /\ current' = [current EXCEPT ![p] = NoEvent]
  /\ step' = [step EXCEPT ![p] = "next"]
  /\ attempt' = [attempt EXCEPT ![p][e] = 0]

\* The call of pollOnce ends, whatever is left of its batch.
Stop(p) ==
  /\ step' = [step EXCEPT ![p] = "idle"]
  /\ claims' = [claims EXCEPT ![p] = {}]
  /\ fresh' = [fresh EXCEPT ![p] = {}]
  /\ current' = [current EXCEPT ![p] = NoEvent]
  /\ attempt' = [attempt EXCEPT ![p] = [e \in Events |-> 0]]

\* An event that cannot be routed is dead-lettered at once, whatever its attempt.
Reject(p) ==
  /\ step[p] = "next"
  /\ \E e \in claims[p] \cap Poison :
       /\ lock' = [lock EXCEPT ![e] = "free"]
       /\ dead' = dead \cup {e}
       /\ Drop(p, e)
  /\ UNCHANGED <<stored, due, published, attempts, effectVars, members, faults>>

\* Mutant of BeginDelivery: the effect runs although the delivery record is there.
BeginAgain(p) ==
  /\ step[p] = "next"
  /\ \E e \in claims[p] \ Poison : current' = [current EXCEPT ![p] = e]
  /\ step' = [step EXCEPT ![p] = "effect"]
  /\ UNCHANGED <<rows, effectVars, members, claims, attempt, fresh, faults>>

\* Mutant of BeginDelivery: the delivery record commits before the effect, not with it.
RecordFirst(p) ==
  /\ step[p] = "next"
  /\ \E e \in claims[p] \ Poison :
       /\ current' = [current EXCEPT ![p] = e]
       /\ step' = [step EXCEPT ![p] = IF e \in ledger THEN "mark" ELSE "effect"]
       /\ ledger' = ledger \cup {e}
  /\ UNCHANGED <<rows, notes, effects, members, claims, attempt, fresh, faults>>

(***************************************************************************)
(* runOnce begins: the insert into outbox_delivery waits for another       *)
(* transaction that has inserted the same id, and finds out whether the    *)
(* id was already there.                                                   *)
(***************************************************************************)
BeginDelivery(p) ==
  /\ step[p] = "next"
  /\ \E e \in claims[p] \ Poison :
       /\ \A q \in Pollers : ~(step[q] = "effect" /\ current[q] = e)
       /\ current' = [current EXCEPT ![p] = e]
       /\ step' = [step EXCEPT ![p] = IF e \in ledger THEN "mark" ELSE "effect"]
  /\ UNCHANGED <<rows, effectVars, members, claims, attempt, fresh, faults>>

\* The projector resolves recipients inside the delivery transaction.
Recipients(e) == IF e \in Silent THEN {} ELSE members

CommitEffect(e) ==
  /\ ledger' = ledger \cup {e}
  /\ notes' = [notes EXCEPT ![e] = @ \cup Recipients(e)]
  /\ effects' = [effects EXCEPT ![e] = @ + 1]

CommitDelivery(p) ==
  /\ step[p] = "effect"
  /\ CommitEffect(current[p])
  /\ step' = [step EXCEPT ![p] = "mark"]
  /\ UNCHANGED <<rows, members, claims, attempt, current, fresh, faults>>

\* The effect throws, or its transaction does not commit.
FailDelivery(p) ==
  /\ step[p] = "effect"
  /\ Fault
  /\ step' = [step EXCEPT ![p] = "failed"]
  /\ UNCHANGED <<rows, effectVars, members, claims, attempt, current, fresh>>

\* COMMIT is applied but its answer is lost: runOnce throws all the same.
LoseCommitAnswer(p) ==
  /\ step[p] = "effect"
  /\ Fault
  /\ CommitEffect(current[p])
  /\ step' = [step EXCEPT ![p] = "failed"]
  /\ UNCHANGED <<rows, members, claims, attempt, current, fresh>>

MarkPublished(p) ==
  /\ step[p] = "mark"
  /\ published' = published \cup {current[p]}
  /\ lock' = [lock EXCEPT ![current[p]] = "free"]
  /\ Drop(p, current[p])
  /\ UNCHANGED <<stored, due, dead, attempts, effectVars, members, faults>>

(***************************************************************************)
(* The statement fails: the connection is lost, or the worker's clock lies *)
(* before the row's occurred_at and a CHECK of outbox_event refuses it.    *)
(***************************************************************************)
FailMark(p) ==
  /\ step[p] = "mark"
  /\ Fault
  /\ step' = [step EXCEPT ![p] = "failed"]
  /\ UNCHANGED <<rows, effectVars, members, claims, attempt, current, fresh>>

\* Mutant of Exhausted: off by one.
ExhaustedEarly(p) == attempt[p][current[p]] + 1 >= MaxAttempts

Exhausted(p) == attempt[p][current[p]] >= MaxAttempts

GiveUp(p) ==
  /\ step[p] = "failed"
  /\ Exhausted(p)
  /\ dead' = dead \cup {current[p]}
  /\ lock' = [lock EXCEPT ![current[p]] = "free"]
  /\ Drop(p, current[p])
  /\ UNCHANGED <<stored, due, published, attempts, effectVars, members, faults>>

ReleaseForRetry(p) ==
  /\ step[p] = "failed"
  /\ ~Exhausted(p)
  /\ lock' = [lock EXCEPT ![current[p]] = "free"]
  /\ Drop(p, current[p])
  /\ UNCHANGED <<stored, due, published, dead, attempts, effectVars, members, faults>>

(***************************************************************************)
(* A statement outside the try block fails, or the process dies: the rest  *)
(* of the batch is forgotten, and its rows stay locked until their lease   *)
(* runs out.                                                               *)
(***************************************************************************)
Crash(p) ==
  /\ step[p] # "idle"
  /\ Fault
  /\ Stop(p)
  /\ UNCHANGED <<rows, effectVars, members>>

FinishPoll(p) ==
  /\ step[p] = "next"
  /\ claims[p] = {}
  /\ Stop(p)
  /\ UNCHANGED <<rows, effectVars, members, faults>>

-----------------------------------------------------------------------------
Progress(p) ==
  \/ Claim(p)
  \/ Reject(p)
  \/ BeginDelivery(p)
  \/ CommitDelivery(p)
  \/ MarkPublished(p)
  \/ GiveUp(p)
  \/ ReleaseForRetry(p)
  \/ FinishPoll(p)

Misfortune(p) ==
  \/ FailDelivery(p)
  \/ LoseCommitAnswer(p)
  \/ FailMark(p)
  \/ Crash(p)

Environment ==
  \/ \E e \in Events : Emit(e) \/ BecomeDue(e) \/ ExpireLease(e)
  \/ ChangeMembers

Next == Environment \/ \E p \in Pollers : Progress(p) \/ Misfortune(p)

Spec == Init /\ [][Next]_vars

(***************************************************************************)
(* The interval keeps starting polls and the statements of a poll are      *)
(* awaited one after the other; the database clock goes on.  Nothing says  *)
(* that an event is ever emitted, that a membership changes or that a      *)
(* statement fails.                                                        *)
(***************************************************************************)
Fairness ==
  /\ \A p \in Pollers : WF_vars(Progress(p))
  /\ \A e \in Events : WF_vars(BecomeDue(e)) /\ WF_vars(Abandoned(e) /\ ExpireLease(e))

FairSpec == Spec /\ Fairness

-----------------------------------------------------------------------------
(***************************************************************************)
(* Properties.                                                             *)
(***************************************************************************)

(***************************************************************************)
(* However often an event is claimed, retried or half-acknowledged, its    *)
(* effect commits at most once, and exactly when its delivery record does: *)
(* "at-least-once delivery becomes exactly-one notification"               *)
(* (apps/worker/src/postgres.ts:109).                                      *)
(***************************************************************************)
ExactlyOneEffect ==
  \A e \in Events : effects[e] = IF e \in ledger THEN 1 ELSE 0

(***************************************************************************)
(* A row is only marked published once its effect has committed, so an     *)
(* event never leaves the queue silently undelivered.                      *)
(***************************************************************************)
PublishedWasDelivered == published \subseteq ledger

(***************************************************************************)
(* A routable event is given up only after MaxAttempts claims: a poller    *)
(* that decides on an attempt number it read long ago never cuts the       *)
(* retries short (apps/worker/src/consumer.ts:116).                        *)
(***************************************************************************)
GivenUpOnlyWhenExhausted ==
  \A e \in dead \ Poison : attempts[e] >= MaxAttempts

(***************************************************************************)
(* The recipients of an event are settled by the one transaction that      *)
(* delivers it: a redelivery after memberships changed adds nobody.        *)
(***************************************************************************)
RecipientsSettled ==
  [][\A e \in ledger : notes'[e] = notes[e]]_vars

(***************************************************************************)
(* Every stored event is eventually retired, delivered or with a reason,   *)
(* through crashes, lost answers and overrun leases, if they end.          *)
(***************************************************************************)
EventuallyRetired ==
  \A e \in Events : e \in stored ~> e \in published \cup dead

(***************************************************************************)
(* The queue implements exactly-once delivery: every step of the worker is *)
(* a step of ExactlyOnce or leaves what it speaks of unchanged, however    *)
(* leases, crashes and lost answers interleave (postgres.ts:106-111).      *)
(***************************************************************************)
Promise == INSTANCE ExactlyOnce

ImplementsExactlyOnce == Promise!Spec
=============================================================================
