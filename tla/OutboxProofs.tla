---------------------------- MODULE OutboxProofs ----------------------------
(***************************************************************************)
(* The safety of the outbox, for any number of events, pollers and faults. *)
(*                                                                         *)
(* ExactlyOneEffect is not inductive: it has to be known that a poller     *)
(* which stands before its effect found no delivery record and that no     *)
(* other poller stands there for the same event, which is what the insert  *)
(* into outbox_delivery guarantees.  PublishedWasDelivered needs that a    *)
(* poller about to mark its row saw the record, and                        *)
(* GivenUpOnlyWhenExhausted that no poller holds an attempt number above   *)
(* the one the row has reached.                                            *)
(***************************************************************************)
EXTENDS Outbox, TLAPS

\* Whoever stands before an effect holds the only uncommitted insert of its event.
Inserting ==
  /\ \A p \in Pollers : step[p] = "effect" => current[p] \notin ledger
  /\ \A p, q \in Pollers :
       step[p] = "effect" /\ step[q] = "effect" /\ current[p] = current[q] => p = q

MarkingDelivered == \A p \in Pollers : step[p] = "mark" => current[p] \in ledger

OnlyDeliveredNotify == \A e \in Events \ ledger : notes[e] = {}

AttemptsKnown == \A p \in Pollers : \A e \in Events : attempt[p][e] <= attempts[e]

Delivery ==
  /\ Inserting
  /\ MarkingDelivered
  /\ OnlyDeliveredNotify
  /\ ExactlyOneEffect
  /\ PublishedWasDelivered

Retries == AttemptsKnown /\ GivenUpOnlyWhenExhausted

-----------------------------------------------------------------------------
LEMMA TypeInit == Init => TypeOK
  BY OutboxAssumption DEF Init, TypeOK, Steps

\* Every action keeps the shape of the tables and of the pollers.
LEMMA TypeStep == TypeOK /\ [Next]_vars => TypeOK'
<1> SUFFICES ASSUME TypeOK, [Next]_vars PROVE TypeOK'
  OBVIOUS
<1> USE OutboxAssumption DEF TypeOK, Steps
<1>1. ASSUME NEW e \in Events, Emit(e) PROVE TypeOK'
  BY <1>1 DEF Emit, effectVars, pollerVars
<1>2. ASSUME NEW e \in Events, BecomeDue(e) PROVE TypeOK'
  BY <1>2 DEF BecomeDue, effectVars, pollerVars
<1>3. ASSUME NEW e \in Events, ExpireLease(e) PROVE TypeOK'
  BY <1>3 DEF ExpireLease, Fault, effectVars
<1>4. CASE ChangeMembers
  BY <1>4 DEF ChangeMembers, rows, effectVars, pollerVars
<1>5. ASSUME NEW p \in Pollers, Claim(p) PROVE TypeOK'
  BY <1>5 DEF Claim, Claimable, effectVars
<1>6. ASSUME NEW p \in Pollers, Reject(p) PROVE TypeOK'
  BY <1>6 DEF Reject, Drop, effectVars
<1>7. ASSUME NEW p \in Pollers, BeginDelivery(p) PROVE TypeOK'
  BY <1>7 DEF BeginDelivery, rows, effectVars
<1>8. ASSUME NEW p \in Pollers, CommitDelivery(p) PROVE TypeOK'
  BY <1>8 DEF CommitDelivery, CommitEffect, Recipients, rows
<1>9. ASSUME NEW p \in Pollers, MarkPublished(p) PROVE TypeOK'
  BY <1>9 DEF MarkPublished, Drop, effectVars
<1>10. ASSUME NEW p \in Pollers, GiveUp(p) PROVE TypeOK'
  BY <1>10 DEF GiveUp, Drop, effectVars
<1>11. ASSUME NEW p \in Pollers, ReleaseForRetry(p) PROVE TypeOK'
  BY <1>11 DEF ReleaseForRetry, Drop, effectVars
<1>12. ASSUME NEW p \in Pollers, FinishPoll(p) PROVE TypeOK'
  BY <1>12 DEF FinishPoll, Stop, rows, effectVars
<1>13. ASSUME NEW p \in Pollers, FailDelivery(p) PROVE TypeOK'
  BY <1>13 DEF FailDelivery, Fault, rows, effectVars
<1>14. ASSUME NEW p \in Pollers, LoseCommitAnswer(p) PROVE TypeOK'
  BY <1>14 DEF LoseCommitAnswer, CommitEffect, Recipients, Fault, rows
<1>15. ASSUME NEW p \in Pollers, FailMark(p) PROVE TypeOK'
  BY <1>15 DEF FailMark, Fault, rows, effectVars
<1>16. ASSUME NEW p \in Pollers, Crash(p) PROVE TypeOK'
  BY <1>16 DEF Crash, Stop, Fault, rows, effectVars
<1>17. CASE UNCHANGED vars
  BY <1>17 DEF vars, rows, effectVars, pollerVars
<1>18. QED
  BY <1>1, <1>2, <1>3, <1>4, <1>5, <1>6, <1>7, <1>8, <1>9, <1>10, <1>11, <1>12, <1>13,
     <1>14, <1>15, <1>16, <1>17 DEF Next, Environment, Progress, Misfortune

(***************************************************************************)
(* In every reachable state the tables and the pollers have the shape the  *)
(* schema and the control flow of pollOnce give them.                      *)
(***************************************************************************)
THEOREM TypeCorrect == Spec => []TypeOK
  BY TypeInit, TypeStep, PTL DEF Spec

-----------------------------------------------------------------------------
LEMMA DeliveryInit == Init => Delivery
  BY DEF Init, Delivery, Inserting, MarkingDelivered, OnlyDeliveredNotify, ExactlyOneEffect,
         PublishedWasDelivered, Steps

\* An effect commits once: its poller found no record and nobody else stands before it.
LEMMA CommitOnce ==
  ASSUME TypeOK, Delivery, NEW p \in Pollers, step[p] = "effect", CommitEffect(current[p]),
         step' \in {[step EXCEPT ![p] = "mark"], [step EXCEPT ![p] = "failed"]},
         UNCHANGED <<rows, current>>
  PROVE  Delivery'
<1> USE DEF TypeOK, Delivery, CommitEffect, rows
<1> DEFINE e == current[p]
<1>1. e \in Events /\ e \notin ledger
  BY DEF Inserting
<1>2. \A q \in Pollers : step'[q] = "effect" => q # p /\ step[q] = "effect" /\ current[q] # e
  BY DEF Inserting, Steps
<1>3. Inserting'
  BY <1>1, <1>2 DEF Inserting
<1>4. MarkingDelivered'
  BY <1>1 DEF MarkingDelivered, Steps
<1>5. OnlyDeliveredNotify'
  BY <1>1 DEF OnlyDeliveredNotify
<1>6. ExactlyOneEffect'
  BY <1>1 DEF ExactlyOneEffect
<1>7. PublishedWasDelivered'
  BY DEF PublishedWasDelivered
<1>8. QED
  BY <1>3, <1>4, <1>5, <1>6, <1>7

LEMMA DeliveryStep == TypeOK /\ Delivery /\ [Next]_vars => Delivery'
<1> SUFFICES ASSUME TypeOK, Delivery, [Next]_vars PROVE Delivery'
  OBVIOUS
<1>a. ASSUME UNCHANGED <<effectVars, published>>,
             \A p \in Pollers : step'[p] \in {"effect", "mark"} =>
                                  step'[p] = step[p] /\ current'[p] = current[p]
      PROVE  Delivery'
  BY <1>a DEF Delivery, Inserting, MarkingDelivered, OnlyDeliveredNotify, ExactlyOneEffect,
              PublishedWasDelivered, effectVars
<1> USE DEF TypeOK, Steps
<1>1. ASSUME NEW e \in Events, Emit(e) PROVE Delivery'
  BY <1>1, <1>a DEF Emit, pollerVars
<1>2. ASSUME NEW e \in Events, BecomeDue(e) PROVE Delivery'
  BY <1>2, <1>a DEF BecomeDue, pollerVars
<1>3. ASSUME NEW e \in Events, ExpireLease(e) PROVE Delivery'
  BY <1>3, <1>a DEF ExpireLease
<1>4. CASE ChangeMembers
  BY <1>4, <1>a DEF ChangeMembers, rows, pollerVars
<1>5. ASSUME NEW p \in Pollers, Claim(p) PROVE Delivery'
  BY <1>5, <1>a DEF Claim
<1>6. ASSUME NEW p \in Pollers, Reject(p) PROVE Delivery'
  BY <1>6, <1>a DEF Reject, Drop
<1>7. ASSUME NEW p \in Pollers, BeginDelivery(p) PROVE Delivery'
  <2>1. PICK e \in Events :
          /\ \A q \in Pollers : ~(step[q] = "effect" /\ current[q] = e)
          /\ current' = [current EXCEPT ![p] = e]
          /\ step' = [step EXCEPT ![p] = IF e \in ledger THEN "mark" ELSE "effect"]
    BY <1>7 DEF BeginDelivery
  <2>2. UNCHANGED <<effectVars, published>>
    BY <1>7 DEF BeginDelivery, rows
  <2>3. Inserting'
    BY <2>1, <2>2 DEF Delivery, Inserting, effectVars
  <2>4. MarkingDelivered'
    BY <2>1, <2>2 DEF Delivery, MarkingDelivered, effectVars
  <2>5. QED
    BY <2>2, <2>3, <2>4 DEF Delivery, OnlyDeliveredNotify, ExactlyOneEffect,
                            PublishedWasDelivered, effectVars
<1>8. ASSUME NEW p \in Pollers, CommitDelivery(p) PROVE Delivery'
  BY <1>8, CommitOnce DEF CommitDelivery
<1>9. ASSUME NEW p \in Pollers, MarkPublished(p) PROVE Delivery'
  <2>1. current[p] \in ledger
    BY <1>9 DEF MarkPublished, Delivery, MarkingDelivered
  <2>2. \A q \in Pollers : step'[q] \in {"effect", "mark"} =>
                             step'[q] = step[q] /\ current'[q] = current[q]
    BY <1>9 DEF MarkPublished, Drop
  <2>3. QED
    BY <1>9, <2>1, <2>2 DEF MarkPublished, Delivery, Inserting, MarkingDelivered,
       OnlyDeliveredNotify, ExactlyOneEffect, PublishedWasDelivered, effectVars
<1>10. ASSUME NEW p \in Pollers, GiveUp(p) PROVE Delivery'
  BY <1>10, <1>a DEF GiveUp, Drop
<1>11. ASSUME NEW p \in Pollers, ReleaseForRetry(p) PROVE Delivery'
  BY <1>11, <1>a DEF ReleaseForRetry, Drop
<1>12. ASSUME NEW p \in Pollers, FinishPoll(p) PROVE Delivery'
  BY <1>12, <1>a DEF FinishPoll, Stop, rows
<1>13. ASSUME NEW p \in Pollers, FailDelivery(p) PROVE Delivery'
  BY <1>13, <1>a DEF FailDelivery, rows
<1>14. ASSUME NEW p \in Pollers, LoseCommitAnswer(p) PROVE Delivery'
  BY <1>14, CommitOnce DEF LoseCommitAnswer
<1>15. ASSUME NEW p \in Pollers, FailMark(p) PROVE Delivery'
  BY <1>15, <1>a DEF FailMark, rows
<1>16. ASSUME NEW p \in Pollers, Crash(p) PROVE Delivery'
  BY <1>16, <1>a DEF Crash, Stop, rows
<1>17. CASE UNCHANGED vars
  BY <1>17, <1>a DEF vars, rows, pollerVars
<1>18. QED
  BY <1>1, <1>2, <1>3, <1>4, <1>5, <1>6, <1>7, <1>8, <1>9, <1>10, <1>11, <1>12, <1>13,
     <1>14, <1>15, <1>16, <1>17 DEF Next, Environment, Progress, Misfortune

LEMMA DeliveryInvariant == Spec => [](TypeOK /\ Delivery)
<1>1. Init => TypeOK /\ Delivery
  BY TypeInit, DeliveryInit
<1>2. TypeOK /\ Delivery /\ [Next]_vars => (TypeOK /\ Delivery)'
  BY TypeStep, DeliveryStep
<1>3. QED
  BY <1>1, <1>2, PTL DEF Spec

(***************************************************************************)
(* An effect commits at most once per event and exactly with its delivery  *)
(* record, for any number of pollers, retries and crashes.                 *)
(***************************************************************************)
THEOREM EffectsAreExactlyOnce == Spec => []ExactlyOneEffect
  BY DeliveryInvariant, PTL DEF Delivery

(***************************************************************************)
(* No row is ever marked published before its effect has committed.        *)
(***************************************************************************)
THEOREM PublishedIsDelivered == Spec => []PublishedWasDelivered
  BY DeliveryInvariant, PTL DEF Delivery

-----------------------------------------------------------------------------
(***************************************************************************)
(* The recipients of a delivered event never change.                       *)
(***************************************************************************)
THEOREM RecipientsAreSettled == Spec => RecipientsSettled
<1>1. ASSUME TypeOK, Delivery, [Next]_vars
      PROVE  [\A e \in ledger : notes'[e] = notes[e]]_vars
  <2>1. ASSUME NEW p \in Pollers, step[p] = "effect", CommitEffect(current[p])
        PROVE  \A e \in ledger : notes'[e] = notes[e]
    BY <1>1, <2>1 DEF TypeOK, Delivery, Inserting, CommitEffect
  <2>2. CASE notes' = notes
    BY <2>2
  <2>3. QED
    BY <1>1, <2>1, <2>2 DEF Next, Environment, Progress, Misfortune, vars, effectVars, Emit,
       BecomeDue, ExpireLease, ChangeMembers, Claim, Reject, BeginDelivery, CommitDelivery,
       MarkPublished, GiveUp, ReleaseForRetry, FinishPoll, FailDelivery, LoseCommitAnswer,
       FailMark, Crash
<1>2. QED
  BY <1>1, DeliveryInvariant, PTL DEF Spec, RecipientsSettled

-----------------------------------------------------------------------------
LEMMA RetriesInit == Init => Retries
  BY DEF Init, Retries, AttemptsKnown, GivenUpOnlyWhenExhausted

\* No statement lowers attempt_count, and the number a claim returns is the row's own.
LEMMA RetriesStep == TypeOK /\ Retries /\ [Next]_vars => Retries'
<1> SUFFICES ASSUME TypeOK, Retries, [Next]_vars PROVE Retries'
  OBVIOUS
<1>a. ASSUME UNCHANGED attempts, dead' \ Poison \subseteq dead,
             \A p \in Pollers : \A e \in Events : attempt'[p][e] \in {0, attempt[p][e]}
      PROVE  Retries'
  <2>1. AttemptsKnown'
    <3>1. ASSUME NEW p \in Pollers, NEW e \in Events PROVE attempt'[p][e] <= attempts[e]
      <4>1. attempt'[p][e] \in {0, attempt[p][e]} /\ attempt[p][e] <= attempts[e]
        BY <1>a DEF Retries, AttemptsKnown
      <4>2. attempts[e] \in Nat
        BY DEF TypeOK
      <4>3. QED
        BY <4>1, <4>2
    <3>2. QED
      BY <1>a, <3>1 DEF AttemptsKnown
  <2>2. GivenUpOnlyWhenExhausted'
    BY <1>a DEF Retries, GivenUpOnlyWhenExhausted
  <2>3. QED
    BY <2>1, <2>2 DEF Retries
<1> USE DEF TypeOK
<1>1. ASSUME NEW e \in Events, Emit(e) PROVE Retries'
  BY <1>1, <1>a DEF Emit, pollerVars
<1>2. ASSUME NEW e \in Events, BecomeDue(e) PROVE Retries'
  BY <1>2, <1>a DEF BecomeDue, pollerVars
<1>3. ASSUME NEW e \in Events, ExpireLease(e) PROVE Retries'
  BY <1>3, <1>a DEF ExpireLease
<1>4. CASE ChangeMembers
  BY <1>4, <1>a DEF ChangeMembers, rows, pollerVars
<1>5. ASSUME NEW p \in Pollers, Claim(p) PROVE Retries'
  <2>1. PICK batch \in SUBSET Events :
          /\ attempts' = [e \in Events |-> IF e \in batch THEN attempts[e] + 1 ELSE attempts[e]]
          /\ attempt' = [attempt EXCEPT ![p] =
                            [e \in Events |-> IF e \in batch THEN attempts[e] + 1 ELSE 0]]
    BY <1>5 DEF Claim
  <2>2. AttemptsKnown'
    BY <2>1 DEF Retries, AttemptsKnown
  <2>3. GivenUpOnlyWhenExhausted'
    BY <1>5, <2>1, OutboxAssumption DEF Claim, Retries, GivenUpOnlyWhenExhausted
  <2>4. QED
    BY <2>2, <2>3 DEF Retries
<1>6. ASSUME NEW p \in Pollers, Reject(p) PROVE Retries'
  BY <1>6, <1>a DEF Reject, Drop
<1>7. ASSUME NEW p \in Pollers, BeginDelivery(p) PROVE Retries'
  BY <1>7, <1>a DEF BeginDelivery, rows
<1>8. ASSUME NEW p \in Pollers, CommitDelivery(p) PROVE Retries'
  BY <1>8, <1>a DEF CommitDelivery, rows
<1>9. ASSUME NEW p \in Pollers, MarkPublished(p) PROVE Retries'
  BY <1>9, <1>a DEF MarkPublished, Drop
<1>10. ASSUME NEW p \in Pollers, GiveUp(p) PROVE Retries'
  <2>1. current[p] \in Events /\ attempts[current[p]] >= MaxAttempts
    BY <1>10, OutboxAssumption DEF GiveUp, Exhausted, Retries, AttemptsKnown
  <2>2. AttemptsKnown'
    BY <1>10 DEF GiveUp, Drop, Retries, AttemptsKnown
  <2>3. GivenUpOnlyWhenExhausted'
    BY <1>10, <2>1 DEF GiveUp, Retries, GivenUpOnlyWhenExhausted
  <2>4. QED
    BY <2>2, <2>3 DEF Retries
<1>11. ASSUME NEW p \in Pollers, ReleaseForRetry(p) PROVE Retries'
  BY <1>11, <1>a DEF ReleaseForRetry, Drop
<1>12. ASSUME NEW p \in Pollers, FinishPoll(p) PROVE Retries'
  BY <1>12, <1>a DEF FinishPoll, Stop, rows
<1>13. ASSUME NEW p \in Pollers, FailDelivery(p) PROVE Retries'
  BY <1>13, <1>a DEF FailDelivery, rows
<1>14. ASSUME NEW p \in Pollers, LoseCommitAnswer(p) PROVE Retries'
  BY <1>14, <1>a DEF LoseCommitAnswer, rows
<1>15. ASSUME NEW p \in Pollers, FailMark(p) PROVE Retries'
  BY <1>15, <1>a DEF FailMark, rows
<1>16. ASSUME NEW p \in Pollers, Crash(p) PROVE Retries'
  BY <1>16, <1>a DEF Crash, Stop, rows
<1>17. CASE UNCHANGED vars
  BY <1>17, <1>a DEF vars, rows, pollerVars
<1>18. QED
  BY <1>1, <1>2, <1>3, <1>4, <1>5, <1>6, <1>7, <1>8, <1>9, <1>10, <1>11, <1>12, <1>13,
     <1>14, <1>15, <1>16, <1>17 DEF Next, Environment, Progress, Misfortune

(***************************************************************************)
(* A routable event is never given up before MaxAttempts claims.           *)
(***************************************************************************)
THEOREM RetriesAreNotCutShort == Spec => []GivenUpOnlyWhenExhausted
<1>1. Init => TypeOK /\ Retries
  BY TypeInit, RetriesInit
<1>2. TypeOK /\ Retries /\ [Next]_vars => (TypeOK /\ Retries)'
  BY TypeStep, RetriesStep
<1>3. QED
  BY <1>1, <1>2, PTL DEF Spec, Retries

-----------------------------------------------------------------------------
\* The initial states of the queue are initial states of the promise.
LEMMA PromiseInit == Init => Promise!Init
  BY DEF Init, Promise!Init

\* Every step of the queue is a step of the promise or changes nothing it speaks of.
LEMMA PromiseStep == TypeOK /\ Delivery /\ [Next]_vars => [Promise!Next]_(Promise!vars)
<1> SUFFICES ASSUME TypeOK, Delivery, [Next]_vars PROVE [Promise!Next]_(Promise!vars)
  OBVIOUS
<1> USE OutboxAssumption DEF TypeOK
<1>a. CASE UNCHANGED <<stored, members, effectVars, published, dead>>
  BY <1>a DEF Promise!vars, effectVars
<1>1. ASSUME NEW e \in Events, Emit(e) PROVE Promise!Store(e)
  BY <1>1 DEF Emit, Promise!Store, effectVars
<1>2. CASE ChangeMembers
  BY <1>2 DEF ChangeMembers, Promise!Next, Promise!ChangeMembers, rows, effectVars
<1>3. ASSUME NEW p \in Pollers, step[p] = "effect", CommitEffect(current[p]),
             UNCHANGED <<rows, members>>
      PROVE  Promise!Next
  <2>1. current[p] \in stored \ ledger
    BY <1>3 DEF Delivery, Inserting
  <2>2. Promise!Deliver(current[p])
    BY <1>3, <2>1 DEF CommitEffect, Recipients, rows, Promise!Deliver, Delivery,
                      OnlyDeliveredNotify
  <2>3. QED
    BY <2>1, <2>2 DEF Promise!Next
<1>4. ASSUME NEW p \in Pollers, MarkPublished(p) PROVE Promise!Next
  <2>1. current[p] \in ledger
    BY <1>4 DEF MarkPublished, Delivery, MarkingDelivered
  <2>2. Promise!Publish(current[p])
    BY <1>4, <2>1 DEF MarkPublished, Promise!Publish, effectVars
  <2>3. QED
    BY <2>1, <2>2 DEF Promise!Next
<1>5. ASSUME NEW p \in Pollers, Reject(p) PROVE Promise!Next
  <2>1. PICK e \in claims[p] : dead' = dead \cup {e}
    BY <1>5 DEF Reject
  <2>2. e \in stored
    BY <2>1
  <2>3. Promise!GiveUp(e)
    BY <1>5, <2>1, <2>2 DEF Reject, Promise!GiveUp, effectVars
  <2>4. QED
    BY <2>2, <2>3 DEF Promise!Next
<1>6. ASSUME NEW p \in Pollers, GiveUp(p) PROVE Promise!Next
  <2>1. current[p] \in stored
    BY <1>6 DEF GiveUp, Steps
  <2>2. Promise!GiveUp(current[p])
    BY <1>6, <2>1 DEF GiveUp, Promise!GiveUp, effectVars
  <2>3. QED
    BY <2>1, <2>2 DEF Promise!Next
<1>7. QED
  <2>1. CASE UNCHANGED vars
    BY <2>1, <1>a DEF vars, rows
  <2>2. CASE Environment
    BY <2>2, <1>a, <1>1, <1>2 DEF Environment, BecomeDue, ExpireLease, Promise!Next
  <2>3. ASSUME NEW p \in Pollers, Progress(p) PROVE [Promise!Next]_(Promise!vars)
    BY <2>3, <1>a, <1>3, <1>4, <1>5, <1>6 DEF Progress, Claim, BeginDelivery,
       CommitDelivery, ReleaseForRetry, FinishPoll, rows
  <2>4. ASSUME NEW p \in Pollers, Misfortune(p) PROVE [Promise!Next]_(Promise!vars)
    BY <2>4, <1>a, <1>3 DEF Misfortune, FailDelivery, LoseCommitAnswer, FailMark, Crash, rows
  <2>5. QED
    BY <2>1, <2>2, <2>3, <2>4 DEF Next

(***************************************************************************)
(* The outbox implements exactly-once delivery.                            *)
(***************************************************************************)
THEOREM OutboxImplementsExactlyOnce == Spec => ImplementsExactlyOnce
  BY DeliveryInvariant, PromiseInit, PromiseStep, PTL DEF Spec, Promise!Spec,
     ImplementsExactlyOnce
=============================================================================
