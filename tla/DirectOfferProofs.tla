------------------------- MODULE DirectOfferProofs --------------------------
(***************************************************************************)
(* The safety of direct offers, for any contents, clocks and bounds.       *)
(***************************************************************************)
EXTENDS DirectOffer, SequenceTheorems, TLAPS

-----------------------------------------------------------------------------
(***************************************************************************)
(* The inductive invariant, row by row.                                    *)
(***************************************************************************)

\* Grants and response of a row agree with its state.  The coherence check says nothing of a
\* response before the state speaks of one; that there is none is what lets nobody start over
\* an answer.
Agrees(offer) ==
  /\ offer.granted = (IF Live(offer) THEN Capabilities ELSE {})
  /\ offer.state \in {"received", "viewed"} => offer.response = "none"
  /\ offer.state = "response_draft" => offer.response = "draft"
  /\ offer.state \in Answered => offer.response = "submitted"

\* The row's last reading is the row itself, so who knows the version knows the content.
Remembers(offer, reading) ==
  /\ reading[offer.version] = offer.content
  /\ offer.response = "submitted" =>
       offer.basis \in 1..offer.version /\ reading[offer.basis] = offer.content

OneLive == \A i, j \in DOMAIN offers : Live(offers[i]) /\ Live(offers[j]) => i = j

Inv ==
  /\ TypeOK
  /\ \A i \in DOMAIN offers : Agrees(offers[i]) /\ Remembers(offers[i], readings[i])
  /\ OneLive

\* What the commands read and never write.
Environment == now \in Times /\ callState \in {"open", "paused", "closed", "cancelled"}
               /\ callDeadline \in Deadlines

-----------------------------------------------------------------------------
(***************************************************************************)
(* Rows and readings.                                                      *)
(***************************************************************************)

LEMMA RowType == ASSUME TypeOK, NEW i \in DOMAIN offers PROVE offers[i] \in Offer
  BY ElementOfSeq DEF TypeOK

LEMMA OneMore ==
  ASSUME NEW S, NEW s \in Seq(S), NEW e \in S
  PROVE  /\ Append(s, e) \in Seq(S)
         /\ Len(Append(s, e)) = Len(s) + 1 /\ DOMAIN Append(s, e) = 1..(Len(s) + 1)
         /\ Append(s, e)[Len(s) + 1] = e
         /\ DOMAIN s = 1..Len(s) /\ Len(s) \in Nat
         /\ \A k \in 1..Len(s) : Append(s, e)[k] = s[k]
<1>1. /\ Append(s, e) \in Seq(S) /\ Len(Append(s, e)) = Len(s) + 1
      /\ Append(s, e)[Len(s) + 1] = e /\ \A k \in 1..Len(s) : Append(s, e)[k] = s[k]
  BY AppendProperties
<1>2. QED
  BY <1>1, LenProperties

LEMMA UpdateRow ==
  ASSUME NEW S, NEW s \in Seq(S), NEW i \in DOMAIN s, NEW e \in S
  PROVE  /\ [s EXCEPT ![i] = e] \in Seq(S)
         /\ Len([s EXCEPT ![i] = e]) = Len(s)
         /\ DOMAIN [s EXCEPT ![i] = e] = DOMAIN s
         /\ [s EXCEPT ![i] = e][i] = e
         /\ \A j \in DOMAIN s \ {i} : [s EXCEPT ![i] = e][j] = s[j]
  BY ExceptSeq

LEMMA NextVersionRow ==
  ASSUME TypeOK, NEW i \in DOMAIN offers, NEW row \in Offer
  PROVE  LET new == NextVersion(i, row)
         IN  /\ new \in Offer /\ new.version = offers[i].version + 1
             /\ new.state = row.state /\ new.granted = row.granted
             /\ new.response = row.response /\ new.content = row.content
             /\ new.basis = row.basis
<1>1. offers[i].version \in Nat
  BY RowType DEF Offer
<1>2. QED
  BY <1>1 DEF Offer, NextVersion

\* A command on one offer leaves the others, and the history, as they were.
LEMMA Changed ==
  ASSUME TypeOK, NEW i \in DOMAIN offers, NEW row \in Offer, Becomes(i, row)
  PROVE  /\ TypeOK'
         /\ DOMAIN offers' = DOMAIN offers
         /\ offers'[i].version = offers[i].version + 1
         /\ offers'[i].state = row.state /\ offers'[i].granted = row.granted
         /\ offers'[i].response = row.response /\ offers'[i].content = row.content
         /\ offers'[i].basis = row.basis
         /\ readings'[i][offers[i].version + 1] = row.content
         /\ \A k \in 1..offers[i].version : readings'[i][k] = readings[i][k]
         /\ \A j \in DOMAIN offers \ {i} : offers'[j] = offers[j] /\ readings'[j] = readings[j]
<1> DEFINE new == NextVersion(i, row)
<1> DEFINE Reading == Seq(Contents \cup {NoContent})
<1> DEFINE reading == Append(readings[i], row.content)
<1>1. /\ offers \in Seq(Offer) /\ readings \in Seq(Reading) /\ Len(readings) = Len(offers)
      /\ DOMAIN readings = DOMAIN offers
  BY LenProperties DEF TypeOK
<1>2. /\ offers[i].version \in Nat /\ row.content \in Contents \cup {NoContent}
      /\ readings[i] \in Reading /\ Len(readings[i]) = offers[i].version
  BY <1>1, RowType, ElementOfSeq DEF TypeOK, Offer
<1>3. /\ new \in Offer /\ new.version = offers[i].version + 1
      /\ new.state = row.state /\ new.granted = row.granted
      /\ new.response = row.response /\ new.content = row.content /\ new.basis = row.basis
  BY NextVersionRow
<1>4. /\ reading \in Reading /\ Len(reading) = offers[i].version + 1
      /\ reading[offers[i].version + 1] = row.content
      /\ \A k \in 1..offers[i].version : reading[k] = readings[i][k]
  BY <1>2, OneMore
<1>5. offers' = [offers EXCEPT ![i] = new] /\ readings' = [readings EXCEPT ![i] = reading]
  BY DEF Becomes
<1> HIDE DEF new, Reading, reading
<1>6. /\ offers' \in Seq(Offer) /\ Len(offers') = Len(offers) /\ DOMAIN offers' = DOMAIN offers
      /\ offers'[i] = new /\ \A j \in DOMAIN offers \ {i} : offers'[j] = offers[j]
  BY <1>1, <1>3, <1>5, UpdateRow
<1>7. /\ readings' \in Seq(Reading) /\ Len(readings') = Len(readings)
      /\ readings'[i] = reading /\ \A j \in DOMAIN offers \ {i} : readings'[j] = readings[j]
  BY <1>1, <1>4, <1>5, UpdateRow
<1>8. \A j \in DOMAIN offers' : Len(readings'[j]) = offers'[j].version
  BY <1>3, <1>4, <1>6, <1>7 DEF TypeOK
<1>9. TypeOK'
  BY <1>1, <1>6, <1>7, <1>8 DEF TypeOK, Becomes, Reading
<1>10. QED
  BY <1>3, <1>4, <1>6, <1>7, <1>9

\* A command keeps the invariant if the row it writes agrees with itself, was alive before if it
\* is alive, and answers with what some reader had read.
LEMMA KeptByChange ==
  ASSUME Inv, NEW i \in DOMAIN offers, NEW row \in Offer, Becomes(i, row),
         Agrees(row), Live(row) => Live(offers[i]),
         row.response = "submitted" =>
           row.basis \in 1..offers[i].version /\ readings[i][row.basis] = row.content
  PROVE  Inv'
<1>1. TypeOK /\ OneLive /\ \A j \in DOMAIN offers : Agrees(offers[j]) /\ Remembers(offers[j], readings[j])
  BY DEF Inv
<1>2. /\ TypeOK' /\ DOMAIN offers' = DOMAIN offers
      /\ offers'[i].version = offers[i].version + 1
      /\ offers'[i].state = row.state /\ offers'[i].granted = row.granted
      /\ offers'[i].response = row.response /\ offers'[i].content = row.content
      /\ offers'[i].basis = row.basis
      /\ readings'[i][offers[i].version + 1] = row.content
      /\ \A k \in 1..offers[i].version : readings'[i][k] = readings[i][k]
      /\ \A j \in DOMAIN offers \ {i} : offers'[j] = offers[j] /\ readings'[j] = readings[j]
  BY <1>1, Changed
<1>3. Agrees(offers'[i]) /\ (Live(offers'[i]) <=> Live(row))
  BY <1>2 DEF Agrees, Live
<1>4. offers[i].version \in Nat
  BY <1>1, RowType DEF Offer
<1>5. Remembers(offers'[i], readings'[i])
  BY <1>2, <1>4 DEF Remembers
<1>6. \A j \in DOMAIN offers' : Agrees(offers'[j]) /\ Remembers(offers'[j], readings'[j])
  BY <1>1, <1>2, <1>3, <1>5
<1>7. \A j \in DOMAIN offers : Live(offers'[j]) => Live(offers[j])
  BY <1>2, <1>3
<1>8. OneLive'
  BY <1>1, <1>2, <1>7 DEF OneLive
<1>9. QED
  BY <1>2, <1>6, <1>8 DEF Inv

-----------------------------------------------------------------------------
(***************************************************************************)
(* The commands.                                                           *)
(***************************************************************************)

LEMMA KeptByStartNegotiation ==
  ASSUME Inv, NEW i \in DOMAIN offers, StartNegotiation(i) PROVE Inv'
<1> DEFINE row == [offers[i] EXCEPT !.state = "negotiating"]
<1>1. offers[i] \in Offer /\ Agrees(offers[i]) /\ Remembers(offers[i], readings[i])
  BY RowType DEF Inv
<1>2. offers[i].state = "response_submitted" /\ Becomes(i, row)
  BY DEF StartNegotiation, Commands
<1>3. /\ row \in Offer /\ row.state = "negotiating" /\ row.granted = offers[i].granted
      /\ row.response = offers[i].response /\ row.content = offers[i].content
      /\ row.basis = offers[i].basis
  BY <1>1 DEF Offer, States, Answered
<1> HIDE DEF row
<1>4. Agrees(row) /\ Live(offers[i])
  BY <1>1, <1>2, <1>3 DEF Agrees, Live, Closed, Answered
<1>5. QED
  BY <1>1, <1>2, <1>3, <1>4, KeptByChange DEF Remembers

LEMMA KeptByClose ==
  ASSUME Inv, NEW i \in DOMAIN offers, NEW state \in Closed, Close(i, state) PROVE Inv'
<1> DEFINE row == Revoked([offers[i] EXCEPT !.state = state])
<1>1. offers[i] \in Offer /\ Agrees(offers[i]) /\ Remembers(offers[i], readings[i])
  BY RowType DEF Inv
<1>2. Becomes(i, row)
  BY DEF Close
<1>3. /\ row \in Offer /\ row.state = state /\ row.granted = {}
      /\ row.response = offers[i].response /\ row.content = offers[i].content
      /\ row.basis = offers[i].basis
  BY <1>1 DEF Offer, States, Revoked
<1> HIDE DEF row
<1>4. Agrees(row) /\ ~Live(row)
  BY <1>3 DEF Agrees, Live, Closed, Answered
<1>5. QED
  BY <1>1, <1>2, <1>3, <1>4, KeptByChange DEF Remembers

LEMMA KeptByView ==
  ASSUME Inv, NEW i \in DOMAIN offers, View(i) PROVE Inv'
<1> DEFINE row == [offers[i] EXCEPT !.state = "viewed"]
<1>1. offers[i] \in Offer /\ Agrees(offers[i])
  BY RowType DEF Inv
<1>2. offers[i].state = "received" /\ Becomes(i, row)
  BY DEF View, Recipient, Commands
<1>3. /\ row \in Offer /\ row.state = "viewed" /\ row.granted = offers[i].granted
      /\ row.response = offers[i].response
  BY <1>1 DEF Offer, States, OpenForResponse
<1> HIDE DEF row
<1>4. Agrees(row) /\ Live(offers[i]) /\ row.response # "submitted"
  BY <1>1, <1>2, <1>3 DEF Agrees, Live, Closed, Answered
<1>5. QED
  BY <1>2, <1>3, <1>4, KeptByChange

LEMMA KeptByStartResponse ==
  ASSUME Inv, NEW i \in DOMAIN offers, StartResponse(i) PROVE Inv'
<1>1. PICK at \in ApiClock, empty \in Contents \ Complete :
        /\ offers[i].state = "viewed"
        /\ Becomes(i, [offers[i] EXCEPT !.state = "response_draft", !.response = "draft",
                                        !.content = empty, !.started = at])
  BY Zenon DEF StartResponse, Recipient, Commands
<1> DEFINE row == [offers[i] EXCEPT !.state = "response_draft", !.response = "draft",
                                    !.content = empty, !.started = at]
<1>2. offers[i] \in Offer /\ Agrees(offers[i])
  BY RowType DEF Inv
<1>3. /\ row \in Offer /\ row.state = "response_draft" /\ row.granted = offers[i].granted
      /\ row.response = "draft"
  BY <1>2 DEF Offer, States, OpenForResponse, ApiClock
<1>4. Becomes(i, row)
  BY <1>1
<1> HIDE DEF row
<1>5. Agrees(row) /\ Live(offers[i])
  BY <1>1, <1>2, <1>3 DEF Agrees, Live, Closed, Answered
<1>6. QED
  BY <1>3, <1>4, <1>5, KeptByChange

LEMMA KeptByPatchResponse ==
  ASSUME Inv, NEW i \in DOMAIN offers, PatchResponse(i) PROVE Inv'
<1>1. PICK content \in Contents :
        /\ offers[i].state = "response_draft" /\ offers[i].response = "draft"
        /\ Becomes(i, [offers[i] EXCEPT !.content = content])
  BY DEF PatchResponse, Recipient, Commands
<1> DEFINE row == [offers[i] EXCEPT !.content = content]
<1>2. offers[i] \in Offer /\ Agrees(offers[i])
  BY RowType DEF Inv
<1>3. /\ row \in Offer /\ row.state = "response_draft" /\ row.granted = offers[i].granted
      /\ row.response = "draft"
  BY <1>1, <1>2 DEF Offer
<1>4. Becomes(i, row)
  BY <1>1
<1> HIDE DEF row
<1>5. Agrees(row) /\ Live(offers[i])
  BY <1>1, <1>2, <1>3 DEF Agrees, Live, Closed, Answered
<1>6. QED
  BY <1>3, <1>4, <1>5, KeptByChange

LEMMA KeptBySubmitResponse ==
  ASSUME Inv, NEW i \in DOMAIN offers, SubmitResponse(i) PROVE Inv'
<1> DEFINE row == [offers[i] EXCEPT !.state = "response_submitted", !.response = "submitted",
                                    !.basis = offers[i].version]
<1>1. offers[i] \in Offer /\ Agrees(offers[i]) /\ Remembers(offers[i], readings[i])
  BY RowType DEF Inv
<1>2. /\ offers[i].state = "response_draft" /\ offers[i].version \in 1..offers[i].version
      /\ Becomes(i, row)
  BY DEF SubmitResponse, Recipient, Commands, Fresh, Expected
<1>3. /\ row \in Offer /\ row.state = "response_submitted" /\ row.granted = offers[i].granted
      /\ row.response = "submitted" /\ row.content = offers[i].content
      /\ row.basis = offers[i].version
  BY <1>1 DEF Offer, States, Answered
<1> HIDE DEF row
<1>4. Agrees(row) /\ Live(offers[i])
  BY <1>1, <1>2, <1>3 DEF Agrees, Live, Closed, Answered
<1>5. QED
  BY <1>1, <1>2, <1>3, <1>4, KeptByChange DEF Remembers

LEMMA KeptBySend == ASSUME Inv, Send PROVE Inv'
<1>1. PICK deadline \in Deadlines, at \in ApiClock :
        /\ offers' = Append(offers, NewOffer(deadline, at))
        /\ readings' = Append(readings, <<NoContent>>)
  BY DEF Send
<1> DEFINE new == NewOffer(deadline, at)
<1>2. TypeOK /\ \A i \in DOMAIN offers : Agrees(offers[i]) /\ Remembers(offers[i], readings[i])
  BY DEF Inv
<1>3. new \in Offer /\ new.state = "received" /\ new.granted = Capabilities
      /\ new.response = "none" /\ new.version = 1 /\ new.content = NoContent
  BY <1>2 DEF TypeOK, NewOffer, Offer, States, OpenForResponse, ApiClock
<1> HIDE DEF new
<1>4. /\ offers \in Seq(Offer) /\ readings \in Seq(Seq(Contents \cup {NoContent}))
      /\ Len(readings) = Len(offers) /\ <<NoContent>> \in Seq(Contents \cup {NoContent})
      /\ Len(<<NoContent>>) = 1 /\ <<NoContent>>[1] = NoContent
  BY <1>2 DEF TypeOK
<1> DEFINE n == Len(offers) + 1
<1>5. /\ offers' \in Seq(Offer) /\ Len(offers') = n /\ DOMAIN offers' = 1..n
      /\ DOMAIN offers = 1..Len(offers) /\ Len(offers) \in Nat
      /\ offers'[n] = new /\ \A i \in DOMAIN offers : offers'[i] = offers[i]
  BY <1>1, <1>3, <1>4, OneMore DEF new
<1>6. /\ readings' \in Seq(Seq(Contents \cup {NoContent})) /\ Len(readings') = n
      /\ readings'[n] = <<NoContent>> /\ \A i \in DOMAIN offers : readings'[i] = readings[i]
  BY <1>1, <1>4, <1>5, OneMore
<1>7. DOMAIN offers' = DOMAIN offers \cup {n} /\ n \notin DOMAIN offers
  BY <1>5
<1> HIDE DEF n
<1>8. \A i \in DOMAIN offers' : Len(readings'[i]) = offers'[i].version
  BY <1>2, <1>3, <1>4, <1>5, <1>6, <1>7 DEF TypeOK
<1>9. Len(offers') <= MaxOffers
  BY <1>2, <1>5, DirectOfferAssumption DEF Send, TypeOK, n
<1>10. TypeOK'
  BY <1>2, <1>5, <1>6, <1>8, <1>9 DEF TypeOK, Send
<1>11. Agrees(new) /\ Remembers(new, <<NoContent>>)
  BY <1>3, <1>4 DEF Agrees, Remembers, Live, Closed, Answered
<1>12. \A i \in DOMAIN offers' : Agrees(offers'[i]) /\ Remembers(offers'[i], readings'[i])
  BY <1>2, <1>5, <1>6, <1>7, <1>11
<1>13. OneLive'
  BY <1>5, <1>7 DEF OneLive, Send, Waiting
<1>14. QED
  BY <1>10, <1>12, <1>13 DEF Inv

\* Only the live offer can be overdue, so marking the overdue ones closes that one.
LEMMA LapsedIsClosed ==
  ASSUME Inv, ExpireDue
  PROVE  \E i \in DOMAIN offers : offers[i].state \in OpenForResponse /\ Close(i, "expired")
<1>1. PICK at \in ApiClock :
        /\ Due(at) # {}
        /\ offers' = [i \in DOMAIN offers |->
             IF i \in Due(at)
             THEN NextVersion(i, Revoked([offers[i] EXCEPT !.state = "expired"]))
             ELSE offers[i]]
        /\ readings' = [i \in DOMAIN offers |->
             IF i \in Due(at) THEN Append(readings[i], offers[i].content) ELSE readings[i]]
  BY Zenon DEF ExpireDue
<1>2. PICK i \in DOMAIN offers : i \in Due(at)
  BY <1>1 DEF Due
<1>3. \A j \in Due(at) : j \in DOMAIN offers /\ offers[j].state \in OpenForResponse
  BY DEF Due, Overdue
<1>4. Due(at) = {i}
  BY <1>2, <1>3 DEF Inv, OneLive, Live, OpenForResponse, Closed
<1> DEFINE row == Revoked([offers[i] EXCEPT !.state = "expired"])
<1> DEFINE new == NextVersion(i, row)
<1>5. row.content = offers[i].content
  BY <1>2, RowType DEF Inv, Revoked, Offer
<1>6. offers' = [j \in DOMAIN offers |-> IF j = i THEN new ELSE offers[j]]
  BY <1>1, <1>4
<1>7. readings' = [j \in DOMAIN offers |-> IF j = i THEN Append(readings[i], row.content) ELSE readings[j]]
  BY <1>1, <1>4, <1>5
<1>8. /\ DOMAIN readings = DOMAIN offers
      /\ offers = [j \in DOMAIN offers |-> offers[j]]
      /\ readings = [j \in DOMAIN readings |-> readings[j]]
  BY LenProperties DEF Inv, TypeOK
<1> HIDE DEF row, new
<1>9. offers' = [offers EXCEPT ![i] = new] /\ readings' = [readings EXCEPT ![i] = Append(@, row.content)]
  BY <1>6, <1>7, <1>8
<1>10. Becomes(i, row)
  BY <1>9 DEF Becomes, new, ExpireDue
<1>11. QED
  BY <1>2, <1>3, <1>10 DEF Close, row

-----------------------------------------------------------------------------
(***************************************************************************)
(* The invariant, and what follows from it.                                *)
(***************************************************************************)

LEMMA InvInit == Init => Inv
<1> SUFFICES ASSUME Init PROVE Inv
  OBVIOUS
<1>1. offers = <<>> /\ readings = <<>> /\ DOMAIN offers = {}
  BY DEF Init
<1>2. TypeOK
  BY <1>1, DirectOfferAssumption DEF Init, TypeOK, Times
<1>3. QED
  BY <1>1, <1>2 DEF Inv, OneLive

LEMMA KeptByTheWorld == ASSUME Inv, CallMoves \/ Tick PROVE Inv'
<1>1. offers' = offers /\ readings' = readings
  BY DEF CallMoves, Tick
<1>2. TypeOK
  BY DEF Inv
<1>3. TypeOK'
  <2>1. CASE Tick
    BY <1>1, <1>2, <2>1, DirectOfferAssumption DEF Tick, TypeOK, Times
  <2>2. CASE CallMoves
    BY <1>1, <1>2, <2>2 DEF CallMoves, TypeOK, PublishedCall!Extend, PublishedCall!Move
  <2>3. QED
    BY <2>1, <2>2
<1>4. QED
  BY <1>1, <1>3 DEF Inv, OneLive, Agrees, Remembers, Live

LEMMA InvNext == Inv /\ [Next]_vars => Inv'
<1> SUFFICES ASSUME Inv, [Next]_vars PROVE Inv'
  OBVIOUS
<1>1. CASE CallMoves \/ Tick
  BY <1>1, KeptByTheWorld
<1>2. CASE Send
  BY <1>2, KeptBySend
<1>3. CASE ExpireDue
  BY <1>3, LapsedIsClosed, KeptByClose DEF Closed
<1>4. ASSUME NEW i \in DOMAIN offers,
             \/ StartNegotiation(i)
             \/ View(i) \/ StartResponse(i) \/ PatchResponse(i) \/ SubmitResponse(i)
             \/ Cancel(i) \/ Decline(i)
      PROVE  Inv'
  <2>1. Cancel(i) => Close(i, "cancelled")
    BY DEF Cancel
  <2>2. Decline(i) => Close(i, "declined")
    BY DEF Decline
  <2>3. QED
    BY <1>4, <2>1, <2>2, KeptByStartNegotiation, KeptByView, KeptByStartResponse,
       KeptByPatchResponse, KeptBySubmitResponse, KeptByClose DEF Closed
<1>5. CASE UNCHANGED vars
  BY <1>5 DEF vars, Inv, TypeOK, OneLive, Agrees, Remembers, Live
<1>6. QED
  BY <1>1, <1>2, <1>3, <1>4, <1>5 DEF Next

THEOREM Invariance == Spec => []Inv
  BY InvInit, InvNext, PTL DEF Spec

\* Every row of offers, responses and grants is of its type, and each version of an offer has its
\* reading, for any contents, clocks and bounds.
THEOREM TypeCorrect == Spec => []TypeOK
<1>1. Inv => TypeOK
  BY DEF Inv
<1>2. QED
  BY <1>1, Invariance, PTL

\* The coherence check and the unique index of the database never refuse a command: a closed
\* offer has no grant left, a live one both, and no two are alive, by whatever clock offers were
\* marked, withdrawn or answered (opportunities.ts, recipientCommand, senderCommand, expireDue).
THEOREM Coherence == Spec => []OffersAreCoherent
<1>1. Inv => OffersAreCoherent
  BY DEF Inv, OffersAreCoherent, OneLive, Agrees
<1>2. QED
  BY <1>1, Invariance, PTL

\* What a manager hands in is what that manager had read (opportunities.ts:958).
THEOREM NothingUnreadIsSubmitted == Spec => []SubmittedWhatWasRead
<1>1. ASSUME Inv, NEW i \in DOMAIN offers, offers[i].response = "submitted"
      PROVE  offers[i].basis \in DOMAIN readings[i] /\ readings[i][offers[i].basis] = offers[i].content
  <2>1. /\ readings[i] \in Seq(Contents \cup {NoContent}) /\ Len(readings[i]) = offers[i].version
        /\ Remembers(offers[i], readings[i])
    BY <1>1, LenProperties, ElementOfSeq DEF Inv, TypeOK
  <2>2. QED
    BY <1>1, <2>1, LenProperties DEF Remembers
<1>2. Inv => SubmittedWhatWasRead
  BY <1>1 DEF SubmittedWhatWasRead
<1>3. QED
  BY <1>2, Invariance, PTL

-----------------------------------------------------------------------------
(***************************************************************************)
(* What the parties see.                                                   *)
(***************************************************************************)

\* The parties see a change of one offer and nothing else.
LEMMA SeenChange ==
  ASSUME Inv, NEW i \in DOMAIN offers, NEW row \in Offer, Becomes(i, row)
  PROVE  /\ Dealings' = [Dealings EXCEPT ![i] = SeenBySender(row)]
         /\ SeenBySender(row) = SeenBySender(offers[i]) => Dealings' = Dealings
<1>1. /\ DOMAIN offers' = DOMAIN offers
      /\ offers'[i].state = row.state /\ offers'[i].response = row.response
      /\ offers'[i].content = row.content
      /\ \A j \in DOMAIN offers \ {i} : offers'[j] = offers[j]
  BY Changed DEF Inv
<1>2. SeenBySender(offers'[i]) = SeenBySender(row)
  BY <1>1 DEF SeenBySender
<1>3. \A j \in DOMAIN offers \ {i} : SeenBySender(offers'[j]) = SeenBySender(offers[j])
  BY <1>1
<1>4. QED
  BY <1>1, <1>2, <1>3, Zenon DEF Dealings

\* A move of the canonical machine is a change of the stage under the same answer.
LEMMA SeenMove ==
  ASSUME Inv, NEW i \in DOMAIN offers, NEW row \in Offer, Becomes(i, row),
         row.response = offers[i].response, row.content = offers[i].content,
         SeenBySender(row).stage \in {"negotiating", "declined", "expired", "cancelled"},
         <<SeenBySender(offers[i]).stage, SeenBySender(row).stage>> \in Parties!Moves
  PROVE  Parties!Move(i)
<1> DEFINE stage == SeenBySender(row).stage
<1>1. Dealings' = [Dealings EXCEPT ![i] = SeenBySender(row)] /\ i \in DOMAIN Dealings
      /\ Dealings[i] = SeenBySender(offers[i])
  BY SeenChange DEF Dealings
<1>2. SeenBySender(row) = [SeenBySender(offers[i]) EXCEPT !.stage = stage]
  BY DEF SeenBySender
<1> HIDE DEF stage
<1>3. Dealings' = [Dealings EXCEPT ![i].stage = stage]
  BY <1>1, <1>2
<1>4. QED
  BY <1>1, <1>3 DEF Parties!Move, stage

LEMMA CloseIsMove ==
  ASSUME Inv, NEW i \in DOMAIN offers, NEW state \in Closed, Close(i, state),
         offers[i].state \in OpenForResponse \/ (state = "cancelled" /\ Live(offers[i]))
  PROVE  Parties!Move(i)
<1> DEFINE row == Revoked([offers[i] EXCEPT !.state = state])
<1>1. offers[i] \in Offer
  BY RowType DEF Inv
<1>2. Becomes(i, row)
  BY DEF Close
<1>3. /\ row \in Offer /\ row.state = state
      /\ row.response = offers[i].response /\ row.content = offers[i].content
  BY <1>1 DEF Offer, States, Revoked
<1> HIDE DEF row
<1>4. SeenBySender(row).stage = state
  BY <1>3 DEF SeenBySender, Closed, OpenForResponse
<1>5. offers[i].state \in OpenForResponse => SeenBySender(offers[i]).stage = "open"
  BY DEF SeenBySender, OpenForResponse
<1>6. Live(offers[i]) => SeenBySender(offers[i]).stage \in Parties!Alive
  BY <1>1 DEF SeenBySender, Live, Offer, States, Answered, OpenForResponse, Parties!Alive
<1>7. <<SeenBySender(offers[i]).stage, SeenBySender(row).stage>> \in Parties!Moves
  BY <1>4, <1>5, <1>6 DEF Parties!Moves, Closed, Parties!Alive
<1>8. QED
  BY <1>2, <1>3, <1>4, <1>7, SeenMove DEF Closed

LEMMA NegotiationIsMove ==
  ASSUME Inv, NEW i \in DOMAIN offers, StartNegotiation(i) PROVE Parties!Move(i)
<1> DEFINE row == [offers[i] EXCEPT !.state = "negotiating"]
<1>1. offers[i] \in Offer
  BY RowType DEF Inv
<1>2. offers[i].state = "response_submitted" /\ Becomes(i, row)
  BY DEF StartNegotiation, Commands
<1>3. /\ row \in Offer /\ row.state = "negotiating"
      /\ row.response = offers[i].response /\ row.content = offers[i].content
  BY <1>1 DEF Offer, States, Answered
<1> HIDE DEF row
<1>4. SeenBySender(offers[i]).stage = "answered" /\ SeenBySender(row).stage = "negotiating"
  BY <1>2, <1>3 DEF SeenBySender, OpenForResponse
<1>5. QED
  BY <1>2, <1>3, <1>4, SeenMove DEF Parties!Moves

LEMMA SubmissionIsAnswer ==
  ASSUME Inv, NEW i \in DOMAIN offers, SubmitResponse(i) PROVE Parties!Answer(i)
<1> DEFINE row == [offers[i] EXCEPT !.state = "response_submitted", !.response = "submitted",
                                    !.basis = offers[i].version]
<1>1. offers[i] \in Offer
  BY RowType DEF Inv
<1>2. /\ offers[i].state = "response_draft" /\ offers[i].version \in 1..offers[i].version
      /\ offers[i].content \in Complete /\ Becomes(i, row)
  BY DEF SubmitResponse, Recipient, Commands, Fresh, Expected
<1>3. /\ row \in Offer /\ row.state = "response_submitted"
      /\ row.response = "submitted" /\ row.content = offers[i].content
  BY <1>1 DEF Offer, States, Answered
<1> HIDE DEF row
<1>4. /\ SeenBySender(row) = [stage |-> "answered", answer |-> offers[i].content]
      /\ SeenBySender(offers[i]).stage = "open"
  BY <1>2, <1>3 DEF SeenBySender, OpenForResponse
<1>5. /\ Dealings' = [Dealings EXCEPT ![i] = [stage |-> "answered", answer |-> offers[i].content]]
      /\ Dealings[i].stage = "open"
  BY <1>2, <1>3, <1>4, SeenChange DEF Dealings
<1>6. QED
  BY <1>2, <1>5 DEF Parties!Answer

\* The sender is shown nothing of what happens before the answer.
LEMMA DraftIsUnseen ==
  ASSUME Inv, NEW i \in DOMAIN offers, View(i) \/ StartResponse(i) \/ PatchResponse(i)
  PROVE  Dealings' = Dealings
<1>1. offers[i] \in Offer /\ Agrees(offers[i])
  BY RowType DEF Inv
<1>2. ASSUME NEW row \in Offer, Becomes(i, row), row.state \in OpenForResponse,
             row.response # "submitted", offers[i].state \in OpenForResponse
      PROVE  Dealings' = Dealings
  <2>1. offers[i].response # "submitted"
    BY <1>1, <1>2 DEF Agrees, OpenForResponse
  <2>2. SeenBySender(row) = SeenBySender(offers[i])
    BY <1>2, <2>1 DEF SeenBySender, OpenForResponse
  <2>3. QED
    BY <1>2, <2>2, SeenChange
<1>3. CASE View(i)
  <2> DEFINE row == [offers[i] EXCEPT !.state = "viewed"]
  <2>1. offers[i].state = "received" /\ Becomes(i, row)
    BY <1>3 DEF View, Recipient, Commands
  <2>2. row \in Offer /\ row.state = "viewed" /\ row.response = offers[i].response
    BY <1>1 DEF Offer, States, OpenForResponse
  <2> HIDE DEF row
  <2>3. QED
    BY <1>1, <1>2, <2>1, <2>2 DEF Agrees, OpenForResponse
<1>4. CASE StartResponse(i)
  <2>1. PICK at \in ApiClock, empty \in Contents \ Complete :
          /\ offers[i].state = "viewed"
          /\ Becomes(i, [offers[i] EXCEPT !.state = "response_draft", !.response = "draft",
                                          !.content = empty, !.started = at])
    BY <1>4, Zenon DEF StartResponse, Recipient, Commands
  <2> DEFINE row == [offers[i] EXCEPT !.state = "response_draft", !.response = "draft",
                                      !.content = empty, !.started = at]
  <2>2. row \in Offer /\ row.state = "response_draft" /\ row.response = "draft"
    BY <1>1 DEF Offer, States, OpenForResponse, ApiClock
  <2>3. Becomes(i, row)
    BY <2>1
  <2> HIDE DEF row
  <2>4. QED
    BY <1>2, <2>1, <2>2, <2>3 DEF OpenForResponse
<1>5. CASE PatchResponse(i)
  <2>1. PICK content \in Contents :
          /\ offers[i].state = "response_draft" /\ offers[i].response = "draft"
          /\ Becomes(i, [offers[i] EXCEPT !.content = content])
    BY <1>5 DEF PatchResponse, Recipient, Commands
  <2> DEFINE row == [offers[i] EXCEPT !.content = content]
  <2>2. row \in Offer /\ row.state = offers[i].state /\ row.response = offers[i].response
    BY <1>1 DEF Offer
  <2>3. Becomes(i, row)
    BY <2>1
  <2> HIDE DEF row
  <2>4. QED
    BY <1>2, <2>1, <2>2, <2>3 DEF OpenForResponse
<1>6. QED
  BY <1>3, <1>4, <1>5

LEMMA SendIsSend == ASSUME Inv, Send PROVE Parties!Send
<1>1. PICK deadline \in Deadlines, at \in ApiClock : offers' = Append(offers, NewOffer(deadline, at))
  BY DEF Send
<1> DEFINE new == NewOffer(deadline, at)
<1> DEFINE n == Len(offers) + 1
<1>2. TypeOK /\ offers \in Seq(Offer)
  BY DEF Inv, TypeOK
<1>3. new \in Offer /\ new.state = "received" /\ new.response = "none"
  BY <1>2 DEF TypeOK, NewOffer, Offer, States, OpenForResponse, ApiClock
<1> HIDE DEF new
<1>4. /\ DOMAIN offers' = 1..n /\ DOMAIN offers = 1..Len(offers) /\ Len(offers) \in Nat
      /\ offers'[n] = new /\ \A i \in DOMAIN offers : offers'[i] = offers[i]
  BY <1>1, <1>2, <1>3, OneMore DEF new
<1>5. SeenBySender(new) = Parties!Sent
  BY <1>3 DEF SeenBySender, Parties!Sent, OpenForResponse
<1> DEFINE Seen == {Dealings[i] : i \in DOMAIN offers} \cup {Parties!Sent}
<1>6. Dealings \in Seq(Seen) /\ Len(Dealings) = Len(offers)
  BY <1>4, SeqDef DEF Dealings
<1> HIDE DEF Seen
<1>7. Dealings' = Append(Dealings, Parties!Sent)
  <2>1. Append(Dealings, Parties!Sent) = [i \in 1..n |-> IF i = n THEN Parties!Sent ELSE Dealings[i]]
    <3> DEFINE more == Append(Dealings, Parties!Sent)
    <3>1. Parties!Sent \in Seen
      BY DEF Seen
    <3>2. /\ more \in Seq(Seen) /\ DOMAIN more = 1..n /\ more[n] = Parties!Sent
          /\ \A k \in 1..Len(offers) : more[k] = Dealings[k]
      BY <1>6, <3>1, OneMore
    <3> HIDE DEF more
    <3>3. more = [k \in DOMAIN more |-> more[k]]
      BY <3>2
    <3>4. QED
      BY <1>4, <3>2, <3>3 DEF more
  <2>2. \A i \in 1..n : SeenBySender(offers'[i]) = (IF i = n THEN Parties!Sent ELSE Dealings[i])
    BY <1>4, <1>5 DEF Dealings
  <2>3. Dealings' = [i \in 1..n |-> SeenBySender(offers'[i])]
    BY <1>4 DEF Dealings
  <2>4. QED
    BY <2>1, <2>2, <2>3
<1>8. \A i \in DOMAIN Dealings : Dealings[i].stage \notin Parties!Alive
  <2>1. \A i \in DOMAIN offers : offers[i].state \in Closed
    BY DEF Send, Waiting, Live
  <2>2. QED
    BY <2>1 DEF Dealings, SeenBySender, Closed, OpenForResponse, Parties!Alive
<1>9. QED
  BY <1>7, <1>8 DEF Parties!Send

\* To the parties every command is a move of the canonical machine or nothing: no draft is seen,
\* no answer lost or overwritten, and what is over stays over (opportunity.ts:69-156).
THEOREM OffersImplementTheMachine == Spec => KeepsToOffer
<1>1. Init => Parties!Begin
  BY DEF Init, Parties!Begin, Dealings
<1>2. ASSUME Inv, [Next]_vars PROVE [Parties!Deal]_Dealings
  <2>1. DOMAIN Dealings = DOMAIN offers
    BY DEF Dealings
  <2>2. CASE CallMoves \/ Tick \/ UNCHANGED vars
    BY <2>2 DEF CallMoves, Tick, vars, Dealings, SeenBySender
  <2>3. CASE Send
    BY <2>3, <1>2, SendIsSend DEF Parties!Deal
  <2>4. CASE ExpireDue
    <3>1. PICK i \in DOMAIN offers : offers[i].state \in OpenForResponse /\ Close(i, "expired")
      BY <1>2, <2>4, LapsedIsClosed
    <3>2. QED
      BY <1>2, <2>1, <3>1, CloseIsMove DEF Parties!Deal, Closed
  <2>5. ASSUME NEW i \in DOMAIN offers,
               \/ StartNegotiation(i)
               \/ View(i) \/ StartResponse(i) \/ PatchResponse(i) \/ SubmitResponse(i)
               \/ Cancel(i) \/ Decline(i)
        PROVE  [Parties!Deal]_Dealings
    <3>1. Cancel(i) => Parties!Move(i)
      <4>1. Cancel(i) => Close(i, "cancelled") /\ Live(offers[i])
        BY DEF Cancel, Commands, Live, OpenForResponse, Answered, Closed
      <4>2. QED
        BY <1>2, <4>1, CloseIsMove DEF Closed
    <3>2. Decline(i) => Parties!Move(i)
      <4>1. Decline(i) => Close(i, "declined") /\ offers[i].state \in OpenForResponse
        BY DEF Decline, Recipient, Commands
      <4>2. QED
        BY <1>2, <4>1, CloseIsMove DEF Closed
    <3>3. StartNegotiation(i) => Parties!Move(i)
      BY <1>2, NegotiationIsMove
    <3>4. SubmitResponse(i) => Parties!Answer(i)
      BY <1>2, SubmissionIsAnswer
    <3>5. View(i) \/ StartResponse(i) \/ PatchResponse(i) => Dealings' = Dealings
      BY <1>2, DraftIsUnseen
    <3>6. QED
      BY <2>1, <2>5, <3>1, <3>2, <3>3, <3>4, <3>5 DEF Parties!Deal
  <2>6. QED
    BY <1>2, <2>2, <2>3, <2>4, <2>5 DEF Next
<1>3. QED
  BY <1>1, <1>2, Invariance, PTL DEF Spec, KeepsToOffer, Parties!OfferSpec
=============================================================================
