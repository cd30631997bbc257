---------------------------- MODULE DirectOffer -----------------------------
(***************************************************************************)
(* The direct offers of one published call to one solver workspace, as the *)
(* PostgreSQL adapter and the constraints of its tables keep them          *)
(* (apps/api/src/postgres/opportunities.ts, migrations 0018 and 0021).     *)
(*                                                                         *)
(* A command is one transaction that holds the offer's row lock, or the    *)
(* advisory lock of a new offer, from its first read to its commit, so it  *)
(* is one step here.  It judges deadlines by the clock of the API host     *)
(* that serves it, which may be off by MaxSkew.  A command that is refused *)
(* or answered from a stored response changes nothing and is no step;      *)
(* permissions are no state of this component.                             *)
(*                                                                         *)
(* The call is the environment: it moves as Call lets it, which Challenge  *)
(* implements.                                                             *)
(***************************************************************************)
EXTENDS Integers, Sequences, FiniteSets

CONSTANTS
  Contents,   \* what a response may contain
  Complete,   \* the contents the readiness rule accepts
  NoContent,  \* the content of a response that is not there
  MaxTime,    \* bound: the last instant of a run
  MaxSkew,    \* bound: how far an API host's clock is off
  MaxOffers,  \* bound: the offers of a run
  MaxSaves    \* bound: how often a response draft is saved

ASSUME DirectOfferAssumption ==
  /\ Complete \subseteq Contents
  /\ NoContent \notin Contents
  /\ MaxTime \in Nat \ {0}
  /\ MaxSkew \in Nat
  /\ MaxOffers \in Nat
  /\ MaxSaves \in Nat

Times == 0..MaxTime
Deadlines == 1..(MaxTime + 1)

VARIABLES
  now,           \* the true time
  callState,     \* the call's publication state
  callDeadline,  \* the call's proposal deadline
  offers,        \* direct_offer, with its offer_response and its two grants
  readings       \* history: what each version of an offer had as its response

vars == <<now, callState, callDeadline, offers, readings>>

OpenForResponse == {"received", "viewed", "response_draft"}
Answered == {"response_submitted", "negotiating"}
Closed == {"declined", "expired", "cancelled"}
States == OpenForResponse \cup Answered \cup Closed

Capabilities == {"collaborate", "read"}

\* "granted" are the capabilities with an active grant, "until" is when both grants expire and
\* "basis" the expected_version the response was submitted with.
Offer == [state : States, version : Nat, deadline : Deadlines, created : Times,
          granted : SUBSET Capabilities, until : Deadlines,
          response : {"none", "draft", "submitted"}, content : Contents \cup {NoContent},
          started : Times, basis : Nat]

TypeOK ==
  /\ now \in Times
  /\ callState \in {"open", "paused", "closed", "cancelled"}
  /\ callDeadline \in Deadlines
  /\ offers \in Seq(Offer) /\ Len(offers) <= MaxOffers
  /\ readings \in Seq(Seq(Contents \cup {NoContent})) /\ Len(readings) = Len(offers)
  /\ \A i \in DOMAIN offers : Len(readings[i]) = offers[i].version

Init ==
  /\ now = 0
  /\ callState = "open"
  /\ callDeadline \in Deadlines
  /\ offers = <<>>
  /\ readings = <<>>

-----------------------------------------------------------------------------
(***************************************************************************)
(* The environment.                                                        *)
(***************************************************************************)

PublishedCall == INSTANCE Call WITH Terms <- {1}, terms <- 1, state <- callState,
                                    deadline <- callDeadline

CallMoves ==
  /\ PublishedCall!Extend \/ PublishedCall!Move
  /\ UNCHANGED <<now, offers, readings>>

Tick ==
  /\ now < MaxTime
  /\ now' = now + 1
  /\ UNCHANGED <<callState, callDeadline, offers, readings>>

ApiClock == {t \in Times : now - MaxSkew <= t /\ t <= now + MaxSkew}

-----------------------------------------------------------------------------
(***************************************************************************)
(* What the commands share.                                                *)
(***************************************************************************)

Live(offer) == offer.state \notin Closed

Overdue(offer, at) == offer.state \in OpenForResponse /\ offer.deadline <= at

\* Mutant of Fresh: the staleness check is dropped.
FreshAlways(i, expected) == TRUE

Fresh(i, expected) == expected = offers[i].version

NextVersion(i, row) == [row EXCEPT !.version = offers[i].version + 1]

\* The new row of an offer at its next version, and what its response says there.
Becomes(i, row) ==
  /\ offers' = [offers EXCEPT ![i] = NextVersion(i, row)]
  /\ readings' = [readings EXCEPT ![i] = Append(@, row.content)]
  /\ UNCHANGED <<now, callState, callDeadline>>

\* Every command on an offer: expected_version, the states it starts from, the response
\* deadline while the offer waits for a response, and CHECK (updated_at >= created_at).
Commands(i, from, expected, at) ==
  /\ Fresh(i, expected)
  /\ offers[i].state \in from
  /\ ~ Overdue(offers[i], at)
  /\ offers[i].created <= at

\* findReceived: the recipient needs its collaborate grant.
Reached(i, at) ==
  /\ "collaborate" \in offers[i].granted
  /\ at < offers[i].until

Recipient(i, from, expected, at) == Reached(i, at) /\ Commands(i, from, expected, at)

Expected(i) == 1..offers[i].version

-----------------------------------------------------------------------------
(***************************************************************************)
(* The organization's commands.                                            *)
(***************************************************************************)

NewOffer(deadline, at) ==
  [state |-> "received", version |-> 1, deadline |-> deadline, created |-> at,
   granted |-> Capabilities, until |-> callDeadline,
   response |-> "none", content |-> NoContent, started |-> at, basis |-> 0]

\* Mutant of Waiting: an offer that has been answered does not count any more.
WaitingForResponse == \E i \in DOMAIN offers : offers[i].state \in OpenForResponse

\* An overdue offer that nobody has marked as expired still counts.
Waiting == \E i \in DOMAIN offers : Live(offers[i])

Send ==
  /\ Len(offers) < MaxOffers
  /\ callState = "open"
  /\ ~ Waiting
  /\ \E deadline \in Deadlines, at \in ApiClock :
       /\ at < callDeadline
       /\ at < deadline /\ deadline <= callDeadline
       /\ offers' = Append(offers, NewOffer(deadline, at))
       /\ readings' = Append(readings, <<NoContent>>)
  /\ UNCHANGED <<now, callState, callDeadline>>

StartNegotiation(i) ==
  \E expected \in Expected(i), at \in ApiClock :
    /\ Commands(i, {"response_submitted"}, expected, at)
    /\ Becomes(i, [offers[i] EXCEPT !.state = "negotiating"])

Revoked(offer) == [offer EXCEPT !.granted = {}]

\* Closing an offer revokes both grants, or fails with them: its reason is within what both
\* tables take.
Close(i, state) == Becomes(i, Revoked([offers[i] EXCEPT !.state = state]))

Cancel(i) ==
  \E expected \in Expected(i), at \in ApiClock :
    /\ Commands(i, OpenForResponse \cup Answered, expected, at)
    /\ Close(i, "cancelled")

-----------------------------------------------------------------------------
(***************************************************************************)
(* The recipient's commands.                                               *)
(***************************************************************************)

View(i) ==
  \E expected \in Expected(i), at \in ApiClock :
    /\ Recipient(i, {"received"}, expected, at)
    /\ Becomes(i, [offers[i] EXCEPT !.state = "viewed"])

StartResponse(i) ==
  \E expected \in Expected(i), at \in ApiClock, empty \in Contents \ Complete :
    /\ Recipient(i, {"viewed"}, expected, at)
    /\ Becomes(i, [offers[i] EXCEPT !.state = "response_draft", !.response = "draft",
                                    !.content = empty, !.started = at])

Saves(i) == Cardinality({n \in DOMAIN readings[i] : readings[i][n] # NoContent}) - 1

PatchResponse(i) ==
  \E expected \in Expected(i), at \in ApiClock, content \in Contents :
    /\ Recipient(i, {"response_draft"}, expected, at)
    /\ Saves(i) < MaxSaves
    /\ offers[i].response = "draft" /\ offers[i].started <= at
    /\ Becomes(i, [offers[i] EXCEPT !.content = content])

SubmitResponse(i) ==
  \E expected \in Expected(i), at \in ApiClock :
    /\ Recipient(i, {"response_draft"}, expected, at)
    /\ offers[i].response = "draft" /\ offers[i].started <= at
    /\ offers[i].content \in Complete
    /\ Becomes(i, [offers[i] EXCEPT !.state = "response_submitted", !.response = "submitted",
                                    !.basis = expected])

Decline(i) ==
  \E expected \in Expected(i), at \in ApiClock :
    /\ Recipient(i, OpenForResponse, expected, at)
    /\ Close(i, "declined")

-----------------------------------------------------------------------------
\* Mutant of Due: every live offer lapses at its deadline, answered or not.
DueAnswered(at) == {i \in DOMAIN offers : Live(offers[i]) /\ offers[i].deadline <= at}

Due(at) == {i \in DOMAIN offers : Overdue(offers[i], at)}

\* expireDue, when someone lists offers or the organization reads one: a recipient who reads
\* an overdue offer is answered 404, and that rolls the expiry back.
ExpireDue ==
  /\ \E at \in ApiClock :
       /\ Due(at) # {}
       /\ offers' = [i \in DOMAIN offers |->
            IF i \in Due(at)
            THEN NextVersion(i, Revoked([offers[i] EXCEPT !.state = "expired"]))
            ELSE offers[i]]
       /\ readings' = [i \in DOMAIN offers |->
            IF i \in Due(at) THEN Append(readings[i], offers[i].content) ELSE readings[i]]
  /\ UNCHANGED <<now, callState, callDeadline>>

-----------------------------------------------------------------------------
Next ==
  \/ CallMoves
  \/ Tick
  \/ Send
  \/ ExpireDue
  \/ \E i \in DOMAIN offers :
       \/ StartNegotiation(i)
       \/ View(i) \/ StartResponse(i) \/ PatchResponse(i) \/ SubmitResponse(i)
       \/ Cancel(i) \/ Decline(i)

Spec == Init /\ [][Next]_vars

-----------------------------------------------------------------------------
(***************************************************************************)
(* Properties.                                                             *)
(***************************************************************************)

(***************************************************************************)
(* What the deferred coherence check (0018:427-466) and the unique index   *)
(* on live offers demand is true at every commit: two active grants for a  *)
(* live offer and none for a closed one, the response the state speaks of, *)
(* and one live offer at most, whoever marked, withdrew or answered which  *)
(* offer by which clock.                                                   *)
(***************************************************************************)
OffersAreCoherent ==
  /\ \A i \in DOMAIN offers :
       /\ offers[i].granted = (IF Live(offers[i]) THEN Capabilities ELSE {})
       /\ offers[i].state = "response_draft" => offers[i].response = "draft"
       /\ offers[i].state \in Answered => offers[i].response = "submitted"
  /\ \A i, j \in DOMAIN offers : Live(offers[i]) /\ Live(offers[j]) => i = j

(***************************************************************************)
(* A contributor may edit a response but not submit it: what a manager     *)
(* submits is what that manager had read, whatever was saved meanwhile.    *)
(***************************************************************************)
SubmittedWhatWasRead ==
  \A i \in DOMAIN offers :
    offers[i].response = "submitted" =>
      /\ offers[i].basis \in DOMAIN readings[i]
      /\ readings[i][offers[i].basis] = offers[i].content

(***************************************************************************)
(* To the parties the offers follow the canonical machine of               *)
(* opportunity.ts:69-156: the sender sees no draft (senderProjection), no  *)
(* answer is lost to a clock or overwritten, no closed offer returns.      *)
(***************************************************************************)
SeenBySender(offer) ==
  [stage |-> CASE offer.state \in OpenForResponse -> "open"
               [] offer.state = "response_submitted" -> "answered"
               [] OTHER -> offer.state,
   answer |-> IF offer.response = "submitted" THEN offer.content ELSE NoContent]

Dealings == [i \in DOMAIN offers |-> SeenBySender(offers[i])]

Parties == INSTANCE Offer WITH Answers <- Complete, NoAnswer <- NoContent, dealings <- Dealings

KeepsToOffer == Parties!OfferSpec
=============================================================================
