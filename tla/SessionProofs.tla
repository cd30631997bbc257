--------------------------- MODULE SessionProofs ----------------------------
(***************************************************************************)
(* Proofs about Session for any number of pages, authorizations,           *)
(* assertions and workspaces, any versions and any number of faults.       *)
(*                                                                         *)
(* The invariant is a statement about each page's request; it is written   *)
(* with the tables it speaks of as parameters (ss for sessions, ex for     *)
(* exchanged, re for reachable), so that before and after a step are two   *)
(* values of one operator.                                                 *)
(***************************************************************************)
EXTENDS Session, TLAPS

\* No token is newer than the newest that its session has issued.
Issued(ss, token) == token # NoToken => token.issue <= ss[token.of].issue

UsableIn(ss, token) ==
  /\ token # NoToken
  /\ ss[token.of].issue = token.issue
  /\ ~ss[token.of].revoked
  /\ ss[token.of].life = "fresh"

\* What an authorized command relies on.
Authorized(ss, re, r) ==
  /\ ss[r.access.of].issue = r.access.issue
  /\ ~ss[r.access.of].revoked
  /\ ss[r.access.of].version = r.seen
  /\ ss[r.access.of].active = r.workspace
  /\ r.workspace \in re

InCallback == {"exchanging", "identified", "creating"}
InSession == {"authenticated", "locked"}

\* What is stored under a request's key is what the handler will find when it is sent again.
Repeatable(ss, ex, r) ==
  \/ r.doing = "refresh" /\ ~UsableIn(ss, r.access)
  \/ r.doing # "refresh" /\ r.click \in {"contact", "activate"}
  \/ r.doing # "refresh" /\ r.click = "callback" /\ r.flow = r.proof /\ ex[r.proof] = r.stored

\* A request is at a step of its own handler, bears what its handler needs and no token that was
\* not issued.
Fits(r, ss, ex, re) ==
  /\ r.click = "callback" => r.proof \in Authorizations
  /\ r.click \in {"contact", "activate"} => r.proof \in Assertions
  /\ r.at \in InCallback =>
       r.click = "callback" /\ r.doing # "refresh" /\ r.flow = r.proof /\ r.stored = NoToken
  /\ r.at \in InSession => r.click \notin SignsIn /\ r.doing # "refresh" /\ r.access # NoToken
  /\ r.at = "locked" => r.click = "command" /\ Authorized(ss, re, r)
  /\ r.stored # NoToken => Repeatable(ss, ex, r)
  /\ Issued(ss, r.access) /\ Issued(ss, r.refresh)
  /\ Issued(ss, r.stored) /\ Issued(ss, r.answer.token)

\* Only what has been used up has opened a session; a session that can be used has versions left.
Opened ==
  /\ \A a \in Authorizations :
       attempt[a] # "consumed" => sessions[a] = NoRow /\ exchanged[a] = NoToken
  /\ \A p \in Assertions \ used : sessions[p] = NoRow
  /\ \A p \in Proofs : ~sessions[p].revoked => sessions[p].version <= MaxVersion

TokensIssued ==
  /\ Issued(sessions, jar.access) /\ Issued(sessions, jar.refresh)
  /\ \A a \in Authorizations : Issued(sessions, exchanged[a])

RequestsFit == \A t \in Tabs : Fits(tab[t], sessions, exchanged, reachable)

Inv == TypeOK /\ Opened /\ TokensIssued /\ RequestsFit
-----------------------------------------------------------------------------
(* What happens to a request. *)

\* A step on page t leaves the requests of the other pages alone.
Turns(t) ==
  /\ tab' \in [Tabs -> Request]
  /\ \A s \in Tabs \ {t} : tab'[s] = tab[s]

\* r is the same request as s, perhaps further on.
Same(r, s) ==
  /\ r.click = s.click /\ r.doing = s.doing /\ r.proof = s.proof /\ r.flow = s.flow
  /\ r.workspace = s.workspace /\ r.access = s.access /\ r.refresh = s.refresh /\ r.seen = s.seen

Ended(s, r, answer) ==
  \/ r = Idle
  \/ r.at = "answered" /\ r.answer = answer /\ r.stored = s.stored /\ Same(r, s)

LEMMA TokenTypes ==
  /\ NoToken \in Tokens
  /\ \A k \in Tokens : k.issue \in Nat /\ (k # NoToken => k.of \in Proofs /\ k.issue \in 1..MaxVersion)
  /\ \A p \in Proofs, n \in 1..MaxVersion :
       [of |-> p, issue |-> n] \in Tokens /\ [of |-> p, issue |-> n] # NoToken
BY SessionAssumption DEF Tokens, NoToken

LEMMA AnswerTypes ==
  /\ NoAnswer \in Answer /\ NoAnswer.token = NoToken
  /\ \A sets \in {"keep", "clear", "tokens"}, k \in Tokens :
       /\ Ok(sets, k) \in Answer /\ Ok(sets, k).token = k
       /\ Fail(sets) \in Answer /\ Fail(sets).token = NoToken
       /\ \A hint \in BOOLEAN : /\ [Fail(sets) EXCEPT !.hint = hint] \in Answer
                                /\ [Fail(sets) EXCEPT !.hint = hint].token = NoToken
BY TokenTypes DEF Answer, NoAnswer, Ok, Fail

LEMMA IdleFits ==
  /\ Idle \in Request
  /\ \A ss, ex, re : Fits(Idle, ss, ex, re)
<1>1. Idle \in Request
  <2>1. 0 \in 0..MaxVersion
    BY SessionAssumption
  <2> QED
    BY <2>1, TokenTypes, AnswerTypes DEF Idle, Request, Clicks
<1>2. \A ss, ex, re : Fits(Idle, ss, ex, re)
  BY AnswerTypes DEF Idle, Fits, Issued, InCallback, InSession
<1> QED
  BY <1>1, <1>2

LEMMA AnswersEnds ==
  ASSUME TypeOK, NEW t \in Tabs, NEW answer \in Answer, Answers(t, answer)
  PROVE  Turns(t) /\ Ended(tab[t], tab'[t], answer)
<1>1. tab[t] \in Request /\ tab \in [Tabs -> Request]
  BY DEF TypeOK
<1> DEFINE new == [tab[t] EXCEPT !.at = "answered", !.answer = answer]
<1>2. new \in Request /\ new.at = "answered" /\ new.answer = answer /\ new.stored = tab[t].stored /\ Same(new, tab[t])
  BY <1>1 DEF Request, Same
<1>3. tab' = [tab EXCEPT ![t] = Idle] \/ tab' = [tab EXCEPT ![t] = new]
  BY DEF Answers
<1> HIDE DEF new
<1> QED
  BY <1>1, <1>2, <1>3, IdleFits DEF Turns, Ended

LEMMA StoredTurns ==
  ASSUME TypeOK, NEW t \in Tabs, NEW token \in Tokens, Stored(t, token)
  PROVE  /\ Turns(t) /\ Same(tab'[t], tab[t])
         /\ tab'[t].at = "answered" /\ tab'[t].answer = Ok("tokens", token) /\ tab'[t].stored = token
<1>1. tab[t] \in Request /\ tab \in [Tabs -> Request]
  BY DEF TypeOK
<1>2. Ok("tokens", token) \in Answer
  BY AnswerTypes
<1> DEFINE new == [tab[t] EXCEPT !.at = "answered", !.answer = Ok("tokens", token), !.stored = token]
<1>3. /\ new \in Request /\ new.at = "answered" /\ new.answer = Ok("tokens", token)
      /\ new.stored = token /\ Same(new, tab[t])
  BY <1>1, <1>2 DEF Request, Same
<1>4. tab' = [tab EXCEPT ![t] = new]
  BY <1>1 DEF Stored
<1> HIDE DEF new
<1> QED
  BY <1>1, <1>3, <1>4 DEF Turns

LEMMA ReachesTurns ==
  ASSUME TypeOK, NEW t \in Tabs, NEW at \in InCallback \cup InSession, Reaches(t, at)
  PROVE  /\ Turns(t) /\ Same(tab'[t], tab[t])
         /\ tab'[t].at = at /\ tab'[t].answer = tab[t].answer /\ tab'[t].stored = tab[t].stored
<1>1. tab[t] \in Request /\ tab \in [Tabs -> Request]
  BY DEF TypeOK
<1> DEFINE new == [tab[t] EXCEPT !.at = at]
<1>2. /\ new \in Request /\ new.at = at /\ new.answer = tab[t].answer
      /\ new.stored = tab[t].stored /\ Same(new, tab[t])
  BY <1>1 DEF Request, Same, InCallback, InSession
<1>3. tab' = [tab EXCEPT ![t] = new]
  BY <1>1 DEF Reaches
<1> HIDE DEF new
<1> QED
  BY <1>1, <1>2, <1>3 DEF Turns

LEMMA EndedFits ==
  ASSUME NEW s \in Request, NEW r \in Request, NEW answer \in Answer, Ended(s, r, answer),
         NEW ss, NEW ex, NEW re, Fits(s, ss, ex, re), Issued(ss, answer.token)
  PROVE  Fits(r, ss, ex, re)
<1>1. CASE r = Idle
  BY <1>1, IdleFits
<1>2. CASE r.at = "answered" /\ r.answer = answer /\ r.stored = s.stored /\ Same(r, s)
  BY <1>2 DEF Fits, Same, InCallback, InSession, Repeatable
<1> QED
  BY <1>1, <1>2 DEF Ended
-----------------------------------------------------------------------------
(* What happens to a session. *)

\* A row changes so that no token it refused is accepted afterwards, but the ones it issues.
Grown(old, new) ==
  /\ new \in Row
  /\ new.issue <= new.version
  /\ ~new.revoked => new.version <= MaxVersion
  /\ \/ new.issue > old.issue
     \/ /\ new.issue = old.issue
        /\ old.revoked => new.revoked
        /\ new.life = "fresh" => old.life = "fresh"

LEMMA StillIssued ==
  ASSUME NEW ss \in [Proofs -> Row], NEW p \in Proofs, NEW row, Grown(ss[p], row),
         NEW token \in Tokens, Issued(ss, token)
  PROVE  Issued([ss EXCEPT ![p] = row], token)
<1>1. token # NoToken => token.of \in Proofs /\ token.issue \in Nat
  BY TokenTypes
<1>2. \A q \in Proofs : ss[q].issue \in Nat
  BY SessionAssumption DEF Row
<1>3. row.issue \in Nat /\ row.issue >= ss[p].issue
  BY <1>2, SessionAssumption DEF Grown, Row
<1> QED
  BY <1>1, <1>2, <1>3 DEF Issued

LEMMA StillUnusable ==
  ASSUME NEW ss \in [Proofs -> Row], NEW p \in Proofs, NEW row, Grown(ss[p], row),
         NEW token \in Tokens, Issued(ss, token), ~UsableIn(ss, token)
  PROVE  ~UsableIn([ss EXCEPT ![p] = row], token)
<1>1. token # NoToken => token.of \in Proofs /\ token.issue \in Nat
  BY TokenTypes
<1>2. ss[p].issue \in Nat /\ row.issue \in Nat
  BY SessionAssumption DEF Grown, Row
<1>3. CASE token # NoToken /\ token.of = p
  BY <1>1, <1>2, <1>3 DEF UsableIn, Grown, Issued
<1>4. CASE token = NoToken \/ token.of # p
  BY <1>1, <1>4 DEF UsableIn
<1> QED
  BY <1>3, <1>4

\* The other requests stay as they should be, unless one of them relies on the row.
LEMMA OthersFit ==
  ASSUME NEW ss \in [Proofs -> Row], NEW p \in Proofs, NEW row, Grown(ss[p], row),
         NEW ex, NEW ex2, \A a \in Authorizations : ex[a] # NoToken => ex2[a] = ex[a],
         NEW re, NEW re2, re \subseteq re2,
         NEW r \in Request, Fits(r, ss, ex, re),
         r.at = "locked" => Authorized([ss EXCEPT ![p] = row], re, r)
  PROVE  Fits(r, [ss EXCEPT ![p] = row], ex2, re2)
<1> DEFINE ss2 == [ss EXCEPT ![p] = row]
<1>1. r.access \in Tokens /\ r.refresh \in Tokens /\ r.stored \in Tokens /\ r.answer.token \in Tokens
  BY DEF Request, Answer
<1>2. Issued(ss2, r.access) /\ Issued(ss2, r.refresh) /\ Issued(ss2, r.stored) /\ Issued(ss2, r.answer.token)
  BY <1>1, StillIssued DEF Fits
<1>3. r.at = "locked" => r.click = "command" /\ Authorized(ss2, re2, r)
  BY DEF Fits, Authorized
<1>4. r.stored # NoToken => Repeatable(ss2, ex2, r)
  <2> SUFFICES ASSUME r.stored # NoToken PROVE Repeatable(ss2, ex2, r)
    OBVIOUS
  <2>1. Repeatable(ss, ex, r)
    BY DEF Fits
  <2>2. CASE r.doing = "refresh" /\ ~UsableIn(ss, r.access)
    <3>1. ~UsableIn(ss2, r.access)
      BY <1>1, <2>2, StillUnusable DEF Fits
    <3> QED
      BY <2>2, <3>1 DEF Repeatable
  <2>3. CASE r.doing # "refresh" /\ r.click \in {"contact", "activate"}
    BY <2>3 DEF Repeatable
  <2>4. CASE r.doing # "refresh" /\ r.click = "callback" /\ r.flow = r.proof /\ ex[r.proof] = r.stored
    BY <2>4 DEF Repeatable, Fits
  <2> QED
    BY <2>1, <2>2, <2>3, <2>4 DEF Repeatable
<1> QED
  BY <1>2, <1>3, <1>4 DEF Fits
-----------------------------------------------------------------------------
(* Steps that move requests only. *)

LEMMA QuietStep ==
  ASSUME Inv, NEW t \in Tabs, Turns(t),
         Fits(tab'[t], sessions, exchanged, reachable),
         UNCHANGED <<proofs, signIn, browser, sessions, reachable>>, faults' \in 0..MaxFaults
  PROVE  Inv'
<1> USE DEF Inv, signIn, browser
<1>1. TypeOK'
  BY DEF TypeOK, Turns
<1>2. Opened' /\ TokensIssued'
  BY DEF Opened, TokensIssued
<1>3. RequestsFit'
  <2> SUFFICES ASSUME NEW s \in Tabs PROVE Fits(tab'[s], sessions', exchanged', reachable')
    BY DEF RequestsFit
  <2> QED
    BY DEF Turns, RequestsFit
<1> QED
  BY <1>1, <1>2, <1>3

LEMMA AnswerFits ==
  ASSUME Inv, NEW t \in Tabs, NEW answer \in Answer, Issued(sessions, answer.token),
         Answers(t, answer)
  PROVE  Turns(t) /\ Fits(tab'[t], sessions, exchanged, reachable)
<1>1. Turns(t) /\ Ended(tab[t], tab'[t], answer)
  BY AnswersEnds DEF Inv
<1>2. tab[t] \in Request /\ tab'[t] \in Request /\ Fits(tab[t], sessions, exchanged, reachable)
  BY <1>1 DEF Inv, TypeOK, Turns, RequestsFit
<1> QED
  BY <1>1, <1>2, EndedFits

LEMMA FailFits ==
  ASSUME Inv, NEW t \in Tabs, NEW sets \in {"keep", "clear", "tokens"},
         Answers(t, Fail(sets)) \/ Answers(t, Ok(sets, NoToken)) \/ Deny(t, sets)
  PROVE  Turns(t) /\ Fits(tab'[t], sessions, exchanged, reachable)
<1> DEFINE hint == tab[t].access = NoToken /\ tab[t].refresh # NoToken
<1>1. \E answer \in Answer : answer.token = NoToken /\ Answers(t, answer)
  <2>1. hint \in BOOLEAN
    OBVIOUS
  <2>2. CASE Deny(t, sets)
    BY <2>1, <2>2, TokenTypes, AnswerTypes DEF Deny
  <2>3. CASE Answers(t, Fail(sets)) \/ Answers(t, Ok(sets, NoToken))
    BY <2>3, TokenTypes, AnswerTypes
  <2> QED
    BY <2>2, <2>3
<1> QED
  BY <1>1, AnswerFits DEF Issued

LEMMA TokensFit ==
  ASSUME Inv, NEW t \in Tabs, NEW token \in Tokens, Issued(sessions, token),
         Answers(t, Ok("tokens", token))
  PROVE  Turns(t) /\ Fits(tab'[t], sessions, exchanged, reachable)
BY AnswerTypes, AnswerFits

\* The callback's request goes on from one transaction to the next.
LEMMA CallbackGoesOn ==
  ASSUME Inv, NEW t \in Tabs, NEW at \in InCallback, Reaches(t, at),
         tab[t].click = "callback", tab[t].doing # "refresh", tab[t].flow = tab[t].proof,
         tab[t].stored = NoToken
  PROVE  Turns(t) /\ Fits(tab'[t], sessions, exchanged, reachable)
<1>1. /\ Turns(t) /\ Same(tab'[t], tab[t])
      /\ tab'[t].at = at /\ tab'[t].answer = tab[t].answer /\ tab'[t].stored = tab[t].stored
  BY ReachesTurns DEF Inv
<1>2. Fits(tab[t], sessions, exchanged, reachable)
  BY DEF Inv, RequestsFit
<1> QED
  BY <1>1, <1>2 DEF Same, Fits, InCallback, InSession

LEMMA ReceiveCallbackStep ==
  ASSUME Inv, NEW t \in Tabs, ReceiveCallback(t) PROVE Inv'
<1> DEFINE a == tab[t].proof
<1>1. Fits(tab[t], sessions, exchanged, reachable)
  BY DEF Inv, RequestsFit
<1>2. tab[t].click = "callback" /\ tab[t].doing # "refresh" /\ a \in Authorizations
  BY <1>1 DEF ReceiveCallback, Receives, Asked, Refreshes, Fits
<1>3. exchanged[a] \in Tokens /\ Issued(sessions, exchanged[a])
  BY <1>2 DEF Inv, TypeOK, TokensIssued
<1>4. Turns(t) /\ Fits(tab'[t], sessions, exchanged, reachable)
  <2>1. CASE Answers(t, Fail("keep"))
    BY <2>1, FailFits
  <2>2. CASE Answers(t, Ok("tokens", exchanged[a]))
    BY <1>3, <2>2, TokensFit
  <2>3. CASE tab[t].flow = a /\ exchanged[a] = NoToken /\ Reaches(t, "exchanging")
    <3>1. tab[t].stored = NoToken
      BY <1>1, <1>2, <2>3 DEF Fits, Repeatable
    <3> QED
      BY <1>2, <2>3, <3>1, CallbackGoesOn DEF InCallback
  <2> QED
    BY <2>1, <2>2, <2>3 DEF ReceiveCallback
<1>5. UNCHANGED <<proofs, signIn, browser, sessions, reachable>> /\ faults' \in 0..MaxFaults
  BY DEF ReceiveCallback, Inv, TypeOK
<1> QED
  BY <1>4, <1>5, QuietStep

\* A request under way in the callback is that of an authorization.
LEMMA InCallbackIs ==
  ASSUME Inv, NEW t \in Tabs, tab[t].at \in InCallback
  PROVE  /\ tab[t].click = "callback" /\ tab[t].doing # "refresh" /\ tab[t].stored = NoToken
         /\ tab[t].flow = tab[t].proof
         /\ tab[t].proof \in Authorizations
         /\ exchanged[tab[t].proof] \in Tokens /\ Issued(sessions, exchanged[tab[t].proof])
BY DEF Inv, RequestsFit, Fits, TypeOK, TokensIssued

LEMMA LookAgainStep ==
  ASSUME Inv, NEW t \in Tabs, LookAgain(t) PROVE Inv'
<1> DEFINE a == tab[t].proof
<1>1. tab[t].at \in InCallback
  BY DEF LookAgain, InCallback
<1>2. Turns(t) /\ Fits(tab'[t], sessions, exchanged, reachable)
  <2>1. CASE Answers(t, Ok("tokens", exchanged[a]))
    BY <1>1, <2>1, InCallbackIs, TokensFit
  <2>2. CASE Reaches(t, "creating")
    BY <1>1, <2>2, InCallbackIs, CallbackGoesOn DEF InCallback
  <2> QED
    BY <2>1, <2>2 DEF LookAgain
<1>3. UNCHANGED <<proofs, signIn, browser, sessions, reachable>> /\ faults' \in 0..MaxFaults
  BY DEF LookAgain, Inv, TypeOK
<1> QED
  BY <1>2, <1>3, QuietStep

LEMMA AuthenticateStep ==
  ASSUME Inv, NEW t \in Tabs, Authenticate(t) PROVE Inv'
<1> DEFINE version == sessions[tab[t].access.of].version
<1>1. Fits(tab[t], sessions, exchanged, reachable) /\ tab[t] \in Request /\ tab \in [Tabs -> Request]
  BY DEF Inv, RequestsFit, TypeOK
<1>2. Turns(t) /\ Fits(tab'[t], sessions, exchanged, reachable)
  <2>1. CASE Usable(tab[t].access)
    <3>1. tab[t].access # NoToken /\ tab[t].access.of \in Proofs
      BY <1>1, <2>1, TokenTypes DEF Usable, Found, Request
    <3>2. version \in 0..MaxVersion
      BY <2>1, <3>1, SessionAssumption DEF Usable, Inv, Opened, TypeOK, Row
    <3> DEFINE new == [tab[t] EXCEPT !.at = "authenticated", !.seen = version]
    <3> HIDE DEF version
    <3>3. /\ new \in Request /\ new.at = "authenticated"
          /\ new.click = tab[t].click /\ new.doing = tab[t].doing /\ new.proof = tab[t].proof
          /\ new.flow = tab[t].flow /\ new.access = tab[t].access /\ new.refresh = tab[t].refresh
          /\ new.stored = tab[t].stored /\ new.answer = tab[t].answer
      BY <1>1, <3>2 DEF Request
    <3>4. tab' = [tab EXCEPT ![t] = new]
      BY <1>1, <2>1 DEF Authenticate, version
    <3>5. tab[t].click \in {"command", "switch", "signOut"} /\ tab[t].doing # "refresh"
      BY DEF Authenticate, Receives, Asked, Refreshes
    <3> HIDE DEF new
    <3>6. Fits(new, sessions, exchanged, reachable)
      BY <1>1, <3>1, <3>3, <3>5 DEF Fits, InCallback, InSession, SignsIn, Repeatable
    <3> QED
      BY <1>1, <3>3, <3>4, <3>6 DEF Turns
  <2>2. CASE ~Usable(tab[t].access)
    <3>1. Deny(t, "clear") \/ Deny(t, "keep")
      BY <2>2 DEF Authenticate
    <3> QED
      BY <3>1, FailFits
  <2> QED
    BY <2>1, <2>2
<1>3. UNCHANGED <<proofs, signIn, browser, sessions, reachable>> /\ faults' \in 0..MaxFaults
  BY DEF Authenticate, Inv, TypeOK
<1> QED
  BY <1>2, <1>3, QuietStep

LEMMA AuthorizeStep ==
  ASSUME Inv, NEW t \in Tabs, Authorize(t) PROVE Inv'
<1> DEFINE good == /\ Usable(tab[t].access) /\ AsSeen(t)
                   /\ sessions[tab[t].access.of].active = tab[t].workspace
                   /\ tab[t].workspace \in reachable
<1>1. Fits(tab[t], sessions, exchanged, reachable) /\ tab[t] \in Request
  BY DEF Inv, RequestsFit, TypeOK
<1>2. Turns(t) /\ Fits(tab'[t], sessions, exchanged, reachable)
  <2>1. CASE good
    <3>1. Reaches(t, "locked")
      BY <2>1 DEF Authorize
    <3>2. /\ Turns(t) /\ Same(tab'[t], tab[t])
          /\ tab'[t].at = "locked" /\ tab'[t].answer = tab[t].answer /\ tab'[t].stored = tab[t].stored
      BY <3>1, ReachesTurns DEF Inv, InSession
    <3>3. tab[t].click = "command" /\ tab[t].doing # "refresh"
      BY DEF Authorize, Authenticated, Asked, Refreshes
    <3>4. tab[t].at = "authenticated"
      BY DEF Authorize, Authenticated
    <3>5. Authorized(sessions, reachable, tab'[t])
      BY <2>1, <3>2 DEF Authorized, Same, Usable, Found, AsSeen
    <3> QED
      BY <1>1, <3>2, <3>3, <3>4, <3>5 DEF Fits, Same, InCallback, InSession, SignsIn, Repeatable
  <2>2. CASE ~good
    <3>1. Answers(t, Fail("keep"))
      BY <2>2 DEF Authorize
    <3> QED
      BY <3>1, FailFits
  <2> QED
    BY <2>1, <2>2
<1>3. UNCHANGED <<proofs, signIn, browser, sessions, reachable>> /\ faults' \in 0..MaxFaults
  BY DEF Authorize, Inv, TypeOK
<1> QED
  BY <1>2, <1>3, QuietStep

LEMMA CommitStep ==
  ASSUME Inv, NEW t \in Tabs, Commit(t) PROVE Inv'
<1>1. Turns(t) /\ Fits(tab'[t], sessions, exchanged, reachable)
  BY FailFits DEF Commit
<1>2. UNCHANGED <<proofs, signIn, browser, sessions, reachable>> /\ faults' \in 0..MaxFaults
  BY DEF Commit, Inv, TypeOK
<1> QED
  BY <1>1, <1>2, QuietStep

LEMMA RefreshAnsweredStep ==
  ASSUME Inv, NEW t \in Tabs, RefreshAnswered(t) PROVE Inv'
<1>1. tab[t].stored \in Tokens /\ Issued(sessions, tab[t].stored)
  BY DEF Inv, TypeOK, Request, RequestsFit, Fits
<1>2. Turns(t) /\ Fits(tab'[t], sessions, exchanged, reachable)
  <2>1. CASE Answers(t, Ok("keep", NoToken)) \/ Answers(t, Ok("clear", NoToken))
    BY <2>1, FailFits
  <2>2. CASE Answers(t, Ok("tokens", tab[t].stored))
    BY <1>1, <2>2, TokensFit
  <2> QED
    BY <2>1, <2>2 DEF RefreshAnswered
<1>3. UNCHANGED <<proofs, signIn, browser, sessions, reachable>> /\ faults' \in 0..MaxFaults
  BY DEF RefreshAnswered, Inv, TypeOK
<1> QED
  BY <1>2, <1>3, QuietStep

\* One more fault is still within the bound.
LEMMA OneMoreFault ==
  ASSUME Inv, faults < MaxFaults, faults' = faults + 1 PROVE faults' \in 0..MaxFaults
BY SessionAssumption DEF Inv, TypeOK

LEMMA RefreshFailsStep ==
  ASSUME Inv, NEW t \in Tabs, RefreshFails(t) PROVE Inv'
<1>1. Turns(t) /\ Fits(tab'[t], sessions, exchanged, reachable)
  BY FailFits DEF RefreshFails
<1>2. UNCHANGED <<proofs, signIn, browser, sessions, reachable>> /\ faults' \in 0..MaxFaults
  BY OneMoreFault DEF RefreshFails
<1> QED
  BY <1>1, <1>2, QuietStep

LEMMA GiveUpStep ==
  ASSUME Inv, NEW t \in Tabs, GiveUp(t) PROVE Inv'
<1>1. tab \in [Tabs -> Request] /\ tab' = [tab EXCEPT ![t] = Idle]
  BY DEF GiveUp, Inv, TypeOK
<1>2. Turns(t) /\ Fits(tab'[t], sessions, exchanged, reachable)
  BY <1>1, IdleFits DEF Turns
<1>3. UNCHANGED <<proofs, signIn, browser, sessions, reachable>> /\ faults' \in 0..MaxFaults
  BY OneMoreFault DEF GiveUp
<1> QED
  BY <1>2, <1>3, QuietStep

LEMMA SendAgainStep ==
  ASSUME Inv, NEW t \in Tabs, SendAgain(t) PROVE Inv'
<1>1. Fits(tab[t], sessions, exchanged, reachable) /\ tab[t] \in Request /\ tab \in [Tabs -> Request]
  BY DEF Inv, RequestsFit, TypeOK
<1> DEFINE new == [tab[t] EXCEPT !.at = "sent", !.answer = NoAnswer]
<1>2. /\ new \in Request /\ new.at = "sent" /\ new.answer = NoAnswer
      /\ new.stored = tab[t].stored /\ Same(new, tab[t])
  BY <1>1, AnswerTypes DEF Request, Same
<1>3. tab' = [tab EXCEPT ![t] = new]
  BY <1>1 DEF SendAgain
<1> HIDE DEF new
<1>4. Fits(new, sessions, exchanged, reachable)
  BY <1>1, <1>2, AnswerTypes DEF Fits, Same, InCallback, InSession, Repeatable, Issued
<1>5. UNCHANGED <<proofs, signIn, browser, sessions, reachable>> /\ faults' \in 0..MaxFaults
  BY OneMoreFault DEF SendAgain
<1>6. Turns(t) /\ Fits(tab'[t], sessions, exchanged, reachable)
  BY <1>1, <1>2, <1>3, <1>4 DEF Turns
<1> QED
  BY <1>5, <1>6, QuietStep

LEMMA ClickStep ==
  ASSUME Inv, NEW t \in Tabs, Click(t) PROVE Inv'
<1>1. PICK request \in Offered : tab' = [tab EXCEPT ![t] = Asks(request[1], request[2], request[3])]
  BY DEF Click
<1> DEFINE click == request[1]
           proof == request[2]
           workspace == request[3]
           new == Asks(click, proof, workspace)
<1>2. /\ click \in Clicks /\ proof \in Proofs \cup {Nobody} /\ workspace \in Workspaces \cup {Nowhere}
      /\ click = "callback" => proof \in Authorizations
      /\ click \in {"contact", "activate"} => proof \in Assertions
  BY DEF Offered, Clicks, Proofs
<1> HIDE DEF click, proof, workspace
<1>3. /\ jar.access \in Tokens /\ jar.refresh \in Tokens /\ flow \in Authorizations \cup {Nobody}
      /\ Issued(sessions, jar.access) /\ Issued(sessions, jar.refresh)
  BY DEF Inv, TypeOK, TokensIssued
<1>4. 0 \in 0..MaxVersion
  BY SessionAssumption
<1>5. /\ new \in Request /\ new.click = click /\ new.proof = proof /\ new.at = "sent"
      /\ new.access \in {NoToken, jar.access} /\ new.refresh \in {NoToken, jar.refresh}
      /\ new.stored = NoToken /\ new.answer = NoAnswer
  BY <1>2, <1>3, <1>4, TokenTypes, AnswerTypes DEF Asks, Request
<1>6. tab' = [tab EXCEPT ![t] = new] /\ tab \in [Tabs -> Request]
  BY <1>1 DEF Inv, TypeOK, click, proof, workspace
<1> HIDE DEF new
<1>7. Fits(new, sessions, exchanged, reachable)
  BY <1>2, <1>3, <1>5, AnswerTypes DEF Fits, Issued, InCallback, InSession
<1>8. Turns(t) /\ Fits(tab'[t], sessions, exchanged, reachable)
  BY <1>5, <1>6, <1>7 DEF Turns
<1>9. UNCHANGED <<proofs, signIn, browser, sessions, reachable>> /\ faults' \in 0..MaxFaults
  BY DEF Click, Inv, TypeOK
<1> QED
  BY <1>8, <1>9, QuietStep

\* The page takes the answer, and perhaps asks for a refresh or sends its request again.
LEMMA DeliverStep ==
  ASSUME Inv, NEW t \in Tabs, Deliver(t) PROVE Inv'
<1> DEFINE answer == tab[t].answer
<1>1. /\ Fits(tab[t], sessions, exchanged, reachable) /\ tab[t] \in Request
      /\ tab \in [Tabs -> Request] /\ answer \in Answer
  BY DEF Inv, RequestsFit, TypeOK, Request
<1>2. /\ jar' \in [access : Tokens, refresh : Tokens]
      /\ Issued(sessions, jar'.access) /\ Issued(sessions, jar'.refresh)
  <2>1. /\ answer.sets \in {"keep", "clear", "tokens"} /\ answer.token \in Tokens
        /\ Issued(sessions, answer.token)
    BY <1>1 DEF Answer, Fits
  <2>2. jar' = Cookies(answer)
    BY DEF Deliver
  <2>3. CASE answer.sets = "keep"
    BY <2>2, <2>3 DEF Cookies, Inv, TypeOK, TokensIssued
  <2>4. CASE answer.sets = "clear"
    BY <2>2, <2>4, TokenTypes DEF Cookies, Issued
  <2>5. CASE answer.sets = "tokens"
    BY <2>1, <2>2, <2>5 DEF Cookies
  <2> QED
    BY <2>1, <2>3, <2>4, <2>5
<1>3. flow' \in Authorizations \cup {Nobody}
  BY DEF Deliver, Inv, TypeOK
<1>4. ASSUME NEW doing \in {"refresh", "again"}
      PROVE  ForNow(t, doing) \in Request /\ Fits(ForNow(t, doing), sessions, exchanged, reachable)
  <2> DEFINE new == ForNow(t, doing)
  <2>1. 0 \in 0..MaxVersion
    BY SessionAssumption
  <2>2. /\ new \in Request /\ new.click = tab[t].click /\ new.proof = tab[t].proof
        /\ new.at = "sent" /\ new.access = jar'.access /\ new.refresh \in {jar'.refresh, NoToken}
        /\ new.stored = NoToken /\ new.answer = NoAnswer
    BY <1>1, <1>2, <2>1, TokenTypes, AnswerTypes DEF ForNow, Request
  <2> HIDE DEF new
  <2>3. Fits(new, sessions, exchanged, reachable)
    BY <1>1, <1>2, <2>2, AnswerTypes DEF Fits, Issued, InCallback, InSession
  <2> QED
    BY <2>2, <2>3 DEF new
<1>5. Turns(t) /\ Fits(tab'[t], sessions, exchanged, reachable)
  <2>1. \/ tab' = [tab EXCEPT ![t] = ForNow(t, "again")]
        \/ tab' = [tab EXCEPT ![t] = ForNow(t, "refresh")]
        \/ tab' = [tab EXCEPT ![t] = Idle]
    BY DEF Deliver
  <2> QED
    BY <1>1, <1>4, <2>1, IdleFits DEF Turns
<1>6. UNCHANGED <<proofs, signIn, sessions, reachable, faults>>
  BY DEF Deliver
<1>7. TypeOK'
  BY <1>2, <1>3, <1>5, <1>6 DEF Inv, TypeOK, Turns, signIn
<1>8. Opened' /\ TokensIssued'
  BY <1>2, <1>6 DEF Inv, Opened, TokensIssued, signIn
<1>9. RequestsFit'
  BY <1>5, <1>6 DEF Inv, RequestsFit, Turns, signIn
<1> QED
  BY <1>7, <1>8, <1>9 DEF Inv

\* Without a move of a session the requests fit as long as the one that moved does.
LEMMA RequestsStep ==
  ASSUME Inv, NEW t \in Tabs, Turns(t), Fits(tab'[t], sessions, exchanged, reachable),
         UNCHANGED <<sessions, exchanged, reachable>>
  PROVE  RequestsFit'
BY DEF Inv, RequestsFit, Turns

LEMMA IdentifyStep ==
  ASSUME Inv, NEW t \in Tabs, Identify(t) \/ GrantIsLost(t) PROVE Inv'
<1> DEFINE a == tab[t].proof
<1>1. a \in Authorizations /\ tab[t].at \in InCallback
  BY InCallbackIs DEF Identify, GrantIsLost, InCallback
<1>2. Turns(t) /\ Fits(tab'[t], sessions, exchanged, reachable)
  <2>1. CASE Answers(t, Fail("keep"))
    BY <2>1, FailFits
  <2>2. CASE Reaches(t, "identified")
    BY <1>1, <2>2, InCallbackIs, CallbackGoesOn DEF InCallback
  <2> QED
    BY <2>1, <2>2 DEF Identify, GrantIsLost
<1>3. \/ attempt' = attempt
      \/ attempt[a] \in {"pending", "validated"} /\ attempt' = [attempt EXCEPT ![a] = "validated"]
  BY DEF Identify, GrantIsLost
<1>4. spent' = spent \/ spent' = spent \cup {a}
  BY DEF Identify, GrantIsLost
<1>5. /\ UNCHANGED <<proofs, lapsed, exchanged, used, activated, browser, sessions, reachable>>
      /\ faults' \in 0..MaxFaults
  BY OneMoreFault DEF Identify, GrantIsLost, Inv, TypeOK
<1>6. TypeOK'
  BY <1>1, <1>2, <1>3, <1>4, <1>5 DEF Inv, TypeOK, Turns, browser
<1>7. Opened' /\ TokensIssued'
  BY <1>1, <1>3, <1>5 DEF Inv, TypeOK, Opened, TokensIssued, browser
<1>8. RequestsFit'
  BY <1>2, <1>5, RequestsStep
<1> QED
  BY <1>6, <1>7, <1>8 DEF Inv
-----------------------------------------------------------------------------
(* Steps that move a session. *)

\* No command in another page relies on the row that moves.
Relied(p, t) == \E s \in Tabs \ {t} : tab[s].at = "locked" /\ tab[s].access.of = p

LEMMA SessionMoves ==
  ASSUME Inv, NEW p \in Proofs, NEW row, Grown(sessions[p], row),
         sessions' = [sessions EXCEPT ![p] = row]
  PROVE  /\ sessions' \in [Proofs -> Row]
         /\ \A q \in Proofs : sessions'[q].issue <= sessions'[q].version
         /\ \A q \in Proofs : ~sessions'[q].revoked => sessions'[q].version <= MaxVersion
         /\ \A k \in Tokens : Issued(sessions, k) => Issued(sessions', k)
<1>1. sessions \in [Proofs -> Row]
  BY DEF Inv, TypeOK
<1>2. \A k \in Tokens : Issued(sessions, k) => Issued(sessions', k)
  BY <1>1, StillIssued
<1> QED
  BY <1>1, <1>2 DEF Inv, TypeOK, Opened, Grown

LEMMA MovesStep ==
  ASSUME Inv, NEW t \in Tabs, Turns(t),
         NEW p \in Proofs, NEW row, Grown(sessions[p], row), sessions' = [sessions EXCEPT ![p] = row],
         \A a \in Authorizations : exchanged[a] # NoToken => exchanged'[a] = exchanged[a],
         reachable \subseteq reachable', ~Relied(p, t),
         Fits(tab'[t], sessions', exchanged', reachable')
  PROVE  RequestsFit'
<1> SUFFICES ASSUME NEW s \in Tabs, s # t PROVE Fits(tab'[s], sessions', exchanged', reachable')
  BY DEF RequestsFit
<1>1. tab'[s] = tab[s]
  BY DEF Turns
<1>2. tab[s] \in Request /\ Fits(tab[s], sessions, exchanged, reachable)
  BY DEF Inv, TypeOK, RequestsFit
<1>3. sessions \in [Proofs -> Row]
  BY DEF Inv, TypeOK
<1>4. tab[s].at = "locked" => Authorized(sessions', reachable, tab[s])
  <2> SUFFICES ASSUME tab[s].at = "locked" PROVE Authorized(sessions', reachable, tab[s])
    OBVIOUS
  <2>1. tab[s].access \in Tokens /\ tab[s].access # NoToken /\ Authorized(sessions, reachable, tab[s])
    BY <1>2 DEF Fits, InSession, Request
  <2>2. tab[s].access.of \in Proofs /\ tab[s].access.of # p
    BY <2>1, TokenTypes DEF Relied
  <2> QED
    BY <1>3, <2>1, <2>2 DEF Authorized
<1> QED
  BY <1>1, <1>2, <1>3, <1>4, OthersFit

\* The request that moves the session fits what it finds afterwards.
LEMMA MoverFits ==
  ASSUME Inv, NEW t \in Tabs, tab[t].at # "locked",
         NEW p \in Proofs, NEW row, Grown(sessions[p], row), sessions' = [sessions EXCEPT ![p] = row],
         \A a \in Authorizations : exchanged[a] # NoToken => exchanged'[a] = exchanged[a],
         reachable \subseteq reachable'
  PROVE  Fits(tab[t], sessions', exchanged', reachable')
<1>1. tab[t] \in Request /\ Fits(tab[t], sessions, exchanged, reachable) /\ sessions \in [Proofs -> Row]
  BY DEF Inv, TypeOK, RequestsFit
<1> QED
  BY <1>1, OthersFit

\* Nobody relies on a session that was not opened.
LEMMA UnopenedUnrelied ==
  ASSUME Inv, NEW p \in Proofs, sessions[p] = NoRow, NEW t
  PROVE  ~Relied(p, t)
<1> SUFFICES ASSUME NEW s \in Tabs, tab[s].at = "locked", tab[s].access.of = p PROVE FALSE
  BY DEF Relied
<1>1. tab[s].access \in Tokens /\ tab[s].access # NoToken /\ Authorized(sessions, reachable, tab[s])
  BY DEF Inv, TypeOK, Request, RequestsFit, Fits, InSession
<1>2. tab[s].access.issue \in 1..MaxVersion
  BY <1>1, TokenTypes
<1> QED
  BY <1>1, <1>2, SessionAssumption DEF Authorized, NoRow

LEMMA OpeningGrows ==
  ASSUME NEW active \in Workspaces \cup {Nowhere}
  PROVE  Grown(NoRow, FreshRow(active))
BY SessionAssumption DEF Grown, NoRow, FreshRow, Row

\* A request that is given tokens bears them, and finds them again if it is repeated.
LEMMA GivenFits ==
  ASSUME NEW s \in Request, NEW r \in Request, NEW token \in Tokens, Same(r, s),
         r.at = "answered", r.answer = Ok("tokens", token), r.stored = token,
         NEW ss, NEW ex, NEW re, Fits(s, ss, ex, re), Issued(ss, token),
         Repeatable(ss, ex, r)
  PROVE  Fits(r, ss, ex, re)
<1>1. r.answer.token = token
  BY AnswerTypes
<1> QED
  BY <1>1 DEF Fits, Same, InCallback, InSession

LEMMA OpenByIdentityStep ==
  ASSUME Inv, NEW t \in Tabs, OpenByIdentity(t) PROVE Inv'
<1> DEFINE a == tab[t].proof
           token == [of |-> a, issue |-> 1]
           only == IF Cardinality(reachable) = 1 THEN CHOOSE w \in reachable : TRUE ELSE Nowhere
           opens == Consumable(a) /\ reachable # {}
<1>1. tab[t].at \in InCallback
  BY DEF OpenByIdentity, InCallback
<1>2. /\ a \in Authorizations /\ a \in Proofs /\ tab[t].click = "callback" /\ tab[t].doing # "refresh"
      /\ tab[t].flow = a
  BY <1>1, InCallbackIs DEF Proofs
<1>3. UNCHANGED <<proofs, lapsed, spent, used, activated, browser, reachable, faults>>
  BY DEF OpenByIdentity
<1>4. CASE ~opens
  <2>1. Answers(t, Fail("keep")) /\ UNCHANGED <<attempt, sessions, exchanged>>
    BY <1>4 DEF OpenByIdentity
  <2>2. Turns(t) /\ Fits(tab'[t], sessions, exchanged, reachable)
    BY <2>1, FailFits
  <2> QED
    BY <1>3, <2>1, <2>2, QuietStep DEF signIn, Inv, TypeOK
<1>5. CASE opens
  <2>1. /\ attempt' = [attempt EXCEPT ![a] = "consumed"]
        /\ sessions' = [sessions EXCEPT ![a] = FreshRow(only)]
        /\ exchanged' = [exchanged EXCEPT ![a] = token]
        /\ Stored(t, token)
    BY <1>5 DEF OpenByIdentity
  <2>2. attempt[a] = "validated" /\ sessions[a] = NoRow /\ exchanged[a] = NoToken
    BY <1>2, <1>5 DEF Consumable, Inv, Opened
  <2>3. only \in Workspaces \cup {Nowhere}
    BY <1>5 DEF Inv, TypeOK
  <2>4. token \in Tokens
    BY <1>2, TokenTypes, SessionAssumption
  <2>5. FreshRow(only).issue = 1
    BY DEF FreshRow
  <2> HIDE DEF only
  <2>6. Grown(sessions[a], FreshRow(only))
    BY <2>2, <2>3, OpeningGrows
  <2>7. /\ sessions' \in [Proofs -> Row]
        /\ \A q \in Proofs : sessions'[q].issue <= sessions'[q].version
        /\ \A q \in Proofs : ~sessions'[q].revoked => sessions'[q].version <= MaxVersion
        /\ \A k \in Tokens : Issued(sessions, k) => Issued(sessions', k)
    BY <1>2, <2>1, <2>6, SessionMoves
  <2>8. Issued(sessions', token)
    BY <1>2, <2>1, <2>5 DEF Issued, Inv, TypeOK
  <2>9. /\ Turns(t) /\ Same(tab'[t], tab[t]) /\ tab'[t].at = "answered"
        /\ tab'[t].answer = Ok("tokens", token) /\ tab'[t].stored = token
    BY <2>1, <2>4, StoredTurns DEF Inv
  <2>10. \A b \in Authorizations : exchanged[b] # NoToken => exchanged'[b] = exchanged[b]
    BY <2>1, <2>2 DEF Inv, TypeOK
  <2>11. Fits(tab'[t], sessions', exchanged', reachable')
    <3>1. Fits(tab[t], sessions', exchanged', reachable')
      BY <1>1, <1>2, <1>3, <2>1, <2>6, <2>10, MoverFits DEF InCallback
    <3>2. exchanged'[a] = token
      BY <1>2, <2>1 DEF Inv, TypeOK
    <3>3. Repeatable(sessions', exchanged', tab'[t])
      BY <1>2, <2>9, <3>2 DEF Repeatable, Same
    <3>4. tab[t] \in Request /\ tab'[t] \in Request
      BY <2>9 DEF Inv, TypeOK, Turns
    <3> HIDE DEF token
    <3> QED
      BY <2>4, <2>8, <2>9, <3>1, <3>3, <3>4, GivenFits
  <2>12. TypeOK'
    BY <1>2, <1>3, <2>1, <2>4, <2>7, <2>9 DEF Inv, TypeOK, Turns, browser
  <2>13. Opened'
    <3>1. \A p \in Assertions : p # a
      BY <1>2, SessionAssumption
    <3> QED
      BY <1>2, <1>3, <2>1, <2>7, <3>1 DEF Inv, TypeOK, Opened, Proofs
  <2>14. TokensIssued'
    <3>1. jar' = jar /\ jar.access \in Tokens /\ jar.refresh \in Tokens
      BY <1>3 DEF Inv, TypeOK, browser
    <3>2. \A b \in Authorizations : exchanged[b] \in Tokens /\ exchanged'[b] \in {token, exchanged[b]}
      BY <2>1 DEF Inv, TypeOK
    <3> QED
      BY <2>7, <2>8, <3>1, <3>2 DEF Inv, TokensIssued
  <2>15. RequestsFit'
    <3>1. ~Relied(a, t)
      BY <1>2, <2>2, UnopenedUnrelied
    <3> QED
      BY <1>2, <1>3, <2>1, <2>6, <2>9, <2>10, <2>11, <3>1, MovesStep
  <2> QED
    BY <2>12, <2>13, <2>14, <2>15 DEF Inv
<1> QED
  BY <1>4, <1>5

LEMMA CarriedOutStep ==
  ASSUME Inv, NEW t \in Tabs, tab[t].at = "sent", tab[t].doing # "refresh",
         tab[t].click \in {"contact", "activate"}, CarriedOut(t),
         activated' \in BOOLEAN, reachable' \in {reachable, reachable \cup {Home}},
         UNCHANGED <<proofs, attempt, lapsed, spent, exchanged, browser, faults>>
  PROVE  Inv'
<1> DEFINE p == tab[t].proof
           token == [of |-> p, issue |-> 1]
<1>1. p \in Assertions /\ p \in Proofs
  BY DEF Inv, RequestsFit, Fits, Proofs
<1>2. /\ p \notin used /\ used' = used \cup {p}
      /\ sessions' = [sessions EXCEPT ![p] = FreshRow(Home)] /\ Stored(t, token)
  BY DEF CarriedOut, Unused
<1>3. sessions[p] = NoRow
  BY <1>1, <1>2 DEF Inv, Opened
<1>4. token \in Tokens
  BY <1>1, TokenTypes, SessionAssumption
<1>5. Home \in Workspaces \cup {Nowhere} /\ FreshRow(Home).issue = 1
  BY SessionAssumption DEF FreshRow
<1>6. Grown(sessions[p], FreshRow(Home))
  BY <1>3, <1>5, OpeningGrows
<1>7. /\ sessions' \in [Proofs -> Row]
      /\ \A q \in Proofs : sessions'[q].issue <= sessions'[q].version
      /\ \A q \in Proofs : ~sessions'[q].revoked => sessions'[q].version <= MaxVersion
      /\ \A k \in Tokens : Issued(sessions, k) => Issued(sessions', k)
  BY <1>1, <1>2, <1>6, SessionMoves
<1>8. Issued(sessions', token)
  BY <1>1, <1>2, <1>5 DEF Issued, Inv, TypeOK
<1>9. /\ Turns(t) /\ Same(tab'[t], tab[t]) /\ tab'[t].at = "answered"
      /\ tab'[t].answer = Ok("tokens", token) /\ tab'[t].stored = token
  BY <1>2, <1>4, StoredTurns DEF Inv
<1>10. reachable \subseteq reachable' /\ reachable' \subseteq Workspaces
  BY SessionAssumption DEF Inv, TypeOK
<1>11. Fits(tab'[t], sessions', exchanged', reachable')
  <2>1. Fits(tab[t], sessions', exchanged', reachable')
    BY <1>1, <1>2, <1>6, <1>10, MoverFits
  <2>2. Repeatable(sessions', exchanged', tab'[t])
    BY <1>9 DEF Repeatable, Same
  <2>3. tab[t] \in Request /\ tab'[t] \in Request
    BY <1>9 DEF Inv, TypeOK, Turns
  <2> HIDE DEF token
  <2> QED
    BY <1>4, <1>8, <1>9, <2>1, <2>2, <2>3, GivenFits
<1>12. TypeOK'
  BY <1>1, <1>2, <1>7, <1>9, <1>10 DEF Inv, TypeOK, Turns, browser
<1>13. Opened'
  <2>1. \A a \in Authorizations : a # p
    BY <1>1, SessionAssumption
  <2> QED
    BY <1>1, <1>2, <1>7, <2>1 DEF Inv, TypeOK, Opened, Proofs
<1>14. TokensIssued'
  <2>1. /\ jar' = jar /\ jar.access \in Tokens /\ jar.refresh \in Tokens
        /\ \A a \in Authorizations : exchanged[a] \in Tokens
    BY DEF Inv, TypeOK, browser
  <2> QED
    BY <1>7, <2>1 DEF Inv, TokensIssued
<1>15. RequestsFit'
  <2>1. ~Relied(p, t)
    BY <1>1, <1>3, UnopenedUnrelied
  <2> QED
    BY <1>1, <1>2, <1>6, <1>9, <1>10, <1>11, <2>1, MovesStep
<1> QED
  BY <1>12, <1>13, <1>14, <1>15 DEF Inv

LEMMA ContactStep ==
  ASSUME Inv, NEW t \in Tabs, ExchangeContact(t) \/ Activate(t) PROVE Inv'
<1>1. /\ tab[t].at = "sent" /\ tab[t].doing # "refresh" /\ tab[t].click \in {"contact", "activate"}
      /\ UNCHANGED <<proofs, attempt, lapsed, spent, exchanged, browser, faults>>
  BY DEF ExchangeContact, Activate, Receives, Asked, Refreshes
<1>2. CASE NotCarriedOut(t) \/ WrongWay(t)
  <2>1. tab[t].stored \in Tokens /\ Issued(sessions, tab[t].stored)
    BY DEF Inv, TypeOK, Request, RequestsFit, Fits
  <2>2. \/ Answers(t, Ok("tokens", tab[t].stored))
        \/ Deny(t, "keep") \/ Answers(t, Fail("keep"))
    BY <1>2 DEF NotCarriedOut, WrongWay
  <2>3. Turns(t) /\ Fits(tab'[t], sessions, exchanged, reachable)
    BY <2>1, <2>2, FailFits, TokensFit
  <2>4. UNCHANGED <<used, activated, sessions, reachable>>
    BY <1>2 DEF NotCarriedOut, WrongWay
  <2> QED
    BY <1>1, <2>3, <2>4, QuietStep DEF signIn, Inv, TypeOK
<1>3. CASE CarriedOut(t) /\ UNCHANGED <<activated, reachable>>
  BY <1>1, <1>3, CarriedOutStep DEF Inv, TypeOK
<1>4. CASE CarriedOut(t) /\ activated' = TRUE /\ reachable' = reachable \cup {Home}
  BY <1>1, <1>4, CarriedOutStep
<1> QED
  BY <1>2, <1>3, <1>4 DEF ExchangeContact, Activate

\* A step that moves one row and otherwise only requests.
LEMMA RowStep ==
  ASSUME Inv, NEW t \in Tabs, Turns(t),
         NEW p \in Proofs, NEW row, Grown(sessions[p], row), sessions' = [sessions EXCEPT ![p] = row],
         sessions[p] # NoRow,
         ~Relied(p, t), Fits(tab'[t], sessions', exchanged, reachable),
         UNCHANGED <<proofs, signIn, browser, reachable, faults>>
  PROVE  Inv'
<1>1. /\ sessions' \in [Proofs -> Row]
      /\ \A q \in Proofs : sessions'[q].issue <= sessions'[q].version
      /\ \A q \in Proofs : ~sessions'[q].revoked => sessions'[q].version <= MaxVersion
      /\ \A k \in Tokens : Issued(sessions, k) => Issued(sessions', k)
  BY SessionMoves
<1>2. TypeOK'
  BY <1>1 DEF Inv, TypeOK, Turns, signIn, browser
<1>3. Opened'
  BY <1>1 DEF Inv, TypeOK, Opened, Proofs, signIn
<1>4. TokensIssued'
  <2>1. /\ jar' = jar /\ jar.access \in Tokens /\ jar.refresh \in Tokens
        /\ exchanged' = exchanged /\ \A a \in Authorizations : exchanged[a] \in Tokens
    BY DEF Inv, TypeOK, browser, signIn
  <2> QED
    BY <1>1, <2>1 DEF Inv, TokensIssued
<1>5. RequestsFit'
  BY MovesStep DEF signIn
<1> QED
  BY <1>2, <1>3, <1>4, <1>5 DEF Inv

\* Who authenticated has a token, and the row it names was opened if the token was issued.
LEMMA AuthenticatedIs ==
  ASSUME Inv, NEW t \in Tabs, tab[t].at = "authenticated"
  PROVE  /\ tab[t].access \in Tokens /\ tab[t].access # NoToken /\ tab[t].access.of \in Proofs
         /\ sessions[tab[t].access.of] # NoRow
<1>1. tab[t].access \in Tokens /\ tab[t].access # NoToken /\ Issued(sessions, tab[t].access)
  BY DEF Inv, TypeOK, Request, RequestsFit, Fits, InSession
<1>2. tab[t].access.of \in Proofs /\ tab[t].access.issue \in 1..MaxVersion
  BY <1>1, TokenTypes
<1>3. NoRow.issue = 0
  BY DEF NoRow
<1> QED
  BY <1>1, <1>2, <1>3, SessionAssumption DEF Issued

LEMMA SwitchContextStep ==
  ASSUME Inv, NEW t \in Tabs, SwitchContext(t) PROVE Inv'
<1> DEFINE p == tab[t].access.of
           row == [sessions[p] EXCEPT !.version = @ + 1, !.active = tab[t].workspace]
<1>1. tab[t].at = "authenticated" /\ ~HeldShared(p) /\ UNCHANGED <<proofs, signIn, browser, reachable, faults>>
  BY DEF SwitchContext, Authenticated
<1>2. p \in Proofs /\ sessions[p] # NoRow /\ sessions[p] \in Row /\ tab[t] \in Request
  BY <1>1, AuthenticatedIs DEF Inv, TypeOK
<1>3. CASE Answers(t, Fail("keep")) /\ UNCHANGED sessions
  <2>1. Turns(t) /\ Fits(tab'[t], sessions, exchanged, reachable)
    BY <1>3, FailFits
  <2> QED
    BY <1>1, <1>3, <2>1, QuietStep DEF Inv, TypeOK
<1>4. CASE /\ Usable(tab[t].access) /\ sessions[p].version < MaxVersion
           /\ sessions' = [sessions EXCEPT ![p].version = @ + 1, ![p].active = tab[t].workspace]
           /\ Answers(t, Ok("keep", NoToken))
  <2>1. sessions[p].version + 1 \in 0..(MaxVersion + 1) /\ sessions[p].version + 1 <= MaxVersion
    BY <1>2, <1>4, SessionAssumption DEF Row
  <2>2. sessions[p].issue <= sessions[p].version + 1
    BY <1>2, SessionAssumption DEF Inv, TypeOK, Row
  <2>3. tab[t].workspace \in Workspaces \cup {Nowhere}
    BY <1>2 DEF Request
  <2>4. Grown(sessions[p], row)
    BY <1>2, <2>1, <2>2, <2>3 DEF Grown, Row
  <2>5. sessions' = [sessions EXCEPT ![p] = row]
    BY <1>2, <1>4 DEF Inv, TypeOK
  <2> HIDE DEF row
  <2>6. Fits(tab[t], sessions', exchanged, reachable)
    BY <1>1, <1>2, <2>4, <2>5, MoverFits DEF signIn
  <2>7. Turns(t) /\ Fits(tab'[t], sessions', exchanged, reachable)
    <3>1. Ok("keep", NoToken) \in Answer /\ Ok("keep", NoToken).token = NoToken
      BY TokenTypes, AnswerTypes
    <3>2. Turns(t) /\ Ended(tab[t], tab'[t], Ok("keep", NoToken))
      BY <1>4, <3>1, AnswersEnds DEF Inv
    <3>3. tab'[t] \in Request /\ Issued(sessions', Ok("keep", NoToken).token)
      BY <3>1, <3>2 DEF Turns, Issued
    <3> QED
      BY <1>2, <2>6, <3>1, <3>2, <3>3, EndedFits
  <2>8. ~Relied(p, t)
    BY <1>1 DEF HeldShared, Relied
  <2> QED
    BY <1>1, <1>2, <2>4, <2>5, <2>7, <2>8, RowStep
<1> QED
  BY <1>3, <1>4 DEF SwitchContext

LEMMA RevokeStep ==
  ASSUME Inv, NEW t \in Tabs, Revoke(t) PROVE Inv'
<1> DEFINE p == tab[t].access.of
           row == [sessions[p] EXCEPT !.version = @ + 1, !.revoked = TRUE]
<1>1. tab[t].at = "authenticated" /\ ~HeldShared(p) /\ UNCHANGED <<proofs, signIn, browser, reachable, faults>>
  BY DEF Revoke, Authenticated
<1>2. p \in Proofs /\ sessions[p] # NoRow /\ sessions[p] \in Row /\ tab[t] \in Request
  BY <1>1, AuthenticatedIs DEF Inv, TypeOK
<1>3. CASE Answers(t, Fail("clear")) /\ UNCHANGED sessions
  <2>1. Turns(t) /\ Fits(tab'[t], sessions, exchanged, reachable)
    BY <1>3, FailFits
  <2> QED
    BY <1>1, <1>3, <2>1, QuietStep DEF Inv, TypeOK
<1>4. CASE /\ ~sessions[p].revoked
           /\ sessions' = [sessions EXCEPT ![p].version = @ + 1, ![p].revoked = TRUE]
           /\ Answers(t, Ok("clear", NoToken))
  <2>1. sessions[p].version + 1 \in 0..(MaxVersion + 1)
    BY <1>2, <1>4, SessionAssumption DEF Row, Inv, Opened
  <2>2. sessions[p].issue <= sessions[p].version + 1
    BY <1>2, SessionAssumption DEF Inv, TypeOK, Row
  <2>3. Grown(sessions[p], row)
    BY <1>2, <2>1, <2>2 DEF Grown, Row
  <2>4. sessions' = [sessions EXCEPT ![p] = row]
    BY <1>2, <1>4 DEF Inv, TypeOK
  <2> HIDE DEF row
  <2>5. Fits(tab[t], sessions', exchanged, reachable)
    BY <1>1, <1>2, <2>3, <2>4, MoverFits DEF signIn
  <2>6. Turns(t) /\ Fits(tab'[t], sessions', exchanged, reachable)
    <3>1. Ok("clear", NoToken) \in Answer /\ Ok("clear", NoToken).token = NoToken
      BY TokenTypes, AnswerTypes
    <3>2. Turns(t) /\ Ended(tab[t], tab'[t], Ok("clear", NoToken))
      BY <1>4, <3>1, AnswersEnds DEF Inv
    <3>3. tab'[t] \in Request /\ Issued(sessions', Ok("clear", NoToken).token)
      BY <3>1, <3>2 DEF Turns, Issued
    <3> QED
      BY <1>2, <2>5, <3>1, <3>2, <3>3, EndedFits
  <2>7. ~Relied(p, t)
    BY <1>1 DEF HeldShared, Relied
  <2> QED
    BY <1>1, <1>2, <2>3, <2>4, <2>6, <2>7, RowStep
<1> QED
  BY <1>3, <1>4 DEF Revoke

LEMMA RotateStep ==
  ASSUME Inv, NEW t \in Tabs, Rotate(t) PROVE Inv'
<1> DEFINE p == tab[t].refresh.of
           next == sessions[p].version + 1
           row == [sessions[p] EXCEPT !.version = next, !.issue = next, !.life = "fresh"]
           token == [of |-> p, issue |-> next]
<1>1. /\ tab[t].at = "sent" /\ tab[t].doing = "refresh" /\ ~Usable(tab[t].access)
      /\ Renewable(tab[t].refresh) /\ ~HeldShared(p) /\ next <= MaxVersion
      /\ sessions' = [sessions EXCEPT ![p].version = next, ![p].issue = next, ![p].life = "fresh"]
      /\ Stored(t, token)
      /\ UNCHANGED <<proofs, signIn, browser, reachable, faults>>
  BY DEF Rotate, ReceivesRefresh, Refreshes
<1>2. /\ tab[t] \in Request /\ sessions \in [Proofs -> Row]
      /\ Fits(tab[t], sessions, exchanged, reachable)
  BY DEF Inv, TypeOK, RequestsFit
<1>3. /\ tab[t].refresh \in Tokens /\ tab[t].refresh # NoToken
      /\ p \in Proofs /\ tab[t].refresh.issue \in 1..MaxVersion
      /\ sessions[p].issue = tab[t].refresh.issue
  BY <1>1, <1>2, TokenTypes DEF Renewable, Found, Request
<1>4. sessions[p] \in Row /\ sessions[p] # NoRow
  BY <1>2, <1>3, SessionAssumption DEF NoRow
<1>5. next \in 1..MaxVersion /\ next > sessions[p].issue /\ next \in 0..(MaxVersion + 1) /\ next \in 0..MaxVersion
  BY <1>1, <1>3, <1>4, SessionAssumption DEF Inv, TypeOK, Row
<1> HIDE DEF next
<1>6. Grown(sessions[p], row)
  <2>1. row \in Row
    BY <1>4, <1>5 DEF Row
  <2>2. row.issue = next /\ row.version = next
    BY <1>4 DEF Row
  <2> HIDE DEF row
  <2> QED
    BY <1>4, <1>5, <2>1, <2>2, SessionAssumption DEF Grown, Row
<1>7. sessions' = [sessions EXCEPT ![p] = row] /\ row.issue = next
  BY <1>1, <1>2, <1>3, <1>4 DEF Row
<1> HIDE DEF row
<1>8. token \in Tokens /\ Issued(sessions', token)
  BY <1>2, <1>3, <1>5, <1>7, TokenTypes, SessionAssumption DEF Issued
<1>9. /\ Turns(t) /\ Same(tab'[t], tab[t]) /\ tab'[t].at = "answered"
      /\ tab'[t].answer = Ok("tokens", token) /\ tab'[t].stored = token
  BY <1>1, <1>8, StoredTurns DEF Inv
<1>10. Fits(tab[t], sessions', exchanged, reachable)
  BY <1>1, <1>3, <1>6, <1>7, MoverFits DEF signIn
<1>11. Repeatable(sessions', exchanged, tab'[t])
  <2>1. tab[t].access \in Tokens /\ Issued(sessions, tab[t].access) /\ ~UsableIn(sessions, tab[t].access)
    BY <1>1, <1>2 DEF Fits, Request, Usable, Found, UsableIn
  <2>2. ~UsableIn(sessions', tab[t].access)
    BY <1>2, <1>3, <1>6, <1>7, <2>1, StillUnusable
  <2> QED
    BY <1>1, <1>9, <2>2 DEF Repeatable, Same
<1>12. Fits(tab'[t], sessions', exchanged, reachable)
  <2>1. tab'[t] \in Request
    BY <1>9 DEF Turns
  <2> HIDE DEF token
  <2> QED
    BY <1>2, <1>8, <1>9, <1>10, <1>11, <2>1, GivenFits
<1>13. ~Relied(p, t)
  BY <1>1 DEF HeldShared, Relied
<1> QED
  BY <1>1, <1>3, <1>4, <1>6, <1>7, <1>9, <1>12, <1>13, RowStep
-----------------------------------------------------------------------------
(* Time, the provider and the administrators. *)

LEMMA LapseStep ==
  ASSUME Inv, NEW p \in Proofs, Lapse(p) PROVE Inv'
<1> DEFINE life == IF sessions[p].life = "fresh" THEN "idle" ELSE "over"
           row == [sessions[p] EXCEPT !.life = life]
<1>1. /\ ~sessions[p].revoked /\ sessions[p].life # "over"
      /\ UNCHANGED <<proofs, signIn, browser, reachable, tab, faults>>
  BY DEF Lapse
<1>2. sessions \in [Proofs -> Row] /\ sessions[p] \in Row /\ sessions[p].issue <= sessions[p].version
  BY DEF Inv, TypeOK
<1>3. sessions' = [sessions EXCEPT ![p] = row] /\ sessions[p] # NoRow
  BY <1>1, <1>2 DEF Lapse, NoRow
<1>4. /\ Grown(sessions[p], row)
      /\ row.issue = sessions[p].issue /\ row.version = sessions[p].version
      /\ row.revoked = sessions[p].revoked /\ row.active = sessions[p].active
  BY <1>1, <1>2 DEF Grown, Row, Inv, Opened
<1> HIDE DEF row
<1>5. /\ sessions' \in [Proofs -> Row]
      /\ \A q \in Proofs : sessions'[q].issue <= sessions'[q].version
      /\ \A q \in Proofs : ~sessions'[q].revoked => sessions'[q].version <= MaxVersion
      /\ \A k \in Tokens : Issued(sessions, k) => Issued(sessions', k)
  BY <1>3, <1>4, SessionMoves
<1>6. TypeOK'
  BY <1>1, <1>5 DEF Inv, TypeOK, signIn, browser
<1>7. Opened'
  BY <1>1, <1>3, <1>5 DEF Inv, TypeOK, Opened, Proofs, signIn
<1>8. TokensIssued'
  <2>1. /\ jar' = jar /\ jar.access \in Tokens /\ jar.refresh \in Tokens
        /\ exchanged' = exchanged /\ \A a \in Authorizations : exchanged[a] \in Tokens
    BY <1>1 DEF Inv, TypeOK, browser, signIn
  <2> QED
    BY <1>5, <2>1 DEF Inv, TokensIssued
<1>9. RequestsFit'
  <2> SUFFICES ASSUME NEW t \in Tabs PROVE Fits(tab'[t], sessions', exchanged', reachable')
    BY DEF RequestsFit
  <2>1. tab[t] \in Request /\ Fits(tab[t], sessions, exchanged, reachable)
    BY DEF Inv, TypeOK, RequestsFit
  <2>2. tab[t].at = "locked" => Authorized(sessions', reachable, tab[t])
    <3>1. \A q \in Proofs : /\ sessions'[q].issue = sessions[q].issue
                            /\ sessions'[q].version = sessions[q].version
                            /\ sessions'[q].revoked = sessions[q].revoked
                            /\ sessions'[q].active = sessions[q].active
      BY <1>2, <1>3, <1>4
    <3>2. tab[t].at = "locked" => tab[t].access.of \in Proofs /\ Authorized(sessions, reachable, tab[t])
      BY <2>1, TokenTypes DEF Fits, InSession, Request
    <3> QED
      BY <3>1, <3>2 DEF Authorized
  <2>3. Fits(tab[t], sessions', exchanged, reachable)
    BY <1>2, <1>3, <1>4, <2>1, <2>2, OthersFit
  <2> QED
    BY <1>1, <2>3 DEF signIn
<1> QED
  BY <1>6, <1>7, <1>8, <1>9 DEF Inv

LEMMA StartStep ==
  ASSUME Inv, NEW a \in Authorizations, Start(a) PROVE Inv'
BY DEF Start, Inv, TypeOK, Opened, TokensIssued, RequestsFit

LEMMA LapseAttemptStep ==
  ASSUME Inv, NEW a \in Authorizations, LapseAttempt(a) PROVE Inv'
BY DEF LapseAttempt, browser, Inv, TypeOK, Opened, TokensIssued, RequestsFit

LEMMA DropAccessStep ==
  ASSUME Inv, DropAccess PROVE Inv'
<1>1. /\ jar' \in [access : Tokens, refresh : Tokens]
      /\ jar'.access = NoToken /\ jar'.refresh = jar.refresh
  BY TokenTypes DEF DropAccess, Inv, TypeOK
<1> QED
  BY <1>1 DEF DropAccess, signIn, Inv, TypeOK, Opened, TokensIssued, RequestsFit, Issued

LEMMA EndMembershipStep ==
  ASSUME Inv, NEW w \in Workspaces, EndMembership(w) PROVE Inv'
<1>1. /\ UNCHANGED <<proofs, signIn, browser, sessions, tab, faults>>
      /\ reachable' = reachable \ {w}
      /\ \A t \in Tabs : tab[t].at = "locked" => tab[t].workspace # w
  BY DEF EndMembership
<1>2. TypeOK' /\ Opened' /\ TokensIssued'
  BY <1>1 DEF Inv, TypeOK, Opened, TokensIssued, signIn, browser
<1>3. RequestsFit'
  <2> SUFFICES ASSUME NEW t \in Tabs PROVE Fits(tab[t], sessions, exchanged, reachable')
    BY <1>1 DEF RequestsFit, signIn
  <2>1. Fits(tab[t], sessions, exchanged, reachable)
    BY DEF Inv, RequestsFit
  <2>2. tab[t].at = "locked" => Authorized(sessions, reachable', tab[t])
    BY <1>1, <2>1 DEF Fits, Authorized
  <2> QED
    BY <2>1, <2>2 DEF Fits
<1> QED
  BY <1>2, <1>3 DEF Inv

LEMMA InvInit == Init => Inv
<1> SUFFICES ASSUME Init PROVE Inv
  OBVIOUS
<1>1. NoRow \in Row /\ NoRow.issue = 0 /\ NoRow.version = 0
  BY SessionAssumption DEF NoRow, Row
<1>2. TypeOK
  <2>1. /\ proofs \in {Authorizations, Assertions} /\ activated \in BOOLEAN
        /\ reachable \subseteq Workspaces
    BY DEF Init
  <2>2. sessions \in [Proofs -> Row] /\ \A p \in Proofs : sessions[p].issue <= sessions[p].version
    BY <1>1 DEF Init
  <2>3. jar \in [access : Tokens, refresh : Tokens] /\ exchanged \in [Authorizations -> Tokens]
    BY TokenTypes DEF Init
  <2>4. tab \in [Tabs -> Request] /\ faults \in 0..MaxFaults
    BY IdleFits, SessionAssumption DEF Init
  <2>5. /\ attempt \in [Authorizations -> {"none", "pending", "validated", "consumed"}]
        /\ lapsed \subseteq Authorizations /\ spent \subseteq Authorizations
        /\ flow \in Authorizations \cup {Nobody} /\ used \subseteq Assertions
    BY DEF Init
  <2> QED
    BY <2>1, <2>2, <2>3, <2>4, <2>5 DEF TypeOK
<1>3. Opened /\ TokensIssued
  BY <1>1, SessionAssumption DEF Init, Opened, TokensIssued, Issued, Proofs
<1>4. RequestsFit
  BY IdleFits DEF Init, RequestsFit
<1> QED
  BY <1>2, <1>3, <1>4 DEF Inv

LEMMA InvNext == Inv /\ [Next]_vars => Inv'
<1> SUFFICES ASSUME Inv, [Next]_vars PROVE Inv'
  OBVIOUS
<1>1. ASSUME NEW t \in Tabs, Page(t) PROVE Inv'
  BY <1>1, ClickStep, ReceiveCallbackStep, IdentifyStep, LookAgainStep, OpenByIdentityStep,
     ContactStep, AuthenticateStep, AuthorizeStep, CommitStep, SwitchContextStep, RevokeStep,
     RefreshAnsweredStep, RotateStep, RefreshFailsStep, DeliverStep, GiveUpStep, SendAgainStep
     DEF Page
<1>2. ASSUME NEW a \in Authorizations, Start(a) \/ LapseAttempt(a) PROVE Inv'
  BY <1>2, StartStep, LapseAttemptStep
<1>3. ASSUME NEW p \in Proofs, Lapse(p) PROVE Inv'
  BY <1>3, LapseStep
<1>4. ASSUME NEW w \in Unstable, EndMembership(w) PROVE Inv'
  BY <1>4, EndMembershipStep, SessionAssumption
<1>5. CASE DropAccess
  BY <1>5, DropAccessStep
<1>6. CASE UNCHANGED vars
  BY <1>6 DEF vars, Inv, TypeOK, Opened, TokensIssued, RequestsFit
<1> QED
  BY <1>1, <1>2, <1>3, <1>4, <1>5, <1>6 DEF Next

THEOREM Invariance == Spec => []Inv
BY InvInit, InvNext, PTL DEF Spec

\* Every variable keeps its type, and no session is numbered below the tokens it issued.
THEOREM SessionIsTyped == Spec => []TypeOK
<1>1. Inv => TypeOK
  BY DEF Inv
<1> QED
  BY <1>1, Invariance, PTL
-----------------------------------------------------------------------------
(* Properties. *)

LEMMA LockedIsAuthorized ==
  ASSUME Inv
  PROVE  \A t \in Tabs :
           tab[t].at = "locked" =>
             LET row == sessions[tab[t].access.of]
             IN /\ ~row.revoked /\ row.version = tab[t].seen
                /\ row.active = tab[t].workspace /\ tab[t].workspace \in reachable
BY DEF Inv, RequestsFit, Fits, Authorized

\* When an authorized command commits, its session is as it was when the command was
\* authenticated, and the membership stands, whatever other pages and administrators did
\* meanwhile (runAuthorizedWorkspace, identity-workspace.ts).
THEOREM CommandsAreAuthorizedAtCommit == Spec => AuthorizedAtCommit
<1>1. Inv /\ [Next]_vars =>
        [\A t \in Tabs :
           tab[t].at = "locked" /\ tab'[t].at # "locked" =>
             LET row == sessions[tab[t].access.of]
             IN /\ ~row.revoked /\ row.version = tab[t].seen
                /\ row.active = tab[t].workspace /\ tab[t].workspace \in reachable]_vars
  BY LockedIsAuthorized
<1> QED
  BY <1>1, Invariance, PTL DEF Spec, AuthorizedAtCommit

LEMMA OthersWait ==
  ASSUME Inv, NEW s \in Tabs, Page(s), NEW t \in Tabs \ {s}
  PROVE  tab'[t] = tab[t]
<1>1. tab \in [Tabs -> Request]
  BY DEF Inv, TypeOK
<1>2. ASSUME NEW answer, Answers(s, answer) PROVE tab'[t] = tab[t]
  BY <1>1, <1>2 DEF Answers
<1>3. ASSUME NEW sets, Deny(s, sets) PROVE tab'[t] = tab[t]
  BY <1>2, <1>3 DEF Deny
<1>4. ASSUME NEW at, Reaches(s, at) PROVE tab'[t] = tab[t]
  BY <1>1, <1>4 DEF Reaches
<1>5. ASSUME NEW token, Stored(s, token) PROVE tab'[t] = tab[t]
  BY <1>1, <1>5 DEF Stored
<1> USE <1>1, <1>2, <1>3, <1>4, <1>5
<1>6. CASE ReceiveCallback(s) \/ Identify(s) \/ GrantIsLost(s) \/ LookAgain(s) \/ OpenByIdentity(s)
  BY <1>6 DEF ReceiveCallback, Identify, GrantIsLost, LookAgain, OpenByIdentity
<1>7. CASE ExchangeContact(s) \/ Activate(s)
  BY <1>7 DEF ExchangeContact, Activate, NotCarriedOut, CarriedOut, WrongWay
<1>8. CASE Authenticate(s) \/ Authorize(s) \/ Commit(s) \/ SwitchContext(s) \/ Revoke(s)
  BY <1>8 DEF Authenticate, Authorize, Commit, SwitchContext, Revoke
<1>9. CASE RefreshAnswered(s) \/ Rotate(s) \/ RefreshFails(s)
  BY <1>9 DEF RefreshAnswered, Rotate, RefreshFails
<1>10. CASE Click(s) \/ Deliver(s) \/ GiveUp(s) \/ SendAgain(s)
  BY <1>10 DEF Click, Deliver, GiveUp, SendAgain
<1> QED
  BY <1>6, <1>7, <1>8, <1>9, <1>10 DEF Page

\* An answer that a page is to act on is the answer it was given.
LEMMA AnsweredSo ==
  ASSUME Inv, NEW t \in Tabs, NEW answer \in Answer, Answers(t, answer), tab'[t].at = "answered"
  PROVE  tab'[t].answer = answer
<1>1. Idle.at # "answered"
  BY DEF Idle
<1> QED
  BY <1>1, AnswersEnds DEF Inv, Ended

LEMMA RepeatedPage ==
  ASSUME Inv, NEW t \in Tabs, Page(t),
         tab[t].at # "answered", tab'[t].at = "answered", tab[t].stored # NoToken,
         faults' = faults, tab[t].proof \notin lapsed
  PROVE  tab'[t].answer.token = tab[t].stored
<1>1. /\ tab[t] \in Request /\ tab \in [Tabs -> Request] /\ faults \in Nat
      /\ Fits(tab[t], sessions, exchanged, reachable) /\ Repeatable(sessions, exchanged, tab[t])
      /\ tab[t].stored \in Tokens
  BY SessionAssumption DEF Inv, TypeOK, RequestsFit, Fits, Request
<1>2. tab[t].at \notin InCallback /\ tab[t].at \notin InSession
  BY <1>1 DEF Fits, Repeatable, SignsIn
<1>3. Replayed(t)
  BY DEF Replayed
<1>4. ASSUME Answers(t, Ok("tokens", tab[t].stored)) PROVE tab'[t].answer.token = tab[t].stored
  BY <1>1, <1>4, AnsweredSo, AnswerTypes
<1>5. CASE ReceiveCallback(t)
  <2>1. tab[t].flow = tab[t].proof /\ exchanged[tab[t].proof] = tab[t].stored
    BY <1>1, <1>5 DEF ReceiveCallback, Receives, Asked, Refreshes, Repeatable
  <2> QED
    BY <1>4, <1>5, <2>1 DEF ReceiveCallback
<1>6. CASE ExchangeContact(t) \/ Activate(t)
  <2>1. Answers(t, Ok("tokens", tab[t].stored))
    BY <1>3, <1>6 DEF ExchangeContact, Activate, NotCarriedOut, CarriedOut, WrongWay
  <2> QED
    BY <1>4, <2>1
<1>7. CASE RefreshAnswered(t)
  <2>1. ~Usable(tab[t].access)
    BY <1>1, <1>7 DEF RefreshAnswered, ReceivesRefresh, Refreshes, Repeatable, Usable, Found, UsableIn
  <2>2. Answers(t, Ok("tokens", tab[t].stored))
    BY <1>3, <1>7, <2>1 DEF RefreshAnswered
  <2> QED
    BY <1>4, <2>2
<1>8. ~Rotate(t)
  BY <1>3 DEF Rotate
<1>9. ~RefreshFails(t) /\ ~GrantIsLost(t) /\ ~GiveUp(t) /\ ~SendAgain(t)
  BY <1>1 DEF RefreshFails, GrantIsLost, GiveUp, SendAgain
<1>10. ~Identify(t) /\ ~LookAgain(t) /\ ~OpenByIdentity(t)
  BY <1>2 DEF Identify, LookAgain, OpenByIdentity, InCallback
<1>11. ~Authorize(t) /\ ~Commit(t) /\ ~SwitchContext(t) /\ ~Revoke(t)
  BY <1>2 DEF Authorize, Commit, SwitchContext, Revoke, Authenticated, InSession
<1>12. ~Authenticate(t)
  BY <1>1 DEF Authenticate, Receives, Asked, Refreshes, Repeatable
<1>13. ~Click(t) /\ ~Deliver(t)
  BY <1>1 DEF Click, Asks, Deliver
<1> QED
  BY <1>5, <1>6, <1>7, <1>8, <1>9, <1>10, <1>11, <1>12, <1>13 DEF Page

LEMMA RepeatedStep ==
  ASSUME Inv, [Next]_vars, NEW t \in Tabs,
         tab[t].at # "answered", tab'[t].at = "answered", tab[t].stored # NoToken,
         faults' = faults, tab[t].proof \notin lapsed
  PROVE  tab'[t].answer.token = tab[t].stored
<1>1. tab' # tab
  OBVIOUS
<1>2. PICK s \in Tabs : Page(s)
  BY <1>1 DEF Next, Start, LapseAttempt, Lapse, EndMembership, DropAccess, vars
<1>3. s = t
  BY <1>2, OthersWait
<1> QED
  BY <1>2, <1>3, RepeatedPage

\* What was carried out and is sent again is answered with the very tokens it issued
\* (idempotency keys of the sign-in and refresh routes; http.ts).
THEOREM RepeatsAreHarmless == Spec => ResendIsHarmless
<1>1. Inv /\ [Next]_vars =>
        [\A t \in Tabs :
           /\ tab[t].at # "answered" /\ tab'[t].at = "answered"
           /\ tab[t].stored # NoToken
           /\ faults' = faults /\ tab[t].proof \notin lapsed
           => tab'[t].answer.token = tab[t].stored]_vars
  BY RepeatedStep
<1> QED
  BY <1>1, Invariance, PTL DEF Spec, ResendIsHarmless
-----------------------------------------------------------------------------
(* The sessions implement the families of tokens. *)

Alive(row) == ~row.revoked /\ row.life # "over"

\* What a step may do to a session: open it, replace its tokens by later ones, or keep its tokens
\* and leave it as it was or end it.
Opens(old, new) == old = NoRow /\ Alive(new) /\ new.issue = 1
Replaces(old, new) == Alive(old) /\ Alive(new) /\ new.issue \in Nat /\ new.issue > old.issue
Keeps(old, new) == old # NoRow /\ new.issue = old.issue /\ (Alive(new) => Alive(old))

Advances(p, row) ==
  /\ sessions' = [sessions EXCEPT ![p] = row]
  /\ Opens(sessions[p], row) \/ Replaces(sessions[p], row) \/ Keeps(sessions[p], row)

\* An opened session has issued a token.
Numbered == \A p \in Proofs : sessions[p] # NoRow => sessions[p].issue > 0

LEMMA OpenByIdentityAdvances ==
  ASSUME Inv, NEW t \in Tabs, OpenByIdentity(t)
  PROVE  UNCHANGED sessions \/ \E p \in Proofs : \E row : Advances(p, row)
<1> DEFINE a == tab[t].proof
           only == IF Cardinality(reachable) = 1 THEN CHOOSE w \in reachable : TRUE ELSE Nowhere
<1>1. tab[t].at \in InCallback
  BY DEF OpenByIdentity, InCallback
<1>2. a \in Authorizations /\ a \in Proofs
  BY <1>1, InCallbackIs DEF Proofs
<1>3. CASE UNCHANGED sessions
  BY <1>3
<1>4. CASE Consumable(a) /\ sessions' = [sessions EXCEPT ![a] = FreshRow(only)]
  <2>1. sessions[a] = NoRow
    BY <1>2, <1>4 DEF Inv, Opened, Consumable
  <2>2. Alive(FreshRow(only)) /\ FreshRow(only).issue = 1
    BY DEF Alive, FreshRow
  <2> QED
    BY <1>2, <1>4, <2>1, <2>2 DEF Advances, Opens
<1> QED
  BY <1>3, <1>4 DEF OpenByIdentity

LEMMA ContactAdvances ==
  ASSUME Inv, NEW t \in Tabs, ExchangeContact(t) \/ Activate(t)
  PROVE  UNCHANGED sessions \/ \E p \in Proofs : \E row : Advances(p, row)
<1> DEFINE p == tab[t].proof
<1>1. CASE CarriedOut(t)
  <2>1. p \in Assertions
    BY DEF ExchangeContact, Activate, Receives, Asked, Inv, RequestsFit, Fits
  <2>2. p \in Proofs /\ sessions[p] = NoRow
    BY <1>1, <2>1 DEF CarriedOut, Unused, Inv, Opened, Proofs
  <2>3. Alive(FreshRow(Home)) /\ FreshRow(Home).issue = 1
    BY DEF Alive, FreshRow
  <2>4. sessions' = [sessions EXCEPT ![p] = FreshRow(Home)]
    BY <1>1 DEF CarriedOut
  <2> QED
    BY <2>2, <2>3, <2>4 DEF Advances, Opens
<1>2. CASE ~CarriedOut(t)
  BY <1>2 DEF ExchangeContact, Activate, NotCarriedOut, WrongWay
<1> QED
  BY <1>1, <1>2

LEMMA SwitchContextAdvances ==
  ASSUME Inv, NEW t \in Tabs, SwitchContext(t)
  PROVE  UNCHANGED sessions \/ \E p \in Proofs : \E row : Advances(p, row)
<1> DEFINE p == tab[t].access.of
           row == [sessions[p] EXCEPT !.version = @ + 1, !.active = tab[t].workspace]
<1>1. p \in Proofs /\ sessions[p] # NoRow /\ sessions[p] \in Row
  BY AuthenticatedIs DEF Inv, TypeOK, SwitchContext, Authenticated
<1>2. CASE UNCHANGED sessions
  BY <1>2
<1>3. CASE sessions' = [sessions EXCEPT ![p].version = @ + 1, ![p].active = tab[t].workspace]
  <2>1. row.issue = sessions[p].issue /\ row.revoked = sessions[p].revoked /\ row.life = sessions[p].life
    BY <1>1 DEF Row
  <2>2. sessions' = [sessions EXCEPT ![p] = row]
    BY <1>1, <1>3 DEF Inv, TypeOK
  <2> HIDE DEF row
  <2> QED
    BY <1>1, <2>1, <2>2 DEF Advances, Keeps, Alive
<1> QED
  BY <1>2, <1>3 DEF SwitchContext

LEMMA RevokeAdvances ==
  ASSUME Inv, NEW t \in Tabs, Revoke(t)
  PROVE  UNCHANGED sessions \/ \E p \in Proofs : \E row : Advances(p, row)
<1> DEFINE p == tab[t].access.of
           row == [sessions[p] EXCEPT !.version = @ + 1, !.revoked = TRUE]
<1>1. p \in Proofs /\ sessions[p] # NoRow /\ sessions[p] \in Row
  BY AuthenticatedIs DEF Inv, TypeOK, Revoke, Authenticated
<1>2. CASE UNCHANGED sessions
  BY <1>2
<1>3. CASE sessions' = [sessions EXCEPT ![p].version = @ + 1, ![p].revoked = TRUE]
  <2>1. row.issue = sessions[p].issue /\ row.revoked = TRUE
    BY <1>1 DEF Row
  <2>2. sessions' = [sessions EXCEPT ![p] = row]
    BY <1>1, <1>3 DEF Inv, TypeOK
  <2> HIDE DEF row
  <2> QED
    BY <1>1, <2>1, <2>2 DEF Advances, Keeps, Alive
<1> QED
  BY <1>2, <1>3 DEF Revoke

LEMMA RotateAdvances ==
  ASSUME Inv, NEW t \in Tabs, Rotate(t)
  PROVE  \E p \in Proofs : \E row : Advances(p, row)
<1> DEFINE p == tab[t].refresh.of
           next == sessions[p].version + 1
           row == [sessions[p] EXCEPT !.version = next, !.issue = next, !.life = "fresh"]
<1>1. tab[t].refresh \in Tokens /\ Renewable(tab[t].refresh)
  BY DEF Rotate, Inv, TypeOK, Request
<1>2. p \in Proofs /\ sessions[p] \in Row /\ sessions[p].issue <= sessions[p].version
  BY <1>1, TokenTypes DEF Renewable, Found, Inv, TypeOK
<1>3. next \in Nat /\ next > sessions[p].issue
  BY <1>2, SessionAssumption DEF Row
<1>4. sessions' = [sessions EXCEPT ![p] = row]
  BY <1>2 DEF Rotate, Inv, TypeOK
<1> HIDE DEF next
<1>5. row.issue = next /\ row.revoked = sessions[p].revoked /\ row.life = "fresh"
  BY <1>2 DEF Row
<1>6. Alive(sessions[p])
  BY <1>1 DEF Renewable, Alive
<1> HIDE DEF row
<1> QED
  BY <1>2, <1>3, <1>4, <1>5, <1>6 DEF Advances, Replaces, Alive

LEMMA LapseAdvances ==
  ASSUME Inv, NEW p \in Proofs, Lapse(p)
  PROVE  \E row : Advances(p, row)
<1> DEFINE row == [sessions[p] EXCEPT !.life = IF sessions[p].life = "fresh" THEN "idle" ELSE "over"]
<1>1. sessions[p] \in Row /\ Alive(sessions[p]) /\ sessions[p] # NoRow
  BY DEF Lapse, Inv, TypeOK, Alive, NoRow
<1>2. row.issue = sessions[p].issue
  BY <1>1 DEF Row
<1>3. sessions' = [sessions EXCEPT ![p] = row]
  BY <1>1 DEF Lapse, Inv, TypeOK
<1> HIDE DEF row
<1> QED
  BY <1>1, <1>2, <1>3 DEF Advances, Keeps

LEMMA SessionsAdvance ==
  ASSUME Inv, [Next]_vars
  PROVE  UNCHANGED sessions \/ \E p \in Proofs : \E row : Advances(p, row)
<1>1. ASSUME NEW t \in Tabs, Page(t)
      PROVE  UNCHANGED sessions \/ \E p \in Proofs : \E row : Advances(p, row)
  <2>1. CASE \/ ReceiveCallback(t) \/ Identify(t) \/ GrantIsLost(t) \/ LookAgain(t)
             \/ Authenticate(t) \/ Authorize(t) \/ Commit(t)
    BY <2>1 DEF ReceiveCallback, Identify, GrantIsLost, LookAgain, Authenticate, Authorize, Commit
  <2>2. CASE \/ Click(t) \/ RefreshAnswered(t) \/ RefreshFails(t)
             \/ Deliver(t) \/ GiveUp(t) \/ SendAgain(t)
    BY <2>2 DEF Click, RefreshAnswered, RefreshFails, Deliver, GiveUp, SendAgain
  <2>3. CASE OpenByIdentity(t) \/ ExchangeContact(t) \/ Activate(t)
    BY <2>3, OpenByIdentityAdvances, ContactAdvances
  <2>4. CASE SwitchContext(t) \/ Revoke(t) \/ Rotate(t)
    BY <2>4, SwitchContextAdvances, RevokeAdvances, RotateAdvances
  <2> QED
    BY <1>1, <2>1, <2>2, <2>3, <2>4 DEF Page
<1>2. CASE \E p \in Proofs : Lapse(p)
  BY <1>2, LapseAdvances
<1>3. CASE \/ \E a \in Authorizations : Start(a) \/ LapseAttempt(a)
           \/ \E w \in Unstable : EndMembership(w)
           \/ DropAccess \/ UNCHANGED vars
  BY <1>3 DEF Start, LapseAttempt, EndMembership, DropAccess, vars
<1> QED
  BY <1>1, <1>2, <1>3 DEF Next

LEMMA NumberedStep == Inv /\ Numbered /\ [Next]_vars => Numbered'
<1> SUFFICES ASSUME Inv, Numbered, [Next]_vars PROVE Numbered'
  OBVIOUS
<1>1. CASE UNCHANGED sessions
  BY <1>1 DEF Numbered
<1>2. ASSUME NEW p \in Proofs, NEW row, Advances(p, row) PROVE Numbered'
  <2>1. sessions \in [Proofs -> Row] /\ sessions[p].issue \in Nat
    BY SessionAssumption DEF Inv, TypeOK, Row
  <2>2. row.issue > 0
    BY <1>2, <2>1 DEF Advances, Opens, Replaces, Keeps, Numbered
  <2> QED
    BY <1>2, <2>1, <2>2 DEF Advances, Numbered
<1> QED
  BY <1>1, <1>2, SessionsAdvance

\* Each session is a family of tokens: one proof opens it once, each refresh replaces the
\* accepted tokens by later ones, and one that was revoked or ran out accepts none again
\* (identity-workspace.ts; project-documents/40_BACKEND_ARCHITECTURE.md, section 4).
THEOREM SessionsImplementFamilies == Spec => KeepsToFamily
<1> DEFINE View == [p \in Proofs |-> [stage |-> Stage(sessions[p]), token |-> sessions[p].issue]]
           Moves == \E p \in Proofs : Family!Open(p) \/ Family!Rotate(p) \/ Family!End(p)
<1>1. Init => Numbered /\ Family!Unopened
  BY DEF Init, Numbered, Family!Unopened, Stage, NoRow
<1>2. ASSUME Inv, Numbered, [Next]_vars PROVE [Moves]_View
  <2>1. CASE UNCHANGED sessions
    BY <2>1 DEF Stage
  <2>2. ASSUME NEW p \in Proofs, NEW row, Advances(p, row) PROVE [Moves]_View
    <3> DEFINE seen == [stage |-> Stage(row), token |-> row.issue]
    <3>1. sessions \in [Proofs -> Row] /\ ~Alive(NoRow)
      BY <1>2 DEF Inv, TypeOK, NoRow, Alive
    <3>2. sessions'[p] = row /\ \A q \in Proofs \ {p} : sessions'[q] = sessions[q]
      BY <2>2, <3>1 DEF Advances
    <3>3. View' = [View EXCEPT ![p] = seen]
      BY <3>2
    <3>4. View[p].stage = Stage(sessions[p]) /\ View[p].token = sessions[p].issue
      OBVIOUS
    <3>5. CASE Opens(sessions[p], row)
      <4>1. /\ Stage(sessions[p]) = "unopened" /\ sessions[p].issue = 0
            /\ Stage(row) = "open" /\ row.issue = 1
        BY <3>1, <3>5 DEF Opens, Stage, Alive, NoRow
      <4>2. Family!Open(p)
        BY <3>3, <3>4, <4>1 DEF Family!Open
      <4> QED
        BY <4>2
    <3>6. CASE Replaces(sessions[p], row)
      <4>1. Stage(sessions[p]) = "open" /\ Stage(row) = "open" /\ row.issue > sessions[p].issue
        BY <3>1, <3>6 DEF Replaces, Stage, Alive
      <4>2. View'[p].token = row.issue /\ View' = [View EXCEPT ![p].token = row.issue]
        BY <3>3, <3>4, <4>1
      <4>3. Family!Rotate(p)
        BY <3>4, <4>1, <4>2 DEF Family!Rotate
      <4> QED
        BY <4>3
    <3>7. CASE Keeps(sessions[p], row)
      <4>1. sessions[p] # NoRow /\ row # NoRow /\ row.issue = sessions[p].issue
        <5>1. sessions[p] # NoRow /\ row.issue = sessions[p].issue /\ sessions[p].issue > 0
          BY <1>2, <3>7 DEF Keeps, Numbered
        <5>2. NoRow.issue = 0 /\ ~(0 > 0)
          BY DEF NoRow
        <5> QED
          BY <5>1, <5>2
      <4>2. CASE Alive(sessions[p]) /\ ~Alive(row)
        <5>1. Stage(sessions[p]) = "open" /\ Stage(row) = "ended"
          BY <4>1, <4>2 DEF Stage, Alive
        <5>2. View' = [View EXCEPT ![p].stage = "ended"]
          BY <3>3, <3>4, <4>1, <5>1
        <5>3. Family!End(p)
          BY <3>4, <5>1, <5>2 DEF Family!End
        <5> QED
          BY <5>3
      <4>3. CASE Alive(sessions[p]) = Alive(row)
        <5>1. Stage(row) = Stage(sessions[p])
          BY <4>1, <4>3 DEF Stage, Alive
        <5>2. View' = View
          BY <3>3, <3>4, <4>1, <5>1
        <5> QED
          BY <5>2
      <4> QED
        BY <3>7, <4>2, <4>3 DEF Keeps, Alive
    <3> QED
      BY <2>2, <3>5, <3>6, <3>7 DEF Advances
  <2> QED
    BY <1>2, <2>1, <2>2, SessionsAdvance
<1> QED
  BY <1>1, <1>2, NumberedStep, Invariance, PTL DEF Spec, KeepsToFamily, Family!FamilySpec
=============================================================================
