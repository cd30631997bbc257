------------------------------ MODULE Session -------------------------------
(***************************************************************************)
(* Signing in, refreshing, using and leaving a session: the browser routes *)
(* of apps/api/src/app.ts, the adapters behind them                        *)
(* (postgres/identity-workspace.ts, oidc-authorization.ts,                 *)
(* solver-activation.ts) and the client that calls them (lib/api/http.ts,  *)
(* components/runtime-provider.tsx).                                       *)
(*                                                                         *)
(* The tabs are pages of one browser and of one person: they share its     *)
(* cookies, and each has one request on the way at a time.  A request      *)
(* passes through the transactions of its handler one by one; what one     *)
(* transaction does under its row locks is one step.  An authorized        *)
(* command is two: it takes its locks, and it commits.                     *)
(*                                                                         *)
(* The identity provider and the provider of contact assertions are the    *)
(* environment, as are the administrators who change memberships.  A       *)
(* person signs in one way: through an authorization or by a contact.      *)
(***************************************************************************)
EXTENDS Naturals, FiniteSets

CONSTANTS
  Tabs,            \* pages of the browser
  Authorizations,  \* authorizations at the identity provider
  Assertions,      \* assertions that the person's contact is verified
  Workspaces,      \* the workspaces of the person
  Home,            \* the one that activation creates
  Unstable,        \* bound: the workspaces whose membership may end
  MaxVersion,      \* bound: the versions of a session
  MaxFaults        \* bound: lost answers, requests sent again, failed transactions

ASSUME SessionAssumption ==
  /\ Authorizations \cap Assertions = {}
  /\ Home \in Workspaces /\ Unstable \subseteq Workspaces
  /\ MaxVersion \in Nat \ {0}
  /\ MaxFaults \in Nat

Proofs == Authorizations \cup Assertions
Nobody == "none"
NoToken == [of |-> Nobody, issue |-> 0]
Tokens == [of : Proofs, issue : 1..MaxVersion] \cup {NoToken}

VARIABLES
  proofs,     \* what this person signs in with: Authorizations or Assertions
  attempt,    \* oidc_authorization_attempt: its status
  lapsed,     \* attempts whose ten minutes are over
  spent,      \* authorizations whose code the provider has exchanged
  flow,       \* the flow cookie: which authorization the browser has under way
  exchanged,  \* the stored response of an authorization's callback, whose key never changes
  used,       \* contact_verification_consumption
  activated,  \* the contact has an account
  sessions,   \* app_session
  reachable,  \* workspaces with an active membership of the person
  jar,        \* the browser's two session cookies
  tab,        \* the request of each page
  faults      \* history: how many faults there were

vars == <<proofs, attempt, lapsed, spent, flow, exchanged, used, activated, sessions, reachable,
          jar, tab, faults>>

Nowhere == "nowhere"

\* "issue" is the version whose tokens the row has the digests of; "life" says whether both
\* tokens, the refresh token or neither is within its time.
Row == [issue : 0..MaxVersion, version : 0..(MaxVersion + 1), revoked : BOOLEAN,
        life : {"fresh", "idle", "over"}, active : Workspaces \cup {Nowhere}]
NoRow == [issue |-> 0, version |-> 0, revoked |-> FALSE, life |-> "over", active |-> Nowhere]

\* What a response does to the cookies, whether it is a success, and whether it bears the header
\* that asks the page to refresh.
Answer == [sets : {"keep", "clear", "tokens"}, token : Tokens, ok : BOOLEAN, hint : BOOLEAN]
Ok(sets, token) == [sets |-> sets, token |-> token, ok |-> TRUE, hint |-> FALSE]
Fail(sets) == [sets |-> sets, token |-> NoToken, ok |-> FALSE, hint |-> FALSE]
NoAnswer == Fail("keep")

Clicks == {"callback", "contact", "activate", "command", "switch", "signOut"}
SignsIn == {"callback", "contact", "activate"}

\* The page's request: what was clicked; whether that is on the way, the refresh it needs or, after
\* the refresh, that again; how far the server is; the cookies it carries; the version the server
\* authenticated; the tokens stored under its key.
Request == [click : Clicks, doing : {"click", "refresh", "again"},
            at : {"idle", "sent", "exchanging", "identified", "creating", "authenticated", "locked",
                  "answered"},
            proof : Proofs \cup {Nobody}, flow : Authorizations \cup {Nobody},
            workspace : Workspaces \cup {Nowhere}, access : Tokens, refresh : Tokens,
            seen : 0..MaxVersion, stored : Tokens,
            answer : Answer]

\* A request carries the cookies that its handler reads: the flow cookie at the callback, else the
\* access cookie, or the refresh cookie where that is missing.
Asks(click, proof, workspace) ==
  LET atCallback == click = "callback"
  IN [click |-> click, doing |-> "click", at |-> "sent", proof |-> proof,
      flow |-> IF atCallback THEN flow ELSE Nobody, workspace |-> workspace,
      access |-> IF atCallback THEN NoToken ELSE jar.access,
      refresh |-> IF atCallback \/ jar.access # NoToken THEN NoToken ELSE jar.refresh,
      seen |-> 0, stored |-> NoToken, answer |-> NoAnswer]

Idle == [click |-> "command", doing |-> "click", at |-> "idle", proof |-> Nobody, flow |-> Nobody,
         workspace |-> Nowhere, access |-> NoToken, refresh |-> NoToken, seen |-> 0,
         stored |-> NoToken, answer |-> NoAnswer]

Init ==
  /\ proofs \in {Authorizations, Assertions}
  /\ attempt = [a \in Authorizations |-> "none"]
  /\ lapsed = {}
  /\ spent = {}
  /\ flow = Nobody
  /\ exchanged = [a \in Authorizations |-> NoToken]
  /\ used = {}
  /\ activated \in IF proofs = Assertions THEN BOOLEAN ELSE {FALSE}
  /\ sessions = [p \in Proofs |-> NoRow]
  /\ reachable = IF proofs = Authorizations \/ activated THEN Workspaces ELSE {}
  /\ jar = [access |-> NoToken, refresh |-> NoToken]
  /\ tab = [t \in Tabs |-> Idle]
  /\ faults = 0
-----------------------------------------------------------------------------
(* The pages. *)

signIn == <<attempt, lapsed, spent, exchanged, used, activated>>
browser == <<flow, jar>>

\* The page asks for an authorization URL; its key makes a repeated start the same attempt.
Start(a) ==
  /\ a \in proofs
  /\ attempt[a] = "none"
  /\ attempt' = [attempt EXCEPT ![a] = "pending"]
  /\ flow' = a
  /\ UNCHANGED <<proofs, lapsed, spent, exchanged, used, activated, sessions, reachable, jar, tab,
                 faults>>

\* Without a session cookie a click inside a session is refused and changes nothing.
Offered ==
  {<<"callback", a, Nowhere>> : a \in {a \in Authorizations : attempt[a] # "none"}}
  \cup {<<click, p, Nowhere>> : click \in {"contact", "activate"}, p \in proofs \cap Assertions}
  \cup (IF jar.access = NoToken /\ jar.refresh = NoToken THEN {} ELSE
          {<<click, Nobody, w>> : click \in {"command", "switch"}, w \in Workspaces}
          \cup {<<"signOut", Nobody, Nowhere>>})

Click(t) ==
  /\ tab[t].at = "idle"
  /\ \E request \in Offered :
       tab' = [tab EXCEPT ![t] = Asks(request[1], request[2], request[3])]
  /\ UNCHANGED <<proofs, signIn, browser, sessions, reachable, faults>>

\* Mutant of Replayed: a request sent again is carried out anew.
ReplayedNever(t) == FALSE

\* The key of the request has an answer stored.
Replayed(t) == tab[t].stored # NoToken

Refreshes(t) == tab[t].doing = "refresh"
Asked(t, clicks) == ~Refreshes(t) /\ tab[t].click \in clicks
Receives(t, clicks) == tab[t].at = "sent" /\ Asked(t, clicks)

Reaches(t, at) == tab' = [tab EXCEPT ![t].at = at]

\* An answer that leaves the cookies alone and that the page does not act on is not followed.
Answers(t, answer) ==
  tab' = [tab EXCEPT ![t] =
            IF /\ answer.sets = "keep" /\ ~Refreshes(t) /\ ~Asked(t, {"callback"})
               /\ answer.hint => tab[t].doing = "again"
            THEN Idle ELSE [@ EXCEPT !.at = "answered", !.answer = answer]]

\* A 403 asks the page to refresh when the request came without the one cookie and with the other.
Deny(t, sets) ==
  Answers(t, [Fail(sets) EXCEPT !.hint = /\ tab[t].access = NoToken
                                         /\ tab[t].refresh # NoToken])

Stored(t, token) ==
  tab' = [tab EXCEPT ![t].at = "answered", ![t].answer = Ok("tokens", token), ![t].stored = token]
-----------------------------------------------------------------------------
(* Rows of app_session, and who holds them. *)

Found(token) == token # NoToken /\ sessions[token.of].issue = token.issue

\* sessionIsUsable
Usable(token) ==
  /\ Found(token)
  /\ ~sessions[token.of].revoked
  /\ sessions[token.of].life = "fresh"

Renewable(token) ==
  /\ Found(token)
  /\ ~sessions[token.of].revoked
  /\ sessions[token.of].life # "over"

\* Mutant of HeldShared: a command reads its session without locking it.
HeldSharedNever(p) == FALSE

\* An authorized command holds its session row FOR SHARE until it commits.
HeldShared(p) == \E t \in Tabs : tab[t].at = "locked" /\ tab[t].access.of = p

FreshRow(active) ==
  [issue |-> 1, version |-> 1, revoked |-> FALSE, life |-> "fresh", active |-> active]
-----------------------------------------------------------------------------
(* Signing in through an authorization: four transactions. *)

ReceiveCallback(t) ==
  LET a == tab[t].proof IN
  /\ Receives(t, {"callback"})
  /\ \/ (tab[t].flow # a \/ a \in lapsed) /\ Answers(t, Fail("keep"))
     \/ /\ tab[t].flow = a /\ a \notin lapsed
        /\ \/ exchanged[a] # NoToken /\ Answers(t, Ok("tokens", exchanged[a]))
           \/ exchanged[a] = NoToken /\ Reaches(t, "exchanging")
  /\ UNCHANGED <<proofs, signIn, browser, sessions, reachable, faults>>

\* PostgresOidcAuthorizationAdapter.exchange, which holds the attempt's row across the call to
\* the provider.
Identify(t) ==
  LET a == tab[t].proof
      known == attempt[a] = "validated"
      grants == attempt[a] = "pending" /\ a \notin spent
  IN /\ tab[t].at = "exchanging"
     /\ IF a \notin lapsed /\ (known \/ grants)
        THEN /\ attempt' = [attempt EXCEPT ![a] = "validated"]
             /\ spent' = spent \cup {a}
             /\ Reaches(t, "identified")
        ELSE Answers(t, Fail("keep")) /\ UNCHANGED <<attempt, spent>>
     /\ UNCHANGED <<proofs, lapsed, exchanged, used, activated, browser, sessions, reachable,
                    faults>>

\* The provider exchanges the code, and the transaction that would record it fails.
GrantIsLost(t) ==
  LET a == tab[t].proof IN
  /\ faults < MaxFaults
  /\ tab[t].at = "exchanging"
  /\ a \notin lapsed /\ attempt[a] = "pending" /\ a \notin spent
  /\ spent' = spent \cup {a}
  /\ faults' = faults + 1
  /\ Answers(t, Fail("keep"))
  /\ UNCHANGED <<proofs, attempt, lapsed, exchanged, used, activated, browser, sessions, reachable>>

LookAgain(t) ==
  LET a == tab[t].proof IN
  /\ tab[t].at = "identified"
  /\ IF exchanged[a] # NoToken THEN Answers(t, Ok("tokens", exchanged[a])) ELSE Reaches(t, "creating")
  /\ UNCHANGED <<proofs, signIn, browser, sessions, reachable, faults>>

\* Mutant of Consumable: the update does not ask for the status.
ConsumableTwice(a) == attempt[a] \in {"validated", "consumed"}

\* consume: the update must hit a validated attempt.
Consumable(a) == attempt[a] = "validated"

OpenByIdentity(t) ==
  LET a == tab[t].proof
      token == [of |-> a, issue |-> 1]
      only == IF Cardinality(reachable) = 1 THEN CHOOSE w \in reachable : TRUE ELSE Nowhere
  IN /\ tab[t].at = "creating"
     /\ IF Consumable(a) /\ reachable # {}
        THEN /\ attempt' = [attempt EXCEPT ![a] = "consumed"]
             /\ sessions' = [sessions EXCEPT ![a] = FreshRow(only)]
             /\ exchanged' = [exchanged EXCEPT ![a] = token]
             /\ Stored(t, token)
        ELSE Answers(t, Fail("keep")) /\ UNCHANGED <<attempt, sessions, exchanged>>
     /\ UNCHANGED <<proofs, lapsed, spent, used, activated, browser, reachable, faults>>
-----------------------------------------------------------------------------
(* Signing in by a verified contact: one transaction under the contact's advisory lock. *)

Unused(p) == p \notin used

\* Stored before, or used up: nothing changes.
NotCarriedOut(t) ==
  /\ \/ Replayed(t) /\ Answers(t, Ok("tokens", tab[t].stored))
     \/ ~Replayed(t) /\ ~Unused(tab[t].proof) /\ Deny(t, "keep")
  /\ UNCHANGED <<used, activated, sessions, reachable>>

CarriedOut(t) ==
  LET p == tab[t].proof IN
  /\ ~Replayed(t) /\ Unused(p)
  /\ used' = used \cup {p}
  /\ sessions' = [sessions EXCEPT ![p] = FreshRow(Home)]
  /\ Stored(t, [of |-> p, issue |-> 1])

\* 409: the contact has no account, or has one already.
WrongWay(t) ==
  /\ ~Replayed(t) /\ Unused(tab[t].proof)
  /\ Answers(t, Fail("keep"))
  /\ UNCHANGED <<used, activated, sessions, reachable>>

ExchangeContact(t) ==
  /\ Receives(t, {"contact"})
  /\ \/ NotCarriedOut(t)
     \/ activated /\ CarriedOut(t) /\ UNCHANGED <<activated, reachable>>
     \/ ~activated /\ WrongWay(t)
  /\ UNCHANGED <<proofs, attempt, lapsed, spent, exchanged, browser, faults>>

\* The account comes with the permanent individual workspace and its membership.
Activate(t) ==
  /\ Receives(t, {"activate"})
  /\ \/ NotCarriedOut(t)
     \/ /\ ~activated /\ CarriedOut(t)
        /\ activated' = TRUE
        /\ reachable' = reachable \cup {Home}
     \/ activated /\ WrongWay(t)
  /\ UNCHANGED <<proofs, attempt, lapsed, spent, exchanged, browser, faults>>
-----------------------------------------------------------------------------
(* Inside a session. *)

Authenticate(t) ==
  /\ Receives(t, {"command", "switch", "signOut"})
  /\ IF Usable(tab[t].access)
     THEN tab' = [tab EXCEPT ![t].at = "authenticated",
                             ![t].seen = sessions[tab[t].access.of].version]
     ELSE Deny(t, IF tab[t].click = "signOut" THEN "clear" ELSE "keep")
  /\ UNCHANGED <<proofs, signIn, browser, sessions, reachable, faults>>

Authenticated(t, click) == tab[t].at = "authenticated" /\ Asked(t, {click})
AsSeen(t) == sessions[tab[t].access.of].version = tab[t].seen

\* runAuthorizedWorkspace up to the operation: session, context and membership, all locked.
Authorize(t) ==
  /\ Authenticated(t, "command")
  /\ IF /\ Usable(tab[t].access) /\ AsSeen(t)
        /\ sessions[tab[t].access.of].active = tab[t].workspace
        /\ tab[t].workspace \in reachable
     THEN Reaches(t, "locked")
     ELSE Answers(t, Fail("keep"))
  /\ UNCHANGED <<proofs, signIn, browser, sessions, reachable, faults>>

Commit(t) ==
  /\ tab[t].at = "locked"
  /\ Answers(t, Ok("keep", NoToken))
  /\ UNCHANGED <<proofs, signIn, browser, sessions, reachable, faults>>

SwitchContext(t) ==
  LET p == tab[t].access.of IN
  /\ Authenticated(t, "switch")
  /\ ~HeldShared(p)
  /\ \/ /\ Usable(tab[t].access) /\ AsSeen(t) /\ tab[t].workspace \in reachable
        /\ sessions[p].version < MaxVersion
        /\ sessions' = [sessions EXCEPT ![p].version = @ + 1, ![p].active = tab[t].workspace]
        /\ Answers(t, Ok("keep", NoToken))
     \/ /\ ~(Usable(tab[t].access) /\ AsSeen(t) /\ tab[t].workspace \in reachable)
        /\ Answers(t, Fail("keep"))
        /\ UNCHANGED sessions
  /\ UNCHANGED <<proofs, signIn, browser, reachable, faults>>

\* Whatever comes of it, the answer clears the cookies.
Revoke(t) ==
  LET p == tab[t].access.of
      current == Found(tab[t].access) /\ ~sessions[p].revoked /\ AsSeen(t)
  IN /\ Authenticated(t, "signOut")
     /\ ~HeldShared(p)
     /\ IF current
        THEN /\ sessions' = [sessions EXCEPT ![p].version = @ + 1, ![p].revoked = TRUE]
             /\ Answers(t, Ok("clear", NoToken))
        ELSE Answers(t, Fail("clear")) /\ UNCHANGED sessions
     /\ UNCHANGED <<proofs, signIn, browser, reachable, faults>>

ReceivesRefresh(t) == tab[t].at = "sent" /\ Refreshes(t)

\* The refresh route where it changes no session: the access cookie is good, there is no refresh
\* cookie, the key has an answer stored, or the token is refused.
RefreshAnswered(t) ==
  /\ ReceivesRefresh(t)
  /\ \/ Usable(tab[t].access) /\ Answers(t, Ok("keep", NoToken))
     \/ /\ ~Usable(tab[t].access) /\ tab[t].refresh # NoToken /\ Replayed(t)
        /\ Answers(t, Ok("tokens", tab[t].stored))
     \/ /\ ~Usable(tab[t].access) /\ ~Replayed(t) /\ ~Renewable(tab[t].refresh)
        /\ Answers(t, Ok("clear", NoToken))
  /\ UNCHANGED <<proofs, signIn, browser, sessions, reachable, faults>>

\* refreshBrowser
Rotate(t) ==
  LET p == tab[t].refresh.of
      next == sessions[p].version + 1
  IN /\ ReceivesRefresh(t)
     /\ ~Usable(tab[t].access) /\ ~Replayed(t)
     /\ Renewable(tab[t].refresh)
     /\ ~HeldShared(p)
     /\ next <= MaxVersion
     /\ sessions' = [sessions EXCEPT ![p].version = next, ![p].issue = next, ![p].life = "fresh"]
     /\ Stored(t, [of |-> p, issue |-> next])
     /\ UNCHANGED <<proofs, signIn, browser, reachable, faults>>

\* Any error of the refresh clears the cookies.
RefreshFails(t) ==
  /\ ReceivesRefresh(t)
  /\ faults < MaxFaults
  /\ ~Usable(tab[t].access) /\ tab[t].refresh # NoToken
  /\ faults' = faults + 1
  /\ Answers(t, Ok("clear", NoToken))
  /\ UNCHANGED <<proofs, signIn, browser, sessions, reachable>>
-----------------------------------------------------------------------------
(* The answer reaches the page, or does not. *)

Cookies(answer) ==
  CASE answer.sets = "keep" -> jar
    [] answer.sets = "clear" -> [access |-> NoToken, refresh |-> NoToken]
    [] answer.sets = "tokens" -> [access |-> answer.token, refresh |-> answer.token]

ForNow(t, doing) ==
  [tab[t] EXCEPT !.doing = doing, !.at = "sent", !.access = jar'.access,
                 !.refresh = IF doing = "refresh" THEN jar'.refresh ELSE NoToken,
                 !.seen = 0, !.stored = NoToken, !.answer = NoAnswer]

\* requestApi: refresh once if the answer asks for it, then the same request again.
Deliver(t) ==
  LET answer == tab[t].answer IN
  /\ tab[t].at = "answered"
  /\ jar' = Cookies(answer)
  /\ flow' = IF answer.sets = "clear" \/ Asked(t, {"callback"}) THEN Nobody ELSE flow
  /\ tab' = [tab EXCEPT ![t] = IF Refreshes(t) THEN ForNow(t, "again")
                               ELSE IF tab[t].doing = "click" /\ answer.hint
                               THEN ForNow(t, "refresh")
                               ELSE Idle]
  /\ UNCHANGED <<proofs, signIn, sessions, reachable, faults>>

\* The answer is lost.  The page gives up; after a lost sign-out it still shows nobody signed in.
GiveUp(t) ==
  /\ faults < MaxFaults
  /\ tab[t].at = "answered"
  /\ faults' = faults + 1
  /\ tab' = [tab EXCEPT ![t] = Idle]
  /\ UNCHANGED <<proofs, signIn, browser, sessions, reachable>>

\* An answer is lost, or the host dies under way, and the request is sent again as it was.
SendAgain(t) ==
  /\ faults < MaxFaults
  /\ tab[t].at \notin {"idle", "sent"}
  /\ Refreshes(t) \/ Asked(t, SignsIn)
  /\ faults' = faults + 1
  /\ tab' = [tab EXCEPT ![t].at = "sent", ![t].answer = NoAnswer]
  /\ UNCHANGED <<proofs, signIn, browser, sessions, reachable>>
-----------------------------------------------------------------------------
(* Time and the administrators. *)

Lapse(p) ==
  /\ sessions[p].life # "over" /\ ~sessions[p].revoked
  /\ sessions' = [sessions EXCEPT ![p].life = IF @ = "fresh" THEN "idle" ELSE "over"]
  /\ UNCHANGED <<proofs, signIn, browser, reachable, tab, faults>>

LapseAttempt(a) ==
  /\ attempt[a] # "none" /\ a \notin lapsed
  /\ flow = a \/ \E t \in Tabs : tab[t].at # "idle" /\ Asked(t, {"callback"})
  /\ lapsed' = lapsed \cup {a}
  /\ UNCHANGED <<proofs, attempt, spent, exchanged, used, activated, browser, sessions, reachable,
                 tab, faults>>

\* The access cookie's Max-Age is the time its token has.
DropAccess ==
  /\ jar.access # NoToken
  /\ ~Found(jar.access) \/ sessions[jar.access.of].life # "fresh"
  /\ jar' = [jar EXCEPT !.access = NoToken]
  /\ UNCHANGED <<proofs, signIn, flow, sessions, reachable, tab, faults>>

\* An administrator ends a membership; a command holds the one it relies on FOR SHARE.
EndMembership(w) ==
  /\ w \in reachable
  /\ \A t \in Tabs : tab[t].at = "locked" => tab[t].workspace # w
  /\ reachable' = reachable \ {w}
  /\ UNCHANGED <<proofs, signIn, browser, sessions, tab, faults>>

Page(t) ==
  \/ Click(t) \/ ReceiveCallback(t) \/ Identify(t) \/ GrantIsLost(t) \/ LookAgain(t)
  \/ OpenByIdentity(t) \/ ExchangeContact(t) \/ Activate(t)
  \/ Authenticate(t) \/ Authorize(t) \/ Commit(t) \/ SwitchContext(t) \/ Revoke(t)
  \/ RefreshAnswered(t) \/ Rotate(t) \/ RefreshFails(t)
  \/ Deliver(t) \/ GiveUp(t) \/ SendAgain(t)

Next ==
  \/ \E t \in Tabs : Page(t)
  \/ \E a \in Authorizations : Start(a) \/ LapseAttempt(a)
  \/ \E p \in Proofs : Lapse(p)
  \/ \E w \in Unstable : EndMembership(w)
  \/ DropAccess

Spec == Init /\ [][Next]_vars
-----------------------------------------------------------------------------
(* Properties. *)

\* Every variable has its type, and no session is numbered below the tokens it issued.
TypeOK ==
  /\ proofs \in {Authorizations, Assertions}
  /\ attempt \in [Authorizations -> {"none", "pending", "validated", "consumed"}]
  /\ lapsed \subseteq Authorizations
  /\ spent \subseteq Authorizations
  /\ flow \in Authorizations \cup {Nobody}
  /\ exchanged \in [Authorizations -> Tokens]
  /\ used \subseteq Assertions
  /\ activated \in BOOLEAN
  /\ sessions \in [Proofs -> Row]
  /\ \A p \in Proofs : sessions[p].issue <= sessions[p].version
  /\ reachable \subseteq Workspaces
  /\ jar \in [access : Tokens, refresh : Tokens]
  /\ tab \in [Tabs -> Request]
  /\ faults \in 0..MaxFaults

\* An authorized command commits only while its session is not revoked and is as it was
\* authenticated, its workspace is the active one and the membership stands: whatever another
\* tab or an administrator does between the check and the commit waits or came before the check
\* (identity-workspace.ts, runAuthorizedWorkspace).
AuthorizedAtCommit ==
  [][\A t \in Tabs :
       tab[t].at = "locked" /\ tab'[t].at # "locked" =>
         LET row == sessions[tab[t].access.of]
         IN /\ ~row.revoked /\ row.version = tab[t].seen
            /\ row.active = tab[t].workspace /\ tab[t].workspace \in reachable]_vars

\* A sign-in or a refresh that was carried out and is sent again, because its answer was lost,
\* is answered with the very tokens it issued, unless a transaction fails or the authorization's
\* ten minutes are over.
ResendIsHarmless ==
  [][\A t \in Tabs :
       /\ tab[t].at # "answered" /\ tab'[t].at = "answered"
       /\ tab[t].stored # NoToken
       /\ faults' = faults /\ tab[t].proof \notin lapsed
       => tab'[t].answer.token = tab[t].stored]_vars

Stage(row) ==
  IF row = NoRow THEN "unopened"
  ELSE IF row.revoked \/ row.life = "over" THEN "ended" ELSE "open"

Family == INSTANCE TokenFamily WITH
  family <- [p \in Proofs |-> [stage |-> Stage(sessions[p]), token |-> sessions[p].issue]]

\* A proof of identity opens one session, once; each refresh replaces the accepted tokens by
\* later ones; a session that was revoked or ran out accepts none again.
KeepsToFamily == Family!FamilySpec
=============================================================================
