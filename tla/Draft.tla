-------------------------------- MODULE Draft ---------------------------------
(***************************************************************************)
(* One versioned record on the server, and the requests several browser    *)
(* tabs have on the way to it.  The two editors of the connected browser   *)
(* application, ChallengeEditor and ProposalEditor, are built on it.  What *)
(* the server does with a command is what Challenge and Proposal model in  *)
(* full: an answer stored under the key is given again, a version that is  *)
(* not the current one is a conflict, a record that was handed in is not   *)
(* written any more.                                                       *)
(*                                                                         *)
(* A text is the set of changes people made to it, so that one text holds  *)
(* another exactly if nothing anyone wrote was lost between them.          *)
(***************************************************************************)
EXTENDS Integers, Sequences, FiniteSets, Functions

CONSTANTS Tabs,        \* the tabs that have the record open
          MaxChanges,  \* bound: changes people make, over all tabs
          MaxIncidents, \* bound: buttons pressed, pages left, answers lost, requests refused
          Nothing      \* no text, no command

VARIABLES history,     \* the texts of the record, one for each version
          handed,      \* the text that was handed in, or Nothing
          stored,      \* the version each carried-out command made, by its key
          calls,       \* the requests on the way
          keys,        \* how many keys were made
          changes,     \* how many changes were made
          incidents    \* how much else has happened

server == <<history, handed, stored>>
draft == <<server, calls, keys, changes, incidents>>

Texts == SUBSET (1 .. MaxChanges)

\* what is sent again as it was while its outcome is not known
Commands == [expected : Nat, text : Texts, key : Nat] \cup [expected : Nat, key : Nat]

ASSUME DraftAssumption ==
  /\ MaxChanges \in Nat /\ MaxIncidents \in Nat
  /\ \A text \in Texts : text # Nothing
  /\ Nothing \notin Commands

Latest == Len(history)

DraftInit ==
  /\ history = <<{}>>
  /\ handed = Nothing
  /\ stored = <<>>
  /\ calls = {}
  /\ keys = 0 /\ changes = 0 /\ incidents = 0

Answer(code, version, text) == [code |-> code, version |-> version, text |-> text]
Waiting == Answer("waiting", 0, {})
Refusal(code) == Answer(code, 0, {})

\* A request without an answer, a network that fails and an answer that is
\* not one of the API's are all the same to the page.
Lost == Refusal("STORAGE")

\* who awaits the answer: the page that asked, only the gateway under it (the
\* page was left or asked again), or nobody (the request broke, the tab went).
Request(t, op, who, key, expected, text) ==
  [tab |-> t, op |-> op, who |-> who, key |-> key, expected |-> expected,
   text |-> text, answer |-> Waiting]

Writes == {"patch", "submit"}

Incident ==
  /\ incidents < MaxIncidents
  /\ incidents' = incidents + 1

-----------------------------------------------------------------------------
(* The server.                                                             *)

Answered(c, a) ==
  calls' = (calls \ {c}) \cup IF c.who = "nobody" THEN {} ELSE {[c EXCEPT !.answer = a]}

Read(c) ==
  /\ c.op \notin Writes
  /\ Answered(c, Answer(IF handed = Nothing THEN "ok" ELSE "closed", Latest, history[Latest]))
  /\ UNCHANGED server

Replay(c) ==
  /\ c.op \in Writes /\ c.key \in DOMAIN stored
  /\ Answered(c, Answer("ok", stored[c.key], {}))
  /\ UNCHANGED server

Current(c) == c.expected = Latest

Reject(c) ==
  /\ c.op \in Writes /\ c.key \notin DOMAIN stored
  /\ \/ ~Current(c) /\ Answered(c, Refusal("CONFLICT"))
     \/ Current(c) /\ handed # Nothing /\ Answered(c, Refusal("INVALID_STATE"))
  /\ UNCHANGED server

Write(c) ==
  /\ c.op \in Writes /\ c.key \notin DOMAIN stored
  /\ handed = Nothing /\ Current(c)
  /\ history' = Append(history, IF c.op = "patch" THEN c.text ELSE history[Latest])
  /\ handed' = IF c.op = "submit" THEN history[Latest] ELSE handed
  /\ stored' = [k \in DOMAIN stored \cup {c.key} |->
                 IF k = c.key THEN Latest + 1 ELSE stored[k]]
  /\ Answered(c, Answer("ok", Latest + 1, {}))

Handle(c) ==
  /\ c.answer = Waiting
  /\ Read(c) \/ Replay(c) \/ Reject(c) \/ Write(c)
  /\ UNCHANGED <<keys, changes, incidents>>

\* No access for now, too many requests, an invalid field: nothing is done.
TurnAway(c) ==
  /\ c.answer = Waiting /\ c.op \in Writes /\ c.who # "nobody"
  /\ Incident
  /\ Answered(c, Refusal("NO_ACCESS"))
  /\ UNCHANGED <<server, keys, changes>>

\* A request that never arrives is one that stays on its way.
ServerNext == \E c \in calls : Handle(c) \/ TurnAway(c)

-----------------------------------------------------------------------------
(* What a page hears.                                                      *)

Hears(c, a) ==
  /\ c.who # "nobody"
  /\ \/ c.answer # Waiting /\ a = c.answer /\ UNCHANGED incidents
     \/ a = Lost /\ Incident

\* A write whose answer is lost may still be on its way to the server.
After(c, a) ==
  (calls \ {c}) \cup IF a = Lost /\ c.answer = Waiting /\ c.op \in Writes
                      THEN {[c EXCEPT !.who = "nobody"]} ELSE {}

\* The page of tab t does not listen any more to what it asked before.
Superseded(t) ==
  {IF c.tab = t /\ c.who = "page" THEN [c EXCEPT !.who = "gateway"] ELSE c : c \in calls}

\* The tab is gone: only a write on its way may still do something.
Abandoned(t) ==
  {IF c.tab = t THEN [c EXCEPT !.who = "nobody"] ELSE c :
     c \in {d \in calls : d.tab = t => d.op \in Writes /\ d.answer = Waiting}}

-----------------------------------------------------------------------------
(* What should hold of every editor.                                       *)

Awaits(t, c) == c.tab = t /\ c.who = "page"

Stored == UNION Range(history)

\* A write never takes the place of something its writer has not seen
\* (project-documents/26_LEAN_MVP_SCOPE.md:77: no save may "silently overwrite
\* a newer version").
NothingIsOverwritten == [][history[Latest] \subseteq history'[Len(history')]]_history
=============================================================================
