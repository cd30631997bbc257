---------------------------- MODULE ChallengeEditor ----------------------------
(***************************************************************************)
(* The challenge editor of the browser (components/challenge-flow/hooks.ts *)
(* over lib/challenges/adapters/network.ts): every change starts a timer,  *)
(* the timer or a button saves the whole text at the version the gateway   *)
(* read last, saves overlap and only the newest one's answer counts, and   *)
(* a page that is left saves once more without waiting.                    *)
(***************************************************************************)
EXTENDS Draft

VARIABLE tab   \* the page and the gateway of each tab

challengeVars == <<draft, tab>>

\* A gateway that has read nothing, under a page that is not open.
NewTab == [page |-> "closed", shown |-> {}, status |-> "idle", timer |-> FALSE,
           cached |-> 0, pending |-> {}]

ChallengeInit == DraftInit /\ tab = [t \in Tabs |-> NewTab]

-----------------------------------------------------------------------------
(* Saving.                                                                 *)

SameSave(t) ==
  {p \in tab[t].pending : p.expected = tab[t].cached /\ p.text = tab[t].shown}

\* A save of the same text at the same version goes out under the same key.
Save(t, who, on, r) ==
  LET known == SameSave(t)
      key == IF known = {} THEN keys + 1 ELSE (CHOOSE p \in known : TRUE).key
      sent == [expected |-> r.cached, text |-> tab[t].shown, key |-> key]
  IN /\ keys' = IF known = {} THEN key ELSE keys
     /\ tab' = [tab EXCEPT ![t] = [r EXCEPT !.pending = r.pending \cup {sent}]]
     /\ calls' = on \cup {Request(t, "patch", who, key, sent.expected, sent.text)}

\* The answers of the saves before it count for nothing on the page any more.
SaveNow(t) ==
  /\ tab[t].page = "open"
  /\ Save(t, "page", Superseded(t),
          [tab[t] EXCEPT !.timer = FALSE, !.status = "saving"])
  /\ UNCHANGED <<server, changes>>

PressSave(t) == SaveNow(t) /\ Incident

Autosave(t) == tab[t].timer /\ SaveNow(t) /\ UNCHANGED incidents

-----------------------------------------------------------------------------
(* The page.                                                               *)

OpenRecord(t) ==
  /\ tab[t].page = "closed"
  /\ tab' = [tab EXCEPT ![t].page = "loading"]
  /\ calls' = calls \cup {Request(t, "load", "page", 0, 0, {})}
  /\ UNCHANGED <<server, keys, changes, incidents>>

\* Mutant: no timer while a save is on the way, which should see to it.
ChangedQuietly(r, n) ==
  [r EXCEPT !.shown = r.shown \cup {n}, !.status = "dirty", !.timer = r.status # "saving"]

\* Each change restarts the timer, also while a save is on the way.
Changed(r, n) ==
  [r EXCEPT !.shown = r.shown \cup {n}, !.status = "dirty", !.timer = TRUE]

Change(t) ==
  /\ tab[t].page = "open"
  /\ changes < MaxChanges
  /\ changes' = changes + 1
  /\ tab' = [tab EXCEPT ![t] = Changed(tab[t], changes + 1)]
  /\ UNCHANGED <<server, calls, keys, incidents>>

Closed(r) ==
  [r EXCEPT !.page = "closed", !.shown = {}, !.status = "idle", !.timer = FALSE]

\* Only what is dirty or failed is saved: a save on the way is left to itself.
LeaveRecord(t) ==
  /\ tab[t].page # "closed"
  /\ Incident
  /\ \/ /\ tab[t].status \in {"dirty", "error"}
        /\ Save(t, "gateway", Superseded(t), Closed(tab[t]))
     \/ /\ tab[t].status \notin {"dirty", "error"}
        /\ tab' = [tab EXCEPT ![t] = Closed(tab[t])]
        /\ calls' = Superseded(t) /\ keys' = keys
  /\ UNCHANGED <<server, changes>>

\* The person reloads, over the browser's warning if something is not saved.
ReloadRecord(t) ==
  /\ tab[t] # NewTab
  /\ Incident
  /\ tab' = [tab EXCEPT ![t] = NewTab]
  /\ calls' = Abandoned(t)
  /\ UNCHANGED <<server, keys, changes>>

-----------------------------------------------------------------------------
(* Answers.                                                                *)

\* Mutant: the record that was read back is shown whatever was typed meanwhile.
EndedOver(r, c, a) ==
  IF c.who # "page" THEN r
  ELSE IF a.code = "ok" THEN [r EXCEPT !.shown = a.text, !.status = "saved"]
  ELSE [r EXCEPT !.status = "error"]

\* saveNow once its save has ended: what was typed meanwhile stays, unsaved.
Ended(r, c, a) ==
  IF c.who # "page" THEN r
  ELSE IF r.shown # c.text THEN [r EXCEPT !.status = "dirty"]
  ELSE IF a.code = "ok" THEN [r EXCEPT !.shown = a.text, !.status = "saved"]
  ELSE [r EXCEPT !.status = "error"]

HearLoad(c, a) ==
  /\ c.op = "load"
  /\ LET r == tab[c.tab]
         read == IF a.code = "ok" THEN [r EXCEPT !.cached = a.version] ELSE r
     IN tab' = [tab EXCEPT ![c.tab] =
          IF c.who # "page" THEN read
          ELSE IF a.code = "ok"
          THEN [read EXCEPT !.page = "open", !.shown = a.text, !.status = "saved"]
          ELSE Closed(r)]
  /\ calls' = After(c, a)

\* A save that was accepted is read back before anything is said of it.
HearSave(c, a) ==
  /\ c.op = "patch"
  /\ IF a.code = "ok"
     THEN /\ calls' = After(c, a) \cup {[c EXCEPT !.op = "reread", !.answer = Waiting]}
          /\ UNCHANGED tab
     ELSE /\ calls' = After(c, a)
          /\ tab' = [tab EXCEPT ![c.tab] = Ended(tab[c.tab], c, a)]

\* The gateway's version is that of the answer, however late it comes.
HearReread(c, a) ==
  /\ c.op = "reread"
  /\ LET r == tab[c.tab]
         read == IF a.code = "ok"
                 THEN [r EXCEPT !.cached = a.version,
                                !.pending = {p \in r.pending : p.expected # c.expected
                                                               \/ p.text # c.text}]
                 ELSE r
     IN tab' = [tab EXCEPT ![c.tab] = Ended(read, c, a)]
  /\ calls' = After(c, a)

HearChallenge(t) ==
  \E c \in {d \in calls : d.tab = t} :
    \E a \in {c.answer, Lost} :
      /\ Hears(c, a)
      /\ HearLoad(c, a) \/ HearSave(c, a) \/ HearReread(c, a)
      /\ UNCHANGED <<server, keys, changes>>

TabNext ==
  \E t \in Tabs :
    \/ OpenRecord(t) \/ Change(t) \/ PressSave(t) \/ Autosave(t)
    \/ LeaveRecord(t) \/ ReloadRecord(t) \/ HearChallenge(t)

ChallengeNext == TabNext \/ (ServerNext /\ UNCHANGED tab)

-----------------------------------------------------------------------------
(* What should hold.                                                       *)

\* A page that says "saved" shows a text the server accepted as a version
\* (26_LEAN_MVP_SCOPE.md:77: no "successful save before server acknowledgement").
SavedIsStored ==
  \A t \in Tabs : tab[t].status = "saved" => tab[t].shown \in Range(history)

\* Whatever answers come, in whatever order, a change that is in no version yet
\* stays on the page as long as the page is open.
UnstoredIsKept ==
  [][\A t \in Tabs : tab[t].page = "open" /\ tab'[t].page = "open"
                       => tab[t].shown \ Stored' \subseteq tab'[t].shown]_challengeVars

\* How an open page is, whatever it says of itself: what it shows is saved and nothing goes on;
\* a change is not saved and its timer runs; a save is on its way, newer than any change, and the
\* page awaits its answer; or the newest save failed, of the text that is shown, and the page says
\* so.  The last is the only one that does not end by itself: no timer runs and nothing is asked
\* until the person saves, types, leaves or reloads (hooks.ts:136-141); and after a conflict every
\* further save is refused as well, until an answer to an earlier one or a reload brings the
\* gateway's version on (network.ts:299-318, edit-page.tsx:187-199).
ChangesAreAwaited ==
  \A t \in Tabs : tab[t].page = "open" =>
    LET asked == \E c \in calls : Awaits(t, c)
    IN  \/ tab[t].status = "saved" /\ ~ tab[t].timer /\ ~ asked
        \/ tab[t].status = "dirty" /\ tab[t].timer
        \/ tab[t].status = "saving" /\ ~ tab[t].timer /\ asked
        \/ tab[t].status = "error" /\ ~ tab[t].timer /\ ~ asked
=============================================================================
