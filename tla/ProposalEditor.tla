---------------------------- MODULE ProposalEditor -----------------------------
(***************************************************************************)
(* The proposal editor of the browser                                      *)
(* (components/solver/connected-proposal-editor.tsx): one command at a     *)
(* time, a save of unknown outcome is sent again as it was before newer    *)
(* text is saved, submitting saves first, and a submission of unknown      *)
(* outcome is sent again as it was with the fields frozen.                 *)
(***************************************************************************)
EXTENDS Draft

VARIABLE form   \* the editor of each tab

proposalVars == <<draft, form>>

NewForm == [page |-> "closed", draft |-> {}, saved |-> {}, version |-> 0,
            busy |-> "no", wanted |-> {}, attached |-> {}, pendingSave |-> Nothing,
            pendingSubmit |-> Nothing, uncertain |-> FALSE]

ProposalInit == DraftInit /\ form = [t \in Tabs |-> NewForm]

-----------------------------------------------------------------------------
(* The page.                                                               *)

OpenForm(t) ==
  /\ form[t].page = "closed"
  /\ form' = [form EXCEPT ![t].page = "loading"]
  /\ calls' = calls \cup {Request(t, "load", "page", 0, 0, {})}
  /\ UNCHANGED <<server, keys, changes, incidents>>

\* Mutant: the fields are frozen only while a submission is on its way.
TypableInDoubt(r) == r.page = "open" /\ r.busy # "send"

\* Typing, which submitting and a submission of unknown outcome disable.
Typable(r) == r.page = "open" /\ r.busy # "send" /\ ~r.uncertain

Type(t) ==
  /\ Typable(form[t])
  /\ changes < MaxChanges
  /\ changes' = changes + 1
  /\ form' = [form EXCEPT ![t].draft = @ \cup {changes + 1}]
  /\ UNCHANGED <<server, calls, keys, incidents>>

\* The list of attachments is disabled only while a command is on its way.
Attachable(r) == r.page = "open" /\ r.busy = "no"

Attach(t) ==
  /\ Attachable(form[t])
  /\ changes < MaxChanges
  /\ changes' = changes + 1
  /\ form' = [form EXCEPT ![t].draft = @ \cup {changes + 1},
                          ![t].attached = @ \cup {changes + 1}]
  /\ UNCHANGED <<server, calls, keys, incidents>>

\* The person goes, over the warning if something is not saved.
LeaveForm(t) ==
  /\ form[t].page # "closed"
  /\ Incident
  /\ form' = [form EXCEPT ![t] = NewForm]
  /\ calls' = Abandoned(t)
  /\ UNCHANGED <<server, keys, changes>>

-----------------------------------------------------------------------------
(* Saving and submitting.                                                  *)

\* saveDraft: a command of unknown outcome goes first, as it was.
SaveDraft(t, r, on) ==
  LET command == IF r.pendingSave # Nothing THEN r.pendingSave
                 ELSE [expected |-> r.version, text |-> r.wanted, key |-> keys + 1]
  IN /\ keys' = IF r.pendingSave # Nothing THEN keys ELSE keys + 1
     /\ form' = [form EXCEPT ![t] = [r EXCEPT !.pendingSave = command]]
     /\ calls' = on \cup {Request(t, "patch", "page", command.key, command.expected, command.text)}

SendSubmission(t, r, on) ==
  LET command == IF r.pendingSubmit # Nothing THEN r.pendingSubmit
                 ELSE [expected |-> r.version, key |-> keys + 1]
  IN /\ keys' = IF r.pendingSubmit # Nothing THEN keys ELSE keys + 1
     /\ form' = [form EXCEPT ![t] = [r EXCEPT !.pendingSubmit = command]]
     /\ calls' = on \cup {Request(t, "submit", "page", command.key, command.expected, {})}

Free(t) == form[t].page = "open" /\ form[t].busy = "no"

PersistSave(t) ==
  /\ Free(t) /\ ~form[t].uncertain
  /\ Incident
  /\ SaveDraft(t, [form[t] EXCEPT !.busy = "save", !.wanted = form[t].draft], calls)
  /\ UNCHANGED <<server, changes>>

\* Who is not eligible finds the button disabled.
PersistSend(t) ==
  /\ Free(t)
  /\ Incident
  /\ LET r == [form[t] EXCEPT !.busy = "send", !.wanted = form[t].draft]
     IN IF r.pendingSubmit = Nothing THEN SaveDraft(t, r, calls) ELSE SendSubmission(t, r, calls)
  /\ UNCHANGED <<server, changes>>

-----------------------------------------------------------------------------
(* Answers.                                                                *)

HearForm(c, a) ==
  /\ c.op = "load"
  /\ form' = [form EXCEPT ![c.tab] =
       IF a.code = "ok"
       THEN [NewForm EXCEPT !.page = "open", !.draft = a.text, !.saved = a.text,
                            !.version = a.version]
       ELSE NewForm]
  /\ calls' = After(c, a) /\ keys' = keys

\* Only an outcome that is known lets go of the command.
SaveFailed(c, a) ==
  /\ c.op = "patch" /\ a.code # "ok"
  /\ form' = [form EXCEPT ![c.tab].busy = "no",
                          ![c.tab].pendingSave = IF a = Lost THEN @ ELSE Nothing]
  /\ calls' = After(c, a) /\ keys' = keys

\* Mutant: what is on the screen when the receipt comes counts as saved.
AcknowledgedAsShown(r, c, a) ==
  [r EXCEPT !.pendingSave = Nothing, !.version = a.version, !.saved = r.draft]

\* The version is that of the receipt, the saved text the one that was sent.
Acknowledged(r, c, a) ==
  [r EXCEPT !.pendingSave = Nothing, !.version = a.version, !.saved = c.text]

SaveDone(c, a) ==
  /\ c.op = "patch" /\ a.code = "ok"
  /\ LET r == Acknowledged(form[c.tab], c, a)
     IN \/ c.text # r.wanted /\ SaveDraft(c.tab, r, After(c, a))
        \/ c.text = r.wanted /\ r.busy = "send" /\ SendSubmission(c.tab, r, After(c, a))
        \/ /\ c.text = r.wanted /\ r.busy # "send"
           /\ form' = [form EXCEPT ![c.tab] = r]
           /\ calls' = After(c, a) \cup {Request(c.tab, "reread", "page", 0, 0, {})}
           /\ keys' = keys

\* Mutant: the version that is read after a save is taken for the form's own.
ReadBackNewer(r, a) ==
  [r EXCEPT !.busy = "no", !.version = IF a.code = "ok" THEN a.version ELSE r.version]

\* What is read after a save replaces neither the text nor the version.
ReadBack(r, a) == [r EXCEPT !.busy = "no"]

HearRecord(c, a) ==
  /\ c.op = "reread"
  /\ form' = [form EXCEPT ![c.tab] = ReadBack(form[c.tab], a)]
  /\ calls' = After(c, a) /\ keys' = keys

HearSubmit(c, a) ==
  /\ c.op = "submit"
  /\ LET r == form[c.tab]
     IN form' = [form EXCEPT ![c.tab] =
          [r EXCEPT !.busy = "no",
                    !.page = IF a.code = "ok" THEN "done" ELSE r.page,
                    !.uncertain = (a = Lost),
                    !.pendingSubmit = IF a = Lost THEN r.pendingSubmit ELSE Nothing]]
  /\ calls' = After(c, a) /\ keys' = keys

HearProposal(t) ==
  \E c \in {d \in calls : d.tab = t} :
    \E a \in {c.answer, Lost} :
      /\ Hears(c, a)
      /\ HearForm(c, a) \/ SaveFailed(c, a) \/ SaveDone(c, a) \/ HearRecord(c, a) \/ HearSubmit(c, a)
      /\ UNCHANGED <<server, changes>>

FormNext ==
  \E t \in Tabs :
    \/ OpenForm(t) \/ Type(t) \/ Attach(t) \/ LeaveForm(t)
    \/ PersistSave(t) \/ PersistSend(t) \/ HearProposal(t)

ProposalNext == FormNext \/ (ServerNext /\ UNCHANGED form)

-----------------------------------------------------------------------------
(* What should hold.                                                       *)

Opened(t) == form[t].page \in {"open", "done"}

\* What the form counts as saved is the text of the version it counts as its
\* own, also after a save of unknown outcome was sent again.
AcknowledgedIsStored == \A t \in Tabs : Opened(t) => form[t].saved = history[form[t].version]

\* A form that says the proposal was handed in has handed in all that was
\* typed in it, and nothing that was typed in another.
TypedIsHandedIn ==
  \A t \in Tabs : form[t].page = "done"
                     => /\ form[t].draft \ form[t].attached \subseteq handed
                        /\ handed \subseteq form[t].draft

\* The buttons are disabled only while an answer is awaited.
CommandsAreAwaited ==
  \A t \in Tabs : form[t].busy # "no" => \E c \in calls : Awaits(t, c)
=============================================================================
