-------------------------------- MODULE Editors --------------------------------
(***************************************************************************)
(* The two editors of the connected browser application together.  They    *)
(* share no record: a behaviour is that of one of them, chosen at the      *)
(* start.                                                                  *)
(***************************************************************************)
EXTENDS ChallengeEditor, ProposalEditor

CONSTANT MaxOfChallenge  \* bound: the incidents of a challenge, whose timer saves by itself

VARIABLE desk

editorsVars == <<challengeVars, form, desk>>

EditorsInit == ChallengeInit /\ ProposalInit /\ desk \in {"challenge", "proposal"}

EditorsNext ==
  /\ desk' = desk
  /\ \/ desk = "challenge" /\ ChallengeNext /\ incidents' <= MaxOfChallenge /\ UNCHANGED form
     \/ desk = "proposal" /\ ProposalNext /\ UNCHANGED tab

EditorsSpec == EditorsInit /\ [][EditorsNext]_editorsVars

\* Each editor says "saved" only of what the server has (see the two parts).
SavedMeansStored == SavedIsStored /\ AcknowledgedIsStored

\* The proposal editor writes only over what it has seen, whatever answers are
\* lost and however its commands are repeated.
FormsOverwriteNothing ==
  [][desk = "proposal" => history[Latest] \subseteq history'[Len(history')]]_editorsVars

\* A command is never left with nobody to hear of it, and a change that is not saved has a timer
\* or a save that is awaited; or else the page says that its newest save failed, and then only the
\* person goes on.
NothingIsStuck == ChangesAreAwaited /\ CommandsAreAwaited
=============================================================================
