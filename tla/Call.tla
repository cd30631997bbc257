-------------------------------- MODULE Call --------------------------------
(***************************************************************************)
(* What an organization promises when it publishes a call, as solvers may  *)
(* rely on it: the terms are those of one version for good, the deadline   *)
(* never comes nearer and grows only while the call is open, and a call    *)
(* that was closed or cancelled stays so (domain/challenge.ts:596-627,     *)
(* migrations 0009 and 0022).  Challenge implements it.                    *)
(***************************************************************************)
EXTENDS Integers

CONSTANTS Terms,       \* the versions a call may be published with
          Deadlines    \* the deadlines a call may have

VARIABLES terms, state, deadline

call == <<terms, state, deadline>>

Live == {"open", "paused"}

Hidden == state = "hidden"

Publish ==
  /\ state = "hidden" /\ state' = "open"
  /\ terms' \in Terms
  /\ deadline' \in Deadlines

Extend ==
  /\ state = "open"
  /\ deadline' \in Deadlines
  /\ deadline' > deadline
  /\ UNCHANGED <<terms, state>>

Move ==
  /\ state \in Live
  /\ state' \in {"open", "paused", "closed", "cancelled"} \ {state}
  /\ UNCHANGED <<terms, deadline>>

CallSpec == Hidden /\ [][Publish \/ Extend \/ Move]_call
=============================================================================
