----------------------------- MODULE ExactlyOnce ----------------------------
(***************************************************************************)
(* What the outbox promises its users: a stored event may take effect, at  *)
(* most once and for the users that are members at that moment, and is     *)
(* retired at some time, as published only after it took effect.  Nothing  *)
(* here knows of claims, leases, attempts or pollers.                      *)
(***************************************************************************)
CONSTANTS Events, Silent, Users

VARIABLES
  stored,     \* events that must be dealt with
  members,    \* the users an effect would reach now
  ledger,     \* events that took effect
  notes,      \* whom the effect of an event reached
  published,  \* events retired as delivered
  dead        \* events retired with a reason

vars == <<stored, members, ledger, notes, published, dead>>

Init ==
  /\ stored = {}
  /\ members \in SUBSET Users
  /\ ledger = {}
  /\ notes = [e \in Events |-> {}]
  /\ published = {}
  /\ dead = {}

Store(e) ==
  /\ e \notin stored
  /\ stored' = stored \cup {e}
  /\ UNCHANGED <<members, ledger, notes, published, dead>>

ChangeMembers ==
  /\ members' \in SUBSET Users
  /\ UNCHANGED <<stored, ledger, notes, published, dead>>

Deliver(e) ==
  /\ e \in stored \ ledger
  /\ ledger' = ledger \cup {e}
  /\ notes' = [notes EXCEPT ![e] = IF e \in Silent THEN {} ELSE members]
  /\ UNCHANGED <<stored, members, published, dead>>

Publish(e) ==
  /\ e \in ledger
  /\ published' = published \cup {e}
  /\ UNCHANGED <<stored, members, ledger, notes, dead>>

GiveUp(e) ==
  /\ e \in stored
  /\ dead' = dead \cup {e}
  /\ UNCHANGED <<stored, members, ledger, notes, published>>

Next ==
  \/ ChangeMembers
  \/ \E e \in Events : Store(e) \/ Deliver(e) \/ Publish(e) \/ GiveUp(e)

Spec == Init /\ [][Next]_vars
=============================================================================
