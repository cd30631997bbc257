---------------------------- MODULE MCChallenge -----------------------------
(***************************************************************************)
(* Instance of Challenge for TLC.  The person at the technical gate also   *)
(* holds a platform role that could decide a second one, and so does the   *)
(* publisher; the owner also works for the platform.                       *)
(***************************************************************************)
EXTENDS Challenge

People == {"owner", "technical", "finance", "publisher"}

Positions ==
  [owner |-> {"org:owner", "platform:ops"},
   technical |-> {"org:approver_technical", "platform:finance"},
   finance |-> {"org:approver_finance", "platform:legal"},
   publisher |-> {"org:publisher", "platform:legal"}]

Drafts ==
  {[ready |-> "triage", deadline |-> 1, listed |-> TRUE],
   [ready |-> "full", deadline |-> 1, listed |-> TRUE],
   [ready |-> "full", deadline |-> 2, listed |-> FALSE]}
=============================================================================
