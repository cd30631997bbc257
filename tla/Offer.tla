------------------------------- MODULE Offer --------------------------------
(***************************************************************************)
(* What the two parties of a direct offer may rely on                      *)
(* (packages/domain/src/opportunity.ts): one offer is alive at a time; the *)
(* organization sees an answer only once it is handed in, and what it sees *)
(* is not changed or taken back; an offer lapses only while it has not     *)
(* been answered; what is over stays over.  Nothing here knows of drafts,  *)
(* clocks, grants or tokens.  DirectOffer implements it.                   *)
(***************************************************************************)
EXTENDS Sequences, Naturals

CONSTANTS Answers,   \* what an answer may say
          NoAnswer

VARIABLE dealings    \* the offers of one call to one workspace, oldest first

Alive == {"open", "answered", "negotiating"}

Sent == [stage |-> "open", answer |-> NoAnswer]

Begin == dealings = <<>>

Send ==
  /\ \A i \in DOMAIN dealings : dealings[i].stage \notin Alive
  /\ dealings' = Append(dealings, Sent)

Answer(i) ==
  /\ dealings[i].stage = "open"
  /\ \E answer \in Answers :
       dealings' = [dealings EXCEPT ![i] = [stage |-> "answered", answer |-> answer]]

Moves == {<<"answered", "negotiating">>, <<"open", "declined">>, <<"open", "expired">>}
         \cup (Alive \X {"cancelled"})

Move(i) ==
  \E stage \in {"negotiating", "declined", "expired", "cancelled"} :
    /\ <<dealings[i].stage, stage>> \in Moves
    /\ dealings' = [dealings EXCEPT ![i].stage = stage]

Deal == Send \/ \E i \in DOMAIN dealings : Answer(i) \/ Move(i)

OfferSpec == Begin /\ [][Deal]_dealings
=============================================================================
