------------------------------- MODULE Transfer -------------------------------
(***************************************************************************)
(* What a closed-loop flow promises its users, with or without Penny on    *)
(* the way: each segment is delivered and then acknowledged, in the end    *)
(* all of them, unless the connection is given up.                         *)
(***************************************************************************)
EXTENDS Naturals

CONSTANT Segments

VARIABLES
  delivered,      \* the segments that the receiver has
  acknowledged,   \* the sender knows that 1..acknowledged are delivered
  open            \* the connection has not been given up

vars == <<delivered, acknowledged, open>>

Init ==
  /\ delivered = {}
  /\ acknowledged = 0
  /\ open = TRUE

Deliver ==
  /\ \E i \in 1..Segments \ delivered : delivered' = delivered \cup {i}
  /\ UNCHANGED <<acknowledged, open>>

Acknowledge ==
  /\ open
  /\ acknowledged' \in acknowledged + 1..Segments
  /\ 1..acknowledged' \subseteq delivered
  /\ UNCHANGED <<delivered, open>>

GiveUp ==
  /\ open
  /\ acknowledged < Segments
  /\ open' = FALSE
  /\ UNCHANGED <<delivered, acknowledged>>

Next == Deliver \/ Acknowledge \/ GiveUp

Spec == Init /\ [][Next]_vars /\ WF_vars(open /\ (Deliver \/ Acknowledge))
===============================================================================
