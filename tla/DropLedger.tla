------------------------------ MODULE DropLedger ------------------------------
(***************************************************************************)
(* What a pennyFlow promises about its packet drops, without saying how it *)
(* keeps track of them: a ledger in which a drop is entered once, as       *)
(* awaiting its retransmission, and settled once, as retransmitted or as   *)
(* expired, for good.                                                      *)
(***************************************************************************)
CONSTANT Drops   \* the packets that may be dropped

VARIABLES
  awaiting,       \* dropped, undecided
  retransmitted,  \* dropped, retransmission observed
  expired         \* dropped, given up

vars == <<awaiting, retransmitted, expired>>

Known == awaiting \cup retransmitted \cup expired

Init ==
  /\ awaiting = {}
  /\ retransmitted = {}
  /\ expired = {}

(***************************************************************************)
(* One packet is handled: any overdue drops expire, then the packet may    *)
(* settle one drop that did not, or be dropped itself; never both.         *)
(***************************************************************************)
Settle(overdue, observed) ==
  /\ overdue \subseteq awaiting
  /\ observed \subseteq awaiting \ overdue
  /\ \A a, b \in observed : a = b
  /\ awaiting' = awaiting \ (overdue \cup observed)
  /\ expired' = expired \cup overdue
  /\ retransmitted' = retransmitted \cup observed

Drop(overdue, d) ==
  /\ overdue \subseteq awaiting
  /\ d \notin Known
  /\ awaiting' = (awaiting \ overdue) \cup {d}
  /\ expired' = expired \cup overdue
  /\ UNCHANGED retransmitted

Next ==
  \/ \E overdue, observed \in SUBSET Drops : Settle(overdue, observed)
  \/ \E overdue \in SUBSET Drops, d \in Drops : Drop(overdue, d)

Spec == Init /\ [][Next]_vars
===============================================================================
