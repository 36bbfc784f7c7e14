----------------------------- MODULE MCClosedLoop -----------------------------
(***************************************************************************)
(* A flow of a few segments, each of which Penny may drop once.            *)
(***************************************************************************)
EXTENDS ClosedLoop

MCMaxDuplicates == <<1, 1>>
MCNotObserveRetransmission == <<1, 20>>
===============================================================================
