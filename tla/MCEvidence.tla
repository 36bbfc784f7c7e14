------------------------------ MODULE MCEvidence ------------------------------
(***************************************************************************)
(* The parameters of scratch/penny/configs/penny/*.json, as they are:      *)
(* maxDuplicates 0.15, probabilityNotObserveRetransmission 0.05, odds 99.  *)
(***************************************************************************)
EXTENDS Evidence

MCMaxDuplicates == <<3, 20>>
MCNotObserveRetransmission == <<1, 20>>
===============================================================================
