------------------------------- MODULE MCTheory -------------------------------
(***************************************************************************)
(* The thresholds are scaled down so that flows of a few packets meet each *)
(* outcome.                                                                *)
(***************************************************************************)
EXTENDS Theory

MC_MAX_DUP_THRESH == <<2, 5>>
MCNotLegitSrc == <<1, 4>>
===============================================================================
