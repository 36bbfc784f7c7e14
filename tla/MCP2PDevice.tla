----------------------------- MODULE MCP2PDevice -----------------------------
(***************************************************************************)
(* A few packets, each sent up to MaxCopies times, in any order.           *)
(***************************************************************************)
EXTENDS P2PDevice
===============================================================================
