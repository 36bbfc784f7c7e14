------------------------------- MODULE MCPenny -------------------------------
(***************************************************************************)
(* One TCP flow and one spoofed flow of a few segments each; the TCP flow  *)
(* also carries pure ACKs.                                                 *)
(***************************************************************************)
EXTENDS Penny

CONSTANT Segments

Segment(n) == [seq |-> n, ack |-> 1, payloadSize |-> 1]
PureAck    == [seq |-> Segments + 1, ack |-> 1, payloadSize |-> 0]

MCPackets == {Segment(n) : n \in 1..Segments} \cup {PureAck}

MCMaxDuplicates == <<1, 1>>
MCNotObserveRetransmission == <<1, 20>>
===============================================================================
