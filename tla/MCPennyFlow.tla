------------------------------ MODULE MCPennyFlow ------------------------------
(***************************************************************************)
(* A flow of a few segments of one sequence number each, and a pure ACK.   *)
(***************************************************************************)
EXTENDS PennyFlow

CONSTANT Segments

Segment(n) == [seq |-> n, ack |-> 1, payloadSize |-> 1]
PureAck    == [seq |-> Segments + 1, ack |-> 1, payloadSize |-> 0]

MCPackets == {Segment(n) : n \in 1..Segments} \cup {PureAck}

MCMaxDuplicates == <<1, 1>>
MCNotObserveRetransmission == <<1, 20>>
===============================================================================
