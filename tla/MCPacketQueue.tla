--------------------------- MODULE MCPacketQueue ----------------------------
(***************************************************************************)
(* TLC instances of PacketQueue: small limits, so that queues fill up and  *)
(* transactions outlast a pass.                                            *)
(***************************************************************************)
EXTENDS PacketQueue

CONSTANT MaxClash   \* bound on the packets once both threads met in one queue

\* From then on nothing is claimed of the connection but its types.
ClashBound == clashed => made <= MaxClash
=============================================================================
