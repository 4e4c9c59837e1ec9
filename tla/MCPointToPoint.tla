--------------------------- MODULE MCPointToPoint ---------------------------
(* PointToPoint with packets that differ in all that decides their way.    *)
EXTENDS PointToPoint

Packet(ip, tcp, ecn, ef, toPeer, ticks) ==
  [ip |-> ip, tcp |-> tcp, ecn |-> ecn, ef |-> ef, toPeer |-> toPeer, ticks |-> ticks]

\* ARP to all; TCP that is remarked; long TCP without ECN, to another node.
MCPackets ==
  {Packet(FALSE, FALSE, "not", FALSE, TRUE, 1),
   Packet(TRUE, TRUE, "ect0", FALSE, TRUE, 1),
   Packet(TRUE, TRUE, "not", FALSE, FALSE, 3)}

MCDecodeTicks == [d \in Devices |-> IF d = Cm THEN 3 ELSE 1]
MCMaxPackets == [d \in Devices |-> IF d = Cm THEN 3 ELSE 1]
=============================================================================
