---------------------------- MODULE PointToPoint ----------------------------
(***************************************************************************)
(* The two devices in point-to-point mode (the attribute PointToPointMode  *)
(* of both), the channel between them, and the path of a received frame to *)
(* the node.  Without MAPs and symbols a device sends a packet as soon as  *)
(* it is not busy, and TransmitComplete sends the next.  Packets of a      *)
(* device are numbered as they are accepted.                               *)
(***************************************************************************)
EXTENDS EventList

CONSTANTS
  Packets,          \* what may arrive: kinds of packets, see PacketAssumption
  DelayTicks,       \* m_delay of the channel, half a round trip
  DecodeTicks,      \* time from Receive to EndDecoding, by device
  RemarkTcp,        \* m_remarkTcpEct0ToEct1
  ClassifyEct0,     \* m_classifyEct0AsLl of the packet filter
  QueueLimit,       \* packets that the dual queue holds, at most
  DeviceQueueLimit, \* packets that m_deviceQueue of the CMTS holds, at most
  MaxPackets        \* bound of the model: packets each device accepts

Cm == "cm"
Cmts == "cmts"
Devices == {Cm, Cmts}
Peer(d) == IF d = Cm THEN Cmts ELSE Cm
Classic == "classic"
LowLatency == "low latency"
Classes == {Classic, LowLatency}

\* A packet kind: an IPv4 packet or not, of TCP or not, with its ECN and
\* DSCP fields, addressed to the peer's node (or a group) or to another, and
\* the time it takes on the wire.
PacketAssumption ==
  Packets \subseteq [ip : BOOLEAN, tcp : BOOLEAN, ecn : {"not", "ect0", "ect1", "ce"},
                     ef : BOOLEAN, toPeer : BOOLEAN, ticks : Nat \ {0}]
ASSUME LinkAssumption ==
  /\ PacketAssumption
  /\ DelayTicks \in Nat /\ DecodeTicks \in [Devices -> Nat]
  /\ RemarkTcp \in BOOLEAN /\ ClassifyEct0 \in BOOLEAN
  /\ QueueLimit \in Nat /\ DeviceQueueLimit \in Nat /\ MaxPackets \in [Devices -> Nat]

VARIABLES
  linkUp,        \* m_linkUp of both devices
  queue,         \* the queues of each device's dual queue
  deviceQueue,   \* m_deviceQueue of the CMTS
  busy,          \* m_pointToPointBusy
  agenda,        \* the simulator's event list
  accepted,      \* history: packets that the device accepted so far
  seen,          \* history: packets ForwardUp has passed to the promiscuous callback
  received,      \* history: those of them it has passed to the receive callback
  corrupted      \* history: packets the receiver has dropped

queues == <<queue, deviceQueue>>
history == <<accepted, seen, received, corrupted>>
vars == <<linkUp, queues, busy, agenda, history>>

Due(name) == HeadIsDue(agenda, name)
Arg == Head(agenda).arg

-----------------------------------------------------------------------------

Init ==
  /\ linkUp = FALSE
  /\ queue = [d \in Devices |-> [c \in Classes |-> <<>>]]
  /\ deviceQueue = <<>>
  /\ busy = [d \in Devices |-> FALSE]
  /\ agenda = <<>>
  /\ accepted = [d \in Devices |-> 0]
  /\ seen = [d \in Devices |-> <<>>]
  /\ received = [d \in Devices |-> {}]
  /\ corrupted = [d \in Devices |-> {}]

\* DocsisHelper::Install attaches both devices before the simulation starts;
\* a device that nobody attached drops what it is to send.
Attach ==
  /\ ~linkUp
  /\ linkUp' = TRUE
  /\ UNCHANGED <<queues, busy, agenda, history>>

AdvanceTime ==
  /\ agenda # <<>> /\ Head(agenda).in > 0
  /\ agenda' = Later(agenda, Head(agenda).in)
  /\ UNCHANGED <<linkUp, queues, busy, history>>

-----------------------------------------------------------------------------
(* Sending.                                                                *)

\* It reads an IPv4 header without asking whether there is one, so what is not
\* IPv4 may look like TCP, too.
RemarkTcpEcnValue(p) ==
  IF RemarkTcp /\ p.tcp /\ p.ecn = "ect0" THEN [p EXCEPT !.ecn = "ect1"] ELSE p

\* DoClassify of the packet filter.
Classify(p) ==
  IF /\ p.ip
     /\ p.ecn \in {"ect1", "ce"} \/ p.ef \/ (ClassifyEct0 /\ p.ecn = "ect0")
  THEN LowLatency ELSE Classic

\* A packet as it travels: its number, and what its kind still decides.
Numbered(d, p) ==
  [id |-> accepted[d] + 1, class |-> Classify(p), toPeer |-> p.toPeer, ticks |-> p.ticks]

\* TransmitStart of the channel: when the peer receives the frame.
Arrival(packet) == packet.ticks + DelayTicks

\* SendOut: the frame takes the channel until TransmitComplete.
SendOut(list, d, packet) ==
  Schedule(Schedule(list, Event(Arrival(packet), "Receive",
                                [dev |-> Peer(d), packet |-> packet])),
           Event(packet.ticks, "TransmitComplete", [dev |-> d]))

\* The next packet of either queue leaves the dual queue, if there is one.
SendImmediatelyIfAvailable(d, held, list) ==
  \/ /\ \A c \in Classes : held[c] = <<>>
     /\ queue' = [queue EXCEPT ![d] = held]
     /\ agenda' = list
     /\ busy' = [busy EXCEPT ![d] = FALSE]
  \/ \E c \in Classes :
       /\ held[c] # <<>>
       /\ queue' = [queue EXCEPT ![d] = [held EXCEPT ![c] = Tail(@)]]
       /\ agenda' = SendOut(list, d, Head(held[c]))
       /\ busy' = [busy EXCEPT ![d] = TRUE]

\* Mutant: sent although a transmission is under way.
MaySendAlways(d) == TRUE
MaySend(d) == ~busy[d]

\* A packet from the node that the dual queue accepts.
Enqueue(d, p) ==
  LET packet == Numbered(d, RemarkTcpEcnValue(p))
      held   == [queue[d] EXCEPT ![packet.class] = Append(@, packet)]
  IN  /\ accepted' = [accepted EXCEPT ![d] = @ + 1]
      /\ \/ /\ MaySend(d)
            /\ SendImmediatelyIfAvailable(d, held, agenda)
         \/ /\ ~MaySend(d)
            /\ queue' = [queue EXCEPT ![d] = held]
            /\ UNCHANGED <<busy, agenda>>

Held(d) == Len(queue[d][Classic]) + Len(queue[d][LowLatency])

\* Mutant: one packet too many fits.
AcceptsOneMore(d) == Held(d) <= QueueLimit
Accepts(d) == Held(d) < QueueLimit

\* One that it drops, or that finds the link down, changes nothing.
SendFrom(d, p) ==
  /\ linkUp /\ Accepts(d) /\ accepted[d] < MaxPackets[d]
  /\ Enqueue(d, p)
  /\ UNCHANGED <<linkUp, deviceQueue, seen, received, corrupted>>

\* A packet that the CMTS itself sends goes past the dual queue, to a queue
\* that only symbols serve.  CmNetDevice::Send is a fatal error.
Send(p) ==
  /\ linkUp /\ Len(deviceQueue) < DeviceQueueLimit /\ accepted[Cmts] < MaxPackets[Cmts]
  /\ deviceQueue' = Append(deviceQueue, Numbered(Cmts, RemarkTcpEcnValue(p)))
  /\ accepted' = [accepted EXCEPT ![Cmts] = @ + 1]
  /\ UNCHANGED <<linkUp, queue, busy, agenda, seen, received, corrupted>>

\* Mutant: the device rests after a transmission until a packet arrives.
SendNextLater(d) ==
  /\ busy' = [busy EXCEPT ![d] = FALSE]
  /\ agenda' = Tail(agenda)
  /\ UNCHANGED queue

\* Mutant: m_pointToPointBusy is reset only by the next transmission.
SendNextBusy(d) ==
  \/ Held(d) > 0 /\ SendImmediatelyIfAvailable(d, queue[d], Tail(agenda))
  \/ Held(d) = 0 /\ agenda' = Tail(agenda) /\ UNCHANGED <<queue, busy>>

\* m_pointToPointBusy is reset before the queues are asked for the next packet.
SendNext(d) == SendImmediatelyIfAvailable(d, queue[d], Tail(agenda))

TransmitComplete(d) ==
  /\ Due("TransmitComplete") /\ Arg.dev = d
  /\ SendNext(d)
  /\ UNCHANGED <<linkUp, deviceQueue, history>>

-----------------------------------------------------------------------------
(* Receiving.                                                              *)

\* StartDecoding.
Receive(d) ==
  /\ Due("Receive") /\ Arg.dev = d
  /\ agenda' = Schedule(Tail(agenda), Event(DecodeTicks[d], "EndDecoding", Arg))
  /\ UNCHANGED <<linkUp, queues, busy, history>>

\* ForwardUp of a good frame.
PassUp(d, packet) ==
  /\ seen' = [seen EXCEPT ![d] = Append(@, packet)]
  /\ received' = IF packet.toPeer THEN [received EXCEPT ![d] = @ \cup {packet.id}]
                                  ELSE received
  /\ UNCHANGED corrupted

\* Mutant: ForwardUp goes on after the drop.
DropAndPassUp(d, packet) ==
  /\ corrupted' = [corrupted EXCEPT ![d] = @ \cup {packet.id}]
  /\ seen' = [seen EXCEPT ![d] = Append(@, packet)]
  /\ UNCHANGED received

\* ForwardUp of a frame with a CRC error, or that the error model corrupts.
DropCorrupt(d, packet) ==
  /\ corrupted' = [corrupted EXCEPT ![d] = @ \cup {packet.id}]
  /\ UNCHANGED <<seen, received>>

EndDecoding(d) ==
  /\ Due("EndDecoding") /\ Arg.dev = d
  /\ DropCorrupt(d, Arg.packet) \/ PassUp(d, Arg.packet)
  /\ agenda' = Tail(agenda)
  /\ UNCHANGED <<linkUp, queues, busy, accepted>>

-----------------------------------------------------------------------------

Simulate ==
  \/ AdvanceTime
  \/ \E d \in Devices : TransmitComplete(d) \/ Receive(d) \/ EndDecoding(d)

Next ==
  \/ Attach
  \/ Simulate
  \/ \E p \in Packets : Send(p) \/ \E d \in Devices : SendFrom(d, p)

Spec == Init /\ [][Next]_vars
FairSpec == Spec /\ WF_vars(Simulate)

-----------------------------------------------------------------------------
(* Properties.                                                             *)

Pending(name, d) ==
  {i \in DOMAIN agenda : agenda[i].event = name /\ agenda[i].arg.dev = d}
Ids(packets) == {packets[i].id : i \in DOMAIN packets}
OnTheWay(d) ==
  {e.arg.packet.id : e \in {agenda[i] : i \in
      {k \in DOMAIN agenda : /\ agenda[k].event \in {"Receive", "EndDecoding"}
                             /\ agenda[k].arg.dev = Peer(d)}}}
Queued(d) == UNION {Ids(queue[d][c]) : c \in Classes}
Arrived(d) == Ids(seen[Peer(d)]) \cup corrupted[Peer(d)]

TypeOK ==
  /\ linkUp \in BOOLEAN /\ busy \in [Devices -> BOOLEAN]
  /\ \A d \in Devices :
       /\ accepted[d] \in 0..MaxPackets[d]
       /\ Held(d) <= QueueLimit
       /\ \A c \in Classes : \A i \in DOMAIN queue[d][c] : queue[d][c][i].class = c
  /\ InTimeOrder(agenda)

\* A device is busy exactly while one transmission of it is under way: no
\* completion is lost, which would silence it for ever, and none is doubled,
\* which would put two frames on the channel at once.
BusyUntilComplete ==
  \A d \in Devices :
    Cardinality(Pending("TransmitComplete", d)) = IF busy[d] THEN 1 ELSE 0

\* Every packet that was accepted is in exactly one place: a queue, the way to
\* the peer, or the peer, which has passed it up or dropped it.
EachInOnePlace ==
  \A d \in Devices :
    LET places == <<Queued(d), IF d = Cmts THEN Ids(deviceQueue) ELSE {},
                    OnTheWay(d), Ids(seen[Peer(d)]), corrupted[Peer(d)]>>
    IN  /\ UNION {places[i] : i \in DOMAIN places} = 1..accepted[d]
        /\ \A i, j \in DOMAIN places : i # j => places[i] \cap places[j] = {}
        /\ received[Peer(d)] \subseteq Ids(seen[Peer(d)])

\* The packets of one queue reach the node in the order in which they were
\* sent, although long and short ones follow one another and each has its own
\* events: transmission, propagation, decoding.
InOrder ==
  \A d \in Devices : \A i, j \in DOMAIN seen[d] :
    i < j /\ seen[d][i].class = seen[d][j].class => seen[d][i].id < seen[d][j].id

\* Every packet given to SendFrom arrives at the peer in the end.
Arrives ==
  \A d \in Devices : \A n \in 1..MaxPackets[d] :
    (n \in Queued(d) \cup OnTheWay(d)) ~> (n \in Arrived(d))
=============================================================================
