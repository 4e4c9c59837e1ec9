------------------------- MODULE PointToPointProofs -------------------------
(***************************************************************************)
(* Proofs about the two devices in point-to-point mode, for every kind and *)
(* number of packets, every delay and every bound on the queues: packets   *)
(* stay in order and in one place, and a device is busy while it sends.    *)
(***************************************************************************)
EXTENDS PointToPoint, EventListProofs

-----------------------------------------------------------------------------
(* What the event list of the two devices holds.                           *)

PacketRecords == [id : Nat \ {0}, class : Classes, toPeer : BOOLEAN, ticks : Nat \ {0}]
Completions == [in : Nat, event : {"TransmitComplete"}, arg : [dev : Devices]]
WireEvents == [in : Nat, event : {"Receive", "EndDecoding"},
               arg : [dev : Devices, packet : PacketRecords]]
Events == Completions \cup WireEvents

At(list, name, dev) == {i \in DOMAIN list : list[i].event = name /\ list[i].arg.dev = dev}
OnWire(list, d) == At(list, "Receive", Peer(d)) \cup At(list, "EndDecoding", Peer(d))
Carried(list, name, d) == {list[i].arg.packet : i \in At(list, name, Peer(d))}

\* i reaches the peer before j: it is decoded already, or ahead of j.
Ahead(list, i, j) ==
  \/ list[i].event = list[j].event /\ i < j
  \/ list[i].event = "EndDecoding" /\ list[j].event = "Receive"

\* No packet is carried twice, and those of a class are carried in order.
WireOrder(list, d) ==
  \A i, j \in OnWire(list, d) :
    LET p == list[i].arg.packet
        q == list[j].arg.packet
    IN  /\ i # j => p.id # q.id
        /\ p.class = q.class /\ Ahead(list, i, j) => p.id < q.id

\* A frame is received a propagation delay after its transmission completes,
\* and decoded its decoding time after that.
Timely(list, d) ==
  /\ \A i \in At(list, "EndDecoding", Peer(d)) : list[i].in <= DecodeTicks[Peer(d)]
  /\ \A i \in At(list, "Receive", Peer(d)) :
       \/ list[i].in <= DelayTicks
       \/ \E t \in At(list, "TransmitComplete", d) : list[i].in <= list[t].in + DelayTicks

\* One transmission of d is under way; and just when one was before.
Underway(list, d) == \E i : At(list, "TransmitComplete", d) = {i}
SameCompletion(new, old, d) ==
  /\ At(new, "TransmitComplete", d) = {} <=> At(old, "TransmitComplete", d) = {}
  /\ Underway(old, d) => Underway(new, d)

\* The event list carries one packet more, of the sender d, to an event `name'.
CarriesMore(new, old, name, d, packet) ==
  \A o \in Devices : \A any \in {"Receive", "EndDecoding"} :
    Carried(new, any, o) =
      Carried(old, any, o) \cup (IF o = d /\ any = name THEN {packet} ELSE {})

AgendaOK(list) ==
  /\ list \in Seq(Events) /\ Sorted(list)
  /\ \A d \in Devices : WireOrder(list, d) /\ Timely(list, d)

\* Of two devices each is the other's peer.
LEMMA PeerFacts ==
  ASSUME NEW d \in Devices
  PROVE  /\ Peer(d) \in Devices /\ Peer(d) # d /\ Peer(Peer(d)) = d
         /\ \A o \in Devices : o # d => o = Peer(d)
BY DEF Devices, Peer, Cm, Cmts

\* What the elements of the event list are.
LEMMA EventFacts ==
  ASSUME NEW list \in Seq(Events)
  PROVE  /\ Len(list) \in Nat /\ DOMAIN list = 1 .. Len(list)
         /\ Timed(list)
         /\ \A i \in DOMAIN list :
              /\ list[i] \in Events
              /\ list[i].arg.dev \in Devices
              /\ list[i].event \in {"TransmitComplete", "Receive", "EndDecoding"}
              /\ list[i].event # "TransmitComplete" =>
                   /\ list[i] \in WireEvents
                   /\ list[i].arg.packet \in PacketRecords
<1>1. /\ Len(list) \in Nat /\ DOMAIN list = 1 .. Len(list)
      /\ \A i \in DOMAIN list : list[i] \in Events
  BY LenProperties, ElementOfSeq
<1>2. ASSUME NEW e \in Events
      PROVE  /\ e.in \in Nat /\ e.arg.dev \in Devices
             /\ e.event \in {"TransmitComplete", "Receive", "EndDecoding"}
             /\ e.event # "TransmitComplete" =>
                  e \in WireEvents /\ e.arg.packet \in PacketRecords
  BY DEF Events, Completions, WireEvents
<1> QED BY <1>1, <1>2 DEF Timed

\* Schedule keeps the event list in the order of time.
LEMMA InsertSorts ==
  ASSUME NEW old \in Seq(Events), NEW new \in Seq(Events), NEW event \in Events, NEW k \in Nat,
         Sorted(old), Inserted(new, old, k, event)
  PROVE  Sorted(new)
<1>1. Timed(old) /\ event.in \in Nat
  BY EventFacts DEF Events, Completions, WireEvents
<1> QED BY <1>1, InsertInOrder

\* The other events of a kind and a device are there as before.
LEMMA InsertCarries ==
  ASSUME NEW old \in Seq(Events), NEW new \in Seq(Events), NEW event \in Events, NEW k \in Nat,
         Inserted(new, old, k, event), NEW name, NEW dev
  PROVE  /\ \A i \in DOMAIN new : i # k =>
              (i \in At(new, name, dev) <=> Before(i, k) \in At(old, name, dev))
         /\ \A i \in DOMAIN old : After(i, k) # k /\ Before(After(i, k), k) = i
              /\ After(i, k) \in DOMAIN new /\ new[After(i, k)] = old[i]
              /\ (i \in At(old, name, dev) => After(i, k) \in At(new, name, dev))
         /\ k \in At(new, name, dev) <=> event.event = name /\ event.arg.dev = dev
<1>1. /\ Len(old) \in Nat /\ DOMAIN old = 1 .. Len(old)
      /\ DOMAIN new = 1 .. Len(old) + 1 /\ k \in DOMAIN new
  BY EventFacts DEF Inserted
<1>2. /\ \A i \in DOMAIN new : i # k => Before(i, k) \in DOMAIN old /\ new[i] = old[Before(i, k)]
      /\ new[k] = event
  BY <1>1 DEF Inserted
<1>3. \A i \in DOMAIN old : After(i, k) # k /\ Before(After(i, k), k) = i
                            /\ After(i, k) \in DOMAIN new
  BY <1>1 DEF Before, After
<1> QED BY <1>1, <1>2, <1>3 DEF At

\* Where the events of a kind are after an insertion at k.
Moved(new, old, k, name, dev) ==
  /\ \A i \in At(new, name, dev) : i \in DOMAIN new /\ i \in Nat
  /\ \A i \in At(new, name, dev) : i # k =>
       new[i] = old[Before(i, k)] /\ Before(i, k) \in At(old, name, dev)
  /\ \A i \in At(old, name, dev) :
       /\ After(i, k) # k /\ Before(After(i, k), k) = i
       /\ new[After(i, k)] = old[i] /\ After(i, k) \in At(new, name, dev)

\* An insertion moves the events of a kind and a device, and keeps their order.
LEMMA InsertMoves ==
  ASSUME NEW old \in Seq(Events), NEW new \in Seq(Events), NEW event \in Events, NEW k \in Nat,
         Inserted(new, old, k, event), NEW name, NEW dev
  PROVE  Moved(new, old, k, name, dev)
<1>1. /\ DOMAIN new = 1 .. Len(new) /\ Len(new) = Len(old) + 1 /\ Len(new) \in Nat
      /\ \A i \in DOMAIN new : i # k => new[i] = old[Before(i, k)]
  BY EventFacts DEF Inserted
<1>2. At(new, name, dev) \subseteq DOMAIN new /\ At(old, name, dev) \subseteq DOMAIN old
  BY DEF At
<1>3. /\ \A i \in DOMAIN new : i # k =>
           (i \in At(new, name, dev) => Before(i, k) \in At(old, name, dev))
      /\ \A i \in At(old, name, dev) :
           /\ After(i, k) # k /\ Before(After(i, k), k) = i
           /\ new[After(i, k)] = old[i] /\ After(i, k) \in At(new, name, dev)
  BY <1>2, InsertCarries
<1> QED BY <1>1, <1>2, <1>3 DEF Moved

\* An insertion neither adds nor removes events of another kind.
LEMMA InsertKeeps ==
  ASSUME NEW old \in Seq(Events), NEW new \in Seq(Events), NEW event \in Events, NEW k \in Nat,
         Inserted(new, old, k, event), NEW name, NEW dev,
         event.event # name \/ event.arg.dev # dev
  PROVE  /\ At(new, name, dev) = {} <=> At(old, name, dev) = {}
         /\ \A i : At(old, name, dev) = {i} => \E j : At(new, name, dev) = {j}
<1>1. k \notin At(new, name, dev)
  BY DEF At, Inserted
<1>2. Moved(new, old, k, name, dev)
  BY InsertMoves
<1>3. \A i, j \in Nat : i # k /\ j # k /\ Before(i, k) = Before(j, k) => i = j
  BY DEF Before
<1>4. ASSUME NEW i, At(old, name, dev) = {i} PROVE At(new, name, dev) = {After(i, k)}
  BY <1>1, <1>2, <1>3, <1>4 DEF Moved
<1>5. At(new, name, dev) = {} <=> At(old, name, dev) = {}
  BY <1>1, <1>2 DEF Moved
<1> QED BY <1>4, <1>5

\* An inserted event carries its packet, and the others carry theirs.
LEMMA InsertCarried ==
  ASSUME NEW old \in Seq(Events), NEW new \in Seq(Events), NEW event \in Events, NEW k \in Nat,
         Inserted(new, old, k, event), NEW name, NEW d
  PROVE  Carried(new, name, d) = Carried(old, name, d) \cup
           (IF event.event = name /\ event.arg.dev = Peer(d) THEN {event.arg.packet} ELSE {})
<1> DEFINE more == IF event.event = name /\ event.arg.dev = Peer(d) THEN {event.arg.packet} ELSE {}
<1>1. /\ \A i \in DOMAIN new : i # k =>
           (i \in At(new, name, Peer(d)) <=> Before(i, k) \in At(old, name, Peer(d)))
      /\ \A i \in DOMAIN old :
           /\ new[After(i, k)] = old[i]
           /\ (i \in At(old, name, Peer(d)) => After(i, k) \in At(new, name, Peer(d)))
      /\ k \in At(new, name, Peer(d)) <=> event.event = name /\ event.arg.dev = Peer(d)
  BY InsertCarries
<1>2. /\ \A i \in DOMAIN new : i # k => new[i] = old[Before(i, k)]
      /\ new[k] = event
  BY EventFacts DEF Inserted
<1>3. At(new, name, Peer(d)) \subseteq DOMAIN new /\ At(old, name, Peer(d)) \subseteq DOMAIN old
  BY DEF At
<1>4. ASSUME NEW p \in Carried(new, name, d) PROVE p \in Carried(old, name, d) \cup more
  <2>1. PICK i \in At(new, name, Peer(d)) : p = new[i].arg.packet
    BY <1>4 DEF Carried
  <2>2. CASE i = k
    BY <2>1, <2>2, <1>1, <1>2
  <2>3. CASE i # k
    BY <2>1, <2>3, <1>1, <1>2, <1>3 DEF Carried
  <2> QED BY <2>2, <2>3
<1>5. ASSUME NEW p \in Carried(old, name, d) PROVE p \in Carried(new, name, d)
  <2>1. PICK i \in At(old, name, Peer(d)) : p = old[i].arg.packet
    BY <1>5 DEF Carried
  <2> QED BY <2>1, <1>1, <1>3 DEF Carried
<1>6. ASSUME NEW p \in more PROVE p \in Carried(new, name, d)
  BY <1>6, <1>1, <1>2 DEF Carried
<1> HIDE DEF more
<1>7. Carried(new, name, d) = Carried(old, name, d) \cup more
  BY <1>4, <1>5, <1>6
<1> QED BY <1>7 DEF more

\* What leaves the head of the list.
LEMMA TailFacts ==
  ASSUME NEW list \in Seq(Events), list # <<>>
  PROVE  /\ Tail(list) \in Seq(Events)
         /\ Head(list) = list[1] /\ 1 \in DOMAIN list
         /\ DOMAIN Tail(list) = 1 .. Len(list) - 1 /\ DOMAIN list = 1 .. Len(list)
         /\ Len(list) \in Nat
         /\ \A i \in DOMAIN Tail(list) : i + 1 \in DOMAIN list /\ Tail(list)[i] = list[i + 1]
         /\ \A name, dev :
              At(list, name, dev) = {i + 1 : i \in At(Tail(list), name, dev)} \cup
                (IF Head(list).event = name /\ Head(list).arg.dev = dev THEN {1} ELSE {})
<1>1. /\ Tail(list) \in Seq(Events) /\ Len(Tail(list)) = Len(list) - 1
      /\ \A i \in 1 .. Len(Tail(list)) : Tail(list)[i] = list[i + 1]
  BY HeadTailProperties
<1>2. /\ Len(list) \in Nat /\ DOMAIN list = 1 .. Len(list)
      /\ DOMAIN Tail(list) = 1 .. Len(Tail(list)) /\ Head(list) = list[1]
  BY <1>1, EventFacts
<1>3. Len(list) > 0
  BY <1>2
<1>4. \A i \in DOMAIN list : i = 1 \/ \E j \in DOMAIN Tail(list) : i = j + 1
  <2> SUFFICES ASSUME NEW i \in DOMAIN list, i # 1 PROVE \E j \in DOMAIN Tail(list) : i = j + 1
    OBVIOUS
  <2>1. i - 1 \in DOMAIN Tail(list) /\ i = i - 1 + 1
    BY <1>1, <1>2
  <2> QED BY <2>1
<1>5. /\ 1 \in DOMAIN list
      /\ \A i \in DOMAIN Tail(list) : i + 1 \in DOMAIN list /\ Tail(list)[i] = list[i + 1]
  BY <1>1, <1>2, <1>3
<1>6. ASSUME NEW name, NEW dev
      PROVE  At(list, name, dev) = {i + 1 : i \in At(Tail(list), name, dev)} \cup
               (IF Head(list).event = name /\ Head(list).arg.dev = dev THEN {1} ELSE {})
  BY <1>2, <1>4, <1>5 DEF At
<1> QED BY <1>1, <1>2, <1>5, <1>6

\* The first event carries its packet, and the rest of the list the others.
LEMMA TailCarried ==
  ASSUME NEW list \in Seq(Events), list # <<>>, NEW name, NEW d
  PROVE  Carried(list, name, d) = Carried(Tail(list), name, d) \cup
           (IF Head(list).event = name /\ Head(list).arg.dev = Peer(d)
            THEN {Head(list).arg.packet} ELSE {})
<1> DEFINE first == IF Head(list).event = name /\ Head(list).arg.dev = Peer(d) THEN {1} ELSE {}
           more == IF Head(list).event = name /\ Head(list).arg.dev = Peer(d)
                   THEN {Head(list).arg.packet} ELSE {}
<1>1. /\ At(list, name, Peer(d)) = {i + 1 : i \in At(Tail(list), name, Peer(d))} \cup first
      /\ Head(list) = list[1]
  BY TailFacts
<1>2. \A i \in At(Tail(list), name, Peer(d)) : Tail(list)[i] = list[i + 1]
  BY TailFacts DEF At
<1>3. ASSUME NEW p \in Carried(list, name, d) PROVE p \in Carried(Tail(list), name, d) \cup more
  <2>1. PICK i \in At(list, name, Peer(d)) : p = list[i].arg.packet
    BY <1>3 DEF Carried
  <2>2. CASE i \in first
    BY <2>1, <2>2, <1>1
  <2>3. ASSUME NEW j \in At(Tail(list), name, Peer(d)), i = j + 1
        PROVE  p \in Carried(Tail(list), name, d)
    BY <2>1, <2>3, <1>2 DEF Carried
  <2> QED BY <2>1, <2>2, <2>3, <1>1
<1>4. ASSUME NEW p \in Carried(Tail(list), name, d) PROVE p \in Carried(list, name, d)
  <2>1. PICK i \in At(Tail(list), name, Peer(d)) : p = Tail(list)[i].arg.packet
    BY <1>4 DEF Carried
  <2> QED BY <2>1, <1>1, <1>2 DEF Carried
<1>5. ASSUME NEW p \in more PROVE p \in Carried(list, name, d)
  BY <1>5, <1>1 DEF Carried
<1> HIDE DEF more, first
<1>6. Carried(list, name, d) = Carried(Tail(list), name, d) \cup more
  BY <1>3, <1>4, <1>5
<1> QED BY <1>6 DEF more

\* What is assumed of the constants.
LEMMA LinkFacts ==
  /\ DelayTicks \in Nat
  /\ \A d \in Devices : DecodeTicks[d] \in Nat /\ MaxPackets[d] \in Nat
  /\ QueueLimit \in Nat
BY LinkAssumption

\* Time passes for all events alike.
LEMMA LaterOK ==
  ASSUME NEW list, AgendaOK(list), list # <<>>
  PROVE  /\ AgendaOK(Later(list, Head(list).in))
         /\ \A name, dev : At(Later(list, Head(list).in), name, dev) = At(list, name, dev)
         /\ \A name, d : Carried(Later(list, Head(list).in), name, d) = Carried(list, name, d)
<1> DEFINE t == Head(list).in
           new == Later(list, t)
<1>1. /\ list \in Seq(Events) /\ Sorted(list)
      /\ \A d \in Devices : WireOrder(list, d) /\ Timely(list, d)
  BY DEF AgendaOK
<1>2. /\ Len(list) \in Nat /\ DOMAIN list = 1 .. Len(list) /\ Timed(list)
      /\ 1 \in DOMAIN list /\ t = list[1].in /\ t \in Nat
      /\ \A i \in DOMAIN list : list[i] \in Events
  BY <1>1, EventFacts, TailFacts DEF Timed
<1>3. \A i \in DOMAIN list : list[i].in - t \in Nat
  BY <1>1, <1>2 DEF Sorted, Timed
<1>4. DOMAIN new = DOMAIN list
  BY DEF Later
<1>5. ASSUME NEW i \in DOMAIN list
      PROVE  /\ new[i].in = list[i].in - t /\ new[i].event = list[i].event
             /\ new[i].arg = list[i].arg /\ new[i] \in Events
  <2>1. new[i] = [list[i] EXCEPT !.in = list[i].in - t]
    BY DEF Later
  <2>2. list[i].in - t \in Nat /\ list[i] \in Events
    BY <1>2, <1>3
  <2> HIDE DEF new, t
  <2> QED BY <2>1, <2>2 DEF Events, Completions, WireEvents
<1>6. new \in Seq(Events)
  <2>1. new = [i \in 1 .. Len(list) |-> new[i]]
    BY <1>2 DEF Later
  <2> HIDE DEF new
  <2> QED BY <2>1, <1>2, <1>4, <1>5, IsASeq
<1>7. Sorted(new)
  <2> HIDE DEF new, t
  <2> QED BY <1>1, <1>2, <1>4, <1>5 DEF Sorted, Timed
<1>8. \A name, dev : At(new, name, dev) = At(list, name, dev)
  <2> HIDE DEF new, t
  <2> QED BY <1>4, <1>5 DEF At
<1>9. \A name, d : Carried(new, name, d) = Carried(list, name, d)
  <2> SUFFICES ASSUME NEW name, NEW d PROVE Carried(new, name, d) = Carried(list, name, d)
    OBVIOUS
  <2>1. At(new, name, Peer(d)) = At(list, name, Peer(d))
    BY <1>8
  <2>2. \A i \in At(list, name, Peer(d)) : new[i].arg = list[i].arg
    BY <1>5 DEF At
  <2> HIDE DEF new, t
  <2> QED BY <2>1, <2>2 DEF Carried
<1>10. ASSUME NEW d \in Devices PROVE WireOrder(new, d) /\ Timely(new, d)
  <2> HIDE DEF new, t
  <2>1. OnWire(new, d) = OnWire(list, d)
    BY <1>8 DEF OnWire
  <2>2. OnWire(list, d) \subseteq DOMAIN list
    BY DEF OnWire, At
  <2>3. WireOrder(new, d)
    BY <2>1, <2>2, <1>1, <1>5 DEF WireOrder, Ahead
  <2>4. \A i \in At(list, "EndDecoding", Peer(d)) : new[i].in <= DecodeTicks[Peer(d)]
    <3> SUFFICES ASSUME NEW i \in At(list, "EndDecoding", Peer(d))
                 PROVE  new[i].in <= DecodeTicks[Peer(d)]
      OBVIOUS
    <3>1. i \in DOMAIN list /\ list[i].in <= DecodeTicks[Peer(d)] /\ DecodeTicks[Peer(d)] \in Nat
      BY <1>1, LinkFacts, PeerFacts DEF At, Timely
    <3> QED BY <3>1, <1>2, <1>5 DEF Timed
  <2>5. ASSUME NEW i \in At(list, "Receive", Peer(d))
        PROVE  \/ new[i].in <= DelayTicks
               \/ \E c \in At(list, "TransmitComplete", d) : new[i].in <= new[c].in + DelayTicks
    <3>1. i \in DOMAIN list
      BY DEF At
    <3>2. CASE list[i].in <= DelayTicks
      BY <3>1, <3>2, <1>2, <1>5, LinkFacts DEF Timed
    <3>3. ASSUME NEW c \in At(list, "TransmitComplete", d), list[i].in <= list[c].in + DelayTicks
          PROVE  new[i].in <= new[c].in + DelayTicks
      <4>1. c \in DOMAIN list
        BY DEF At
      <4> QED BY <4>1, <3>1, <3>3, <1>2, <1>5, LinkFacts DEF Timed
    <3> QED BY <3>2, <3>3, <1>1 DEF Timely
  <2> QED BY <2>3, <2>4, <2>5, <1>8 DEF Timely
<1> HIDE DEF new
<1>11. AgendaOK(new)
  BY <1>6, <1>7, <1>10 DEF AgendaOK
<1> QED BY <1>8, <1>9, <1>11 DEF new

\* What the head of the list says about the rest.
LEMMA TailOK ==
  ASSUME NEW list, AgendaOK(list), list # <<>>, Head(list).in = 0
  PROVE  /\ AgendaOK(Tail(list))
         /\ Head(list).event # "TransmitComplete" =>
              \A d \in Devices : Head(list).arg.dev = Peer(d) =>
                /\ \A p \in Carried(Tail(list), "Receive", d) \cup Carried(Tail(list), "EndDecoding", d) :
                     Head(list).arg.packet.id # p.id
                /\ \A p \in Carried(Tail(list), "Receive", d) :
                     Head(list).arg.packet.class = p.class => Head(list).arg.packet.id < p.id
                /\ \A p \in Carried(Tail(list), "EndDecoding", d) :
                     Head(list).arg.packet.class = p.class =>
                       IF Head(list).event = "EndDecoding" THEN Head(list).arg.packet.id < p.id
                                                           ELSE p.id < Head(list).arg.packet.id
<1>1. /\ list \in Seq(Events) /\ Sorted(list)
      /\ \A d \in Devices : WireOrder(list, d) /\ Timely(list, d)
  BY DEF AgendaOK
<1> DEFINE rest == Tail(list)
<1>2. /\ rest \in Seq(Events) /\ Head(list) = list[1] /\ 1 \in DOMAIN list
      /\ DOMAIN rest = 1 .. Len(list) - 1 /\ DOMAIN list = 1 .. Len(list) /\ Len(list) \in Nat
      /\ \A i \in DOMAIN rest : i + 1 \in DOMAIN list /\ rest[i] = list[i + 1]
  BY <1>1, TailFacts
<1>3. \A name, dev :
        At(list, name, dev) = {i + 1 : i \in At(rest, name, dev)} \cup
          (IF Head(list).event = name /\ Head(list).arg.dev = dev THEN {1} ELSE {})
  BY <1>1, TailFacts
<1> HIDE DEF rest
<1>4. \A name, dev : \A i \in At(rest, name, dev) :
        /\ i \in DOMAIN rest /\ i \in Nat /\ i > 0
        /\ i + 1 \in At(list, name, dev) /\ rest[i] = list[i + 1]
  BY <1>2, <1>3 DEF At
<1>5. Sorted(rest)
  BY <1>1, <1>2 DEF Sorted
<1>6. ASSUME NEW d \in Devices PROVE WireOrder(rest, d)
  <2>1. \A i \in OnWire(rest, d) : i \in Nat /\ i + 1 \in OnWire(list, d) /\ rest[i] = list[i + 1]
    BY <1>4 DEF OnWire
  <2> QED BY <2>1, <1>1 DEF WireOrder, Ahead
<1>7. ASSUME NEW d \in Devices PROVE Timely(rest, d)
  <2>1. \A i \in At(rest, "EndDecoding", Peer(d)) : rest[i].in <= DecodeTicks[Peer(d)]
    BY <1>1, <1>4 DEF Timely
  <2>2. ASSUME NEW i \in At(rest, "Receive", Peer(d))
        PROVE  \/ rest[i].in <= DelayTicks
               \/ \E t \in At(rest, "TransmitComplete", d) : rest[i].in <= rest[t].in + DelayTicks
    <3>1. i + 1 \in At(list, "Receive", Peer(d)) /\ rest[i] = list[i + 1]
      BY <1>4
    <3>2. CASE list[i + 1].in <= DelayTicks
      BY <3>1, <3>2
    <3>3. ASSUME NEW t \in At(list, "TransmitComplete", d),
                 list[i + 1].in <= list[t].in + DelayTicks
          PROVE  \/ rest[i].in <= DelayTicks
                 \/ \E u \in At(rest, "TransmitComplete", d) : rest[i].in <= rest[u].in + DelayTicks
      <4>1. CASE t = 1
        <5>1. list[t].in = 0
          BY <4>1, <1>2
        <5> QED BY <5>1, <3>1, <3>3, LinkFacts
      <4>2. CASE t # 1
        <5>1. PICK u \in At(rest, "TransmitComplete", d) : t = u + 1
          BY <4>2, <1>3
        <5> QED BY <5>1, <3>1, <3>3, <1>4
      <4> QED BY <4>1, <4>2
    <3> QED BY <3>1, <3>2, <3>3, <1>1 DEF Timely
  <2> QED BY <2>1, <2>2 DEF Timely
<1>8. AgendaOK(rest)
  BY <1>2, <1>5, <1>6, <1>7 DEF AgendaOK
<1>9. ASSUME Head(list).event # "TransmitComplete",
             NEW d \in Devices, Head(list).arg.dev = Peer(d)
      PROVE  /\ \A p \in Carried(rest, "Receive", d) \cup Carried(rest, "EndDecoding", d) :
                  Head(list).arg.packet.id # p.id
             /\ \A p \in Carried(rest, "Receive", d) :
                  Head(list).arg.packet.class = p.class => Head(list).arg.packet.id < p.id
             /\ \A p \in Carried(rest, "EndDecoding", d) :
                  Head(list).arg.packet.class = p.class =>
                    IF Head(list).event = "EndDecoding" THEN Head(list).arg.packet.id < p.id
                                                        ELSE p.id < Head(list).arg.packet.id
  <2>1. 1 \in OnWire(list, d) /\ list[1].event \in {"Receive", "EndDecoding"}
    BY <1>1, <1>2, <1>9, EventFacts DEF OnWire, At
  <2>2. ASSUME NEW p, NEW name \in {"Receive", "EndDecoding"}, p \in Carried(rest, name, d)
        PROVE  \E j \in OnWire(list, d) : j > 1 /\ list[j].event = name /\ list[j].arg.packet = p
    <3>1. PICK i \in At(rest, name, Peer(d)) : p = rest[i].arg.packet
      BY <2>2 DEF Carried
    <3>2. i + 1 \in OnWire(list, d) /\ i + 1 > 1 /\ rest[i] = list[i + 1] /\ rest[i].event = name
      BY <1>4, <2>2 DEF OnWire, At
    <3> QED BY <3>1, <3>2
  <2>3. ASSUME NEW p \in Carried(rest, "Receive", d)
        PROVE  /\ Head(list).arg.packet.id # p.id
               /\ Head(list).arg.packet.class = p.class => Head(list).arg.packet.id < p.id
    <3>1. PICK j \in OnWire(list, d) : j > 1 /\ list[j].event = "Receive" /\ list[j].arg.packet = p
      BY <2>2
    <3>2. Ahead(list, 1, j) /\ j # 1
      BY <2>1, <3>1, <1>2 DEF Ahead, OnWire, At
    <3> QED BY <2>1, <3>1, <3>2, <1>1, <1>2 DEF WireOrder
  <2>4. ASSUME NEW p \in Carried(rest, "EndDecoding", d)
        PROVE  /\ Head(list).arg.packet.id # p.id
               /\ Head(list).arg.packet.class = p.class =>
                    IF Head(list).event = "EndDecoding" THEN Head(list).arg.packet.id < p.id
                                                        ELSE p.id < Head(list).arg.packet.id
    <3>1. PICK j \in OnWire(list, d) : j > 1 /\ list[j].event = "EndDecoding" /\ list[j].arg.packet = p
      BY <2>2
    <3>2. /\ j # 1
          /\ IF Head(list).event = "EndDecoding" THEN Ahead(list, 1, j) ELSE Ahead(list, j, 1)
      BY <2>1, <3>1, <1>2 DEF Ahead, OnWire, At
    <3> QED BY <2>1, <3>1, <3>2, <1>1, <1>2 DEF WireOrder
  <2> QED BY <2>3, <2>4
<1> QED BY <1>8, <1>9 DEF rest

\* A frame to the peer of d enters the list: the packet is new on the wire,
\* and what is ahead of it is older, what is behind it younger.
LEMMA InsertWire ==
  ASSUME NEW old \in Seq(Events), NEW new \in Seq(Events), NEW event \in WireEvents, NEW k \in Nat,
         Inserted(new, old, k, event), NEW d \in Devices, event.arg.dev = Peer(d),
         \A o \in Devices : WireOrder(old, o),
         \A i \in OnWire(old, d) :
           LET p == old[i].arg.packet
               q == event.arg.packet
           IN  /\ p.id # q.id
               /\ old[i].event = event.event => i < k
               /\ p.class = q.class =>
                    IF old[i].event = "Receive" /\ event.event = "EndDecoding"
                    THEN q.id < p.id ELSE p.id < q.id
  PROVE  \A o \in Devices : WireOrder(new, o)
<1>1. /\ event \in Events /\ event.event \in {"Receive", "EndDecoding"}
      /\ Len(old) \in Nat /\ DOMAIN old = 1 .. Len(old) /\ DOMAIN new = 1 .. Len(old) + 1
      /\ k \in DOMAIN new
  BY EventFacts DEF Inserted, Events, WireEvents
<1>2. /\ \A i \in DOMAIN new : i # k => Before(i, k) \in DOMAIN old /\ new[i] = old[Before(i, k)]
      /\ new[k] = event
  BY <1>1 DEF Inserted
<1>3. \A o : \A i \in OnWire(new, o) :
        /\ i \in DOMAIN new
        /\ i # k => Before(i, k) \in OnWire(old, o)
        /\ i = k => event.arg.dev = Peer(o)
  <2>1. \A o : OnWire(new, o) \subseteq DOMAIN new
    BY DEF OnWire, At
  <2>2. \A o : \A i \in DOMAIN new : i # k =>
          (i \in OnWire(new, o) <=> Before(i, k) \in OnWire(old, o))
    BY <1>1, InsertCarries DEF OnWire
  <2>3. \A o : k \in OnWire(new, o) => event.arg.dev = Peer(o)
    BY <1>1, <1>2 DEF OnWire, At
  <2> QED BY <2>1, <2>2, <2>3
<1>4. SUFFICES ASSUME NEW o \in Devices, NEW i \in OnWire(new, o), NEW j \in OnWire(new, o)
               PROVE  LET p == new[i].arg.packet
                          q == new[j].arg.packet
                      IN  /\ i # j => p.id # q.id
                          /\ p.class = q.class /\ Ahead(new, i, j) => p.id < q.id
  BY DEF WireOrder
<1>5. i \in DOMAIN new /\ j \in DOMAIN new /\ i \in Nat /\ j \in Nat
  BY <1>1, <1>3
<1>6. i = k \/ j = k => o = d
  BY <1>3, PeerFacts
<1>7. CASE i # k /\ j # k
  <2>1. /\ Before(i, k) \in OnWire(old, o) /\ new[i] = old[Before(i, k)]
        /\ Before(j, k) \in OnWire(old, o) /\ new[j] = old[Before(j, k)]
    BY <1>2, <1>3, <1>5, <1>7
  <2>2. /\ i # j => Before(i, k) # Before(j, k)
        /\ i < j => Before(i, k) < Before(j, k)
    BY <1>5, <1>7 DEF Before
  <2>3. Ahead(new, i, j) => Ahead(old, Before(i, k), Before(j, k))
    BY <2>1, <2>2 DEF Ahead
  <2> QED BY <2>1, <2>2, <2>3 DEF WireOrder
<1>8. CASE i = k /\ j # k
  <2>1. Before(j, k) \in OnWire(old, d) /\ new[j] = old[Before(j, k)] /\ new[i] = event
    BY <1>2, <1>3, <1>5, <1>6, <1>8
  <2>2. old[Before(j, k)].event = event.event => j < k
    BY <2>1, <1>5, <1>8 DEF Before
  <2>3. Ahead(new, i, j) => event.event = "EndDecoding" /\ old[Before(j, k)].event = "Receive"
    BY <2>1, <2>2, <1>5, <1>8 DEF Ahead
  <2> QED BY <2>1, <2>3, <1>8
<1>9. CASE i # k /\ j = k
  <2>1. Before(i, k) \in OnWire(old, d) /\ new[i] = old[Before(i, k)] /\ new[j] = event
    BY <1>2, <1>3, <1>5, <1>6, <1>9
  <2>2. Ahead(new, i, j) => ~ (old[Before(i, k)].event = "Receive" /\ event.event = "EndDecoding")
    BY <2>1, <1>1 DEF Ahead
  <2> QED BY <2>1, <2>2, <1>9
<1>10. CASE i = k /\ j = k
  BY <1>10, <1>5 DEF Ahead
<1> QED BY <1>7, <1>8, <1>9, <1>10

\* A frame that is received begins to be decoded, behind those before it.
LEMMA DecodeOK ==
  ASSUME NEW list, AgendaOK(list), NEW d \in Devices, NEW packet \in PacketRecords,
         \A p \in Carried(list, "Receive", d) \cup Carried(list, "EndDecoding", d) :
           packet.id # p.id,
         \A p \in Carried(list, "Receive", d) : packet.class = p.class => packet.id < p.id,
         \A p \in Carried(list, "EndDecoding", d) : packet.class = p.class => p.id < packet.id,
         NEW event, event = Event(DecodeTicks[Peer(d)], "EndDecoding",
                                  [dev |-> Peer(d), packet |-> packet])
  PROVE  /\ AgendaOK(Schedule(list, event))
         /\ \A o \in Devices : SameCompletion(Schedule(list, event), list, o)
         /\ CarriesMore(Schedule(list, event), list, "EndDecoding", d, packet)
<1> DEFINE new == Schedule(list, event)
<1>1. /\ list \in Seq(Events) /\ Sorted(list) /\ Timed(list)
      /\ \A o \in Devices : WireOrder(list, o) /\ Timely(list, o)
  BY EventFacts DEF AgendaOK
<1>2. /\ event \in WireEvents /\ event \in Events
      /\ event.in = DecodeTicks[Peer(d)] /\ event.event = "EndDecoding"
      /\ event.arg.dev = Peer(d) /\ event.arg.packet = packet
  <2>1. Peer(d) \in Devices /\ DecodeTicks[Peer(d)] \in Nat
    BY PeerFacts, LinkFacts
  <2> QED BY <2>1 DEF Event, Events, WireEvents
<1>3. event.in \in Nat
  BY <1>2, LinkFacts, PeerFacts
<1>4. PICK k \in Nat : new \in Seq(Events) /\ Inserted(new, list, k, event)
  BY <1>1, <1>2, <1>3, ScheduleInserts
<1> HIDE DEF new
<1>5. \A name, dev : Moved(new, list, k, name, dev)
  BY <1>1, <1>2, <1>4, InsertMoves
<1>6. Sorted(new)
  BY <1>1, <1>2, <1>4, InsertSorts
<1>7. \A i \in OnWire(list, d) :
        LET p == list[i].arg.packet
        IN  /\ p.id # packet.id
            /\ list[i].event = "EndDecoding" => i < k
            /\ p.class = packet.class =>
                 IF list[i].event = "Receive" THEN packet.id < p.id ELSE p.id < packet.id
  <2>1. ASSUME NEW i \in At(list, "Receive", Peer(d))
        PROVE  list[i].arg.packet \in Carried(list, "Receive", d) /\ list[i].event = "Receive"
    BY DEF Carried, At
  <2>2. ASSUME NEW i \in At(list, "EndDecoding", Peer(d))
        PROVE  /\ list[i].arg.packet \in Carried(list, "EndDecoding", d)
               /\ list[i].event = "EndDecoding" /\ i < k
    <3>1. i \in DOMAIN list /\ list[i].in <= event.in
      BY <1>1, <1>2 DEF Timely, At
    <3>2. i < k
      BY <3>1, <1>1, <1>4, EventFacts DEF Inserted
    <3> QED BY <3>2 DEF Carried, At
  <2> QED BY <2>1, <2>2 DEF OnWire
<1>8. \A o \in Devices : WireOrder(new, o)
  BY <1>1, <1>2, <1>4, <1>7, InsertWire
<1>9. new[k] = event
  BY <1>4 DEF Inserted
<1>10. ASSUME NEW o \in Devices PROVE Timely(new, o)
  <2>1. \A i \in At(new, "EndDecoding", Peer(o)) : new[i].in <= DecodeTicks[Peer(o)]
    <3> SUFFICES ASSUME NEW i \in At(new, "EndDecoding", Peer(o))
                 PROVE  new[i].in <= DecodeTicks[Peer(o)]
      OBVIOUS
    <3>1. CASE i = k
      <4>1. event.arg.dev = Peer(o)
        BY <3>1, <1>9 DEF At
      <4> QED BY <4>1, <3>1, <1>2, <1>3, <1>9
    <3>2. CASE i # k
      <4>1. Before(i, k) \in At(list, "EndDecoding", Peer(o)) /\ new[i] = list[Before(i, k)]
        BY <3>2, <1>5 DEF Moved
      <4> QED BY <4>1, <1>1 DEF Timely
    <3> QED BY <3>1, <3>2
  <2>2. ASSUME NEW i \in At(new, "Receive", Peer(o))
        PROVE  \/ new[i].in <= DelayTicks
               \/ \E t \in At(new, "TransmitComplete", o) : new[i].in <= new[t].in + DelayTicks
    <3>1. i # k
      BY <1>2, <1>9 DEF At
    <3>2. Before(i, k) \in At(list, "Receive", Peer(o)) /\ new[i] = list[Before(i, k)]
      BY <3>1, <1>5 DEF Moved
    <3>3. ASSUME NEW t \in At(list, "TransmitComplete", o)
          PROVE  /\ After(t, k) \in At(new, "TransmitComplete", o)
                 /\ new[After(t, k)] = list[t]
      BY <1>5 DEF Moved
    <3> QED BY <3>2, <3>3, <1>1 DEF Timely
  <2> QED BY <2>1, <2>2 DEF Timely
<1>11. AgendaOK(new)
  BY <1>4, <1>6, <1>8, <1>10 DEF AgendaOK
<1>12. ASSUME NEW o \in Devices PROVE SameCompletion(new, list, o)
  <2>1. /\ At(new, "TransmitComplete", o) = {} <=> At(list, "TransmitComplete", o) = {}
        /\ \A i : At(list, "TransmitComplete", o) = {i} =>
             \E j : At(new, "TransmitComplete", o) = {j}
    BY <1>1, <1>2, <1>4, InsertKeeps
  <2> QED BY <2>1 DEF SameCompletion, Underway
<1>13. ASSUME NEW o \in Devices
       PROVE  /\ Carried(new, "Receive", o) = Carried(list, "Receive", o)
              /\ Carried(new, "EndDecoding", o) =
                   Carried(list, "EndDecoding", o) \cup (IF o = d THEN {packet} ELSE {})
  <2>1. Peer(d) = Peer(o) <=> o = d
    BY PeerFacts
  <2>2. Carried(new, "Receive", o) = Carried(list, "Receive", o) \cup
          (IF event.event = "Receive" /\ event.arg.dev = Peer(o) THEN {event.arg.packet} ELSE {})
    BY <1>1, <1>2, <1>4, InsertCarried
  <2>3. Carried(new, "EndDecoding", o) = Carried(list, "EndDecoding", o) \cup
          (IF event.event = "EndDecoding" /\ event.arg.dev = Peer(o) THEN {event.arg.packet} ELSE {})
    BY <1>1, <1>2, <1>4, InsertCarried
  <2> QED BY <2>1, <2>2, <2>3, <1>2
<1>14. CarriesMore(new, list, "EndDecoding", d, packet)
  BY <1>13 DEF CarriesMore
<1> QED BY <1>11, <1>12, <1>14 DEF new

\* SendOut: the frame is behind all others to the peer, and the device has
\* one completion to wait for.
LEMMA SendOutOK ==
  ASSUME NEW list, AgendaOK(list), NEW d \in Devices, NEW packet \in PacketRecords,
         At(list, "TransmitComplete", d) = {},
         \A p \in Carried(list, "Receive", d) \cup Carried(list, "EndDecoding", d) :
           p.id # packet.id /\ (p.class = packet.class => p.id < packet.id)
  PROVE  /\ AgendaOK(SendOut(list, d, packet))
         /\ Underway(SendOut(list, d, packet), d)
         /\ \A o \in Devices : o # d => SameCompletion(SendOut(list, d, packet), list, o)
         /\ CarriesMore(SendOut(list, d, packet), list, "Receive", d, packet)
<1> DEFINE arrival == Event(Arrival(packet), "Receive", [dev |-> Peer(d), packet |-> packet])
           completion == Event(packet.ticks, "TransmitComplete", [dev |-> d])
           mid == Schedule(list, arrival)
           new == Schedule(mid, completion)
<1>1. /\ list \in Seq(Events) /\ Sorted(list) /\ Timed(list)
      /\ \A o \in Devices : WireOrder(list, o) /\ Timely(list, o)
  BY EventFacts DEF AgendaOK
<1>2. packet.ticks \in Nat /\ packet.ticks > 0 /\ DelayTicks \in Nat /\ Peer(d) \in Devices
  BY LinkFacts, PeerFacts DEF PacketRecords
<1>3. /\ arrival \in WireEvents /\ arrival \in Events /\ arrival.in \in Nat
      /\ arrival.in = packet.ticks + DelayTicks /\ arrival.event = "Receive"
      /\ arrival.arg.dev = Peer(d) /\ arrival.arg.packet = packet
  BY <1>2 DEF Event, Events, WireEvents, Arrival
<1>4. /\ completion \in Events /\ completion.in = packet.ticks /\ completion.in \in Nat
      /\ completion.event = "TransmitComplete" /\ completion.arg.dev = d
  BY <1>2 DEF Event, Events, Completions
<1> HIDE DEF arrival, completion
<1>5. PICK k \in Nat : mid \in Seq(Events) /\ Inserted(mid, list, k, arrival)
  BY <1>1, <1>3, ScheduleInserts
<1> HIDE DEF mid
<1>6. Sorted(mid) /\ Timed(mid)
  BY <1>1, <1>3, <1>5, InsertSorts, EventFacts
<1>7. PICK m \in Nat : new \in Seq(Events) /\ Inserted(new, mid, m, completion)
  BY <1>4, <1>5, <1>6, ScheduleInserts
<1> HIDE DEF new
<1>8. Sorted(new)
  BY <1>4, <1>5, <1>6, <1>7, InsertSorts
<1>9. \A name, dev : Moved(mid, list, k, name, dev) /\ Moved(new, mid, m, name, dev)
  BY <1>1, <1>3, <1>4, <1>5, <1>7, InsertMoves
<1>10. mid[k] = arrival /\ new[m] = completion
  BY <1>5, <1>7 DEF Inserted
<1>11. \A o \in Devices : WireOrder(mid, o)
  <2>1. ASSUME NEW i \in At(list, "Receive", Peer(d))
        PROVE  /\ list[i].arg.packet \in Carried(list, "Receive", d)
               /\ list[i].event = "Receive" /\ i < k
    <3>1. i \in DOMAIN list /\ list[i].in <= DelayTicks /\ list[i].in \in Nat
      BY <1>1 DEF Timely, Timed, At
    <3>2. list[i].in <= arrival.in
      BY <3>1, <1>2, <1>3
    <3>3. i < k
      BY <3>1, <3>2, <1>1, <1>5, EventFacts DEF Inserted
    <3> QED BY <3>3 DEF Carried, At
  <2>2. ASSUME NEW i \in At(list, "EndDecoding", Peer(d))
        PROVE  /\ list[i].arg.packet \in Carried(list, "EndDecoding", d)
               /\ list[i].event = "EndDecoding"
    BY DEF Carried, At
  <2>3. \A i \in OnWire(list, d) :
          /\ list[i].arg.packet.id # packet.id
          /\ list[i].event = "Receive" => i < k
          /\ list[i].arg.packet.class = packet.class => list[i].arg.packet.id < packet.id
    BY <2>1, <2>2 DEF OnWire
  <2> QED BY <1>1, <1>3, <1>5, <2>3, InsertWire
<1>12. ASSUME NEW o \in Devices PROVE WireOrder(new, o)
  <2>1. \A i \in OnWire(new, o) :
          /\ i \in Nat /\ i # m /\ Before(i, m) \in OnWire(mid, o) /\ new[i] = mid[Before(i, m)]
    <3>1. \A i \in OnWire(new, o) : i # m
      BY <1>4, <1>10 DEF OnWire, At
    <3> QED BY <3>1, <1>9 DEF OnWire, Moved
  <2>2. \A i, j \in Nat : i # m /\ j # m =>
          /\ i # j => Before(i, m) # Before(j, m)
          /\ i < j => Before(i, m) < Before(j, m)
    BY DEF Before
  <2>3. \A i, j \in OnWire(new, o) : Ahead(new, i, j) => Ahead(mid, Before(i, m), Before(j, m))
    BY <2>1, <2>2 DEF Ahead
  <2> QED BY <2>1, <2>2, <2>3, <1>11 DEF WireOrder
<1>13. \A o \in Devices : Timely(mid, o) \/ o = d
  <2> SUFFICES ASSUME NEW o \in Devices, o # d PROVE Timely(mid, o)
    OBVIOUS
  <2>1. \A name \in {"Receive", "EndDecoding", "TransmitComplete"} :
          k \in At(mid, name, Peer(o)) => FALSE
    BY <1>3, <1>10, PeerFacts DEF At
  <2>2. \A name \in {"Receive", "EndDecoding"} : \A i \in At(mid, name, Peer(o)) :
          mid[i] = list[Before(i, k)] /\ Before(i, k) \in At(list, name, Peer(o))
    BY <2>1, <1>9 DEF Moved
  <2>3. \A t \in At(list, "TransmitComplete", o) :
          mid[After(t, k)] = list[t] /\ After(t, k) \in At(mid, "TransmitComplete", o)
    BY <1>9 DEF Moved
  <2>4. Timely(list, o)
    BY <1>1
  <2> QED BY <2>2, <2>3, <2>4 DEF Timely
<1>14. ASSUME NEW o \in Devices PROVE Timely(new, o)
  <2>1. \A name \in {"Receive", "EndDecoding"} : \A i \in At(new, name, Peer(o)) :
          new[i] = mid[Before(i, m)] /\ Before(i, m) \in At(mid, name, Peer(o))
    <3>1. \A name \in {"Receive", "EndDecoding"} : m \notin At(new, name, Peer(o))
      BY <1>4, <1>10 DEF At
    <3> QED BY <3>1, <1>9 DEF Moved
  <2>2. \A t \in At(mid, "TransmitComplete", o) :
          new[After(t, m)] = mid[t] /\ After(t, m) \in At(new, "TransmitComplete", o)
    BY <1>9 DEF Moved
  <2>3. CASE o # d
    <3>1. Timely(mid, o)
      BY <2>3, <1>13
    <3> QED BY <3>1, <2>1, <2>2 DEF Timely
  <2>4. CASE o = d
    <3>1. m \in At(new, "TransmitComplete", o) /\ new[m].in = packet.ticks
      BY <2>4, <1>4, <1>7, <1>10, EventFacts DEF At, Inserted
    <3>2. \A i \in At(mid, "EndDecoding", Peer(o)) : mid[i].in <= DecodeTicks[Peer(o)]
      <4>1. \A i \in At(mid, "EndDecoding", Peer(o)) :
              mid[i] = list[Before(i, k)] /\ Before(i, k) \in At(list, "EndDecoding", Peer(o))
        BY <1>3, <1>9, <1>10 DEF Moved, At
      <4> QED BY <4>1, <1>1 DEF Timely
    <3>3. \A i \in At(mid, "Receive", Peer(o)) : mid[i].in <= packet.ticks + DelayTicks
      <4>1. ASSUME NEW i \in At(mid, "Receive", Peer(o)), i # k
            PROVE  mid[i].in <= packet.ticks + DelayTicks
        <5>1. mid[i] = list[Before(i, k)] /\ Before(i, k) \in At(list, "Receive", Peer(o))
          BY <4>1, <1>9 DEF Moved
        <5>2. list[Before(i, k)].in <= DelayTicks /\ list[Before(i, k)].in \in Nat
          BY <5>1, <2>4, <1>1 DEF Timely, Timed, At
        <5> QED BY <5>1, <5>2, <1>2
      <4> QED BY <4>1, <1>3, <1>10, <1>2
    <3> QED BY <3>1, <3>2, <3>3, <2>1 DEF Timely
  <2> QED BY <2>3, <2>4
<1>15. AgendaOK(new)
  BY <1>7, <1>8, <1>12, <1>14 DEF AgendaOK
<1>16. At(new, "TransmitComplete", d) = {m}
  <2>1. At(mid, "TransmitComplete", d) = {}
    BY <1>1, <1>3, <1>5, InsertKeeps
  <2>2. m \in At(new, "TransmitComplete", d)
    BY <1>4, <1>7, <1>10, EventFacts DEF At, Inserted
  <2> QED BY <2>1, <2>2, <1>9 DEF Moved
<1>17. ASSUME NEW o \in Devices, o # d PROVE SameCompletion(new, list, o)
  <2>1. /\ At(mid, "TransmitComplete", o) = {} <=> At(list, "TransmitComplete", o) = {}
        /\ \A i : At(list, "TransmitComplete", o) = {i} =>
             \E j : At(mid, "TransmitComplete", o) = {j}
    BY <1>1, <1>3, <1>5, InsertKeeps
  <2>2. /\ At(new, "TransmitComplete", o) = {} <=> At(mid, "TransmitComplete", o) = {}
        /\ \A i : At(mid, "TransmitComplete", o) = {i} =>
             \E j : At(new, "TransmitComplete", o) = {j}
    BY <1>4, <1>5, <1>7, <1>17, InsertKeeps
  <2> QED BY <2>1, <2>2 DEF SameCompletion, Underway
<1>18. ASSUME NEW o \in Devices
       PROVE  /\ Carried(new, "EndDecoding", o) = Carried(list, "EndDecoding", o)
              /\ Carried(new, "Receive", o) =
                   Carried(list, "Receive", o) \cup (IF o = d THEN {packet} ELSE {})
  <2>1. Peer(d) = Peer(o) <=> o = d
    BY PeerFacts
  <2>2. \A name : Carried(mid, name, o) = Carried(list, name, o) \cup
          (IF arrival.event = name /\ arrival.arg.dev = Peer(o) THEN {arrival.arg.packet} ELSE {})
    BY <1>1, <1>3, <1>5, InsertCarried
  <2>3. \A name : Carried(new, name, o) = Carried(mid, name, o) \cup
          (IF completion.event = name /\ completion.arg.dev = Peer(o)
           THEN {completion.arg.packet} ELSE {})
    BY <1>4, <1>5, <1>7, InsertCarried
  <2> QED BY <2>1, <2>2, <2>3, <1>3, <1>4
<1>19. SendOut(list, d, packet) = new
  BY DEF SendOut, new, mid, arrival, completion
<1>20. Underway(new, d) /\ CarriesMore(new, list, "Receive", d, packet)
  BY <1>16, <1>18 DEF Underway, CarriesMore
<1> QED BY <1>15, <1>17, <1>19, <1>20

-----------------------------------------------------------------------------
(* The packets of one sender: q is its queues, w what is on the wire, dq    *)
(* the numbers in m_deviceQueue, n how many it accepted, s and x what the   *)
(* peer has passed up and dropped.                                         *)

IdsOf(packets) == {p.id : p \in packets}

FlowTyped(q, w, dq, n, s, x) ==
  /\ q \in [Classes -> Seq(PacketRecords)] /\ w \in SUBSET PacketRecords
  /\ dq \in SUBSET Nat /\ n \in Nat /\ s \in Seq(PacketRecords) /\ x \in SUBSET Nat

\* Of one class the queue is behind the wire, and the wire behind the peer.
FlowOrdered(q, w, s) ==
  /\ \A c \in Classes : \A i \in DOMAIN q[c] :
       /\ q[c][i].class = c
       /\ \A j \in DOMAIN q[c] : i < j => q[c][i].id < q[c][j].id
       /\ \A p \in w : p.class = c => p.id < q[c][i].id
       /\ \A k \in DOMAIN s : s[k].class = c => s[k].id < q[c][i].id
  /\ \A k \in DOMAIN s : \A p \in w : s[k].class = p.class => s[k].id < p.id
  /\ \A i, j \in DOMAIN s : i < j /\ s[i].class = s[j].class => s[i].id < s[j].id

\* Every accepted packet is in one place.
Parted(a, b, dq, w, s, x, n) ==
  /\ a \cup b \cup dq \cup w \cup s \cup x = 1..n
  /\ a \cap b = {} /\ a \cap dq = {} /\ a \cap w = {} /\ a \cap s = {} /\ a \cap x = {}
  /\ b \cap dq = {} /\ b \cap w = {} /\ b \cap s = {} /\ b \cap x = {}
  /\ dq \cap w = {} /\ dq \cap s = {} /\ dq \cap x = {}
  /\ w \cap s = {} /\ w \cap x = {} /\ s \cap x = {}

\* A number moves from the first set to the fourth.
LEMMA PartedMove ==
  ASSUME NEW a, NEW b, NEW dq, NEW w, NEW s, NEW x, NEW n, NEW id,
         id \notin a, Parted(a \cup {id}, b, dq, w, s, x, n)
  PROVE  Parted(a, b, dq, w \cup {id}, s, x, n)
<1>1. a \cup b \cup dq \cup (w \cup {id}) \cup s \cup x = 1..n
  BY Zenon DEF Parted
<1>2. id \notin b /\ id \notin dq /\ id \notin s /\ id \notin x
  BY Zenon DEF Parted
<1>3. a \cap b = {} /\ a \cap dq = {} /\ a \cap w = {} /\ a \cap s = {} /\ a \cap x = {}
  BY Zenon DEF Parted
<1>4. /\ b \cap dq = {} /\ b \cap w = {} /\ b \cap s = {} /\ b \cap x = {}
      /\ dq \cap w = {} /\ dq \cap s = {} /\ dq \cap x = {}
      /\ w \cap s = {} /\ w \cap x = {} /\ s \cap x = {}
  BY Zenon DEF Parted
<1>5. a \cap (w \cup {id}) = {} /\ b \cap (w \cup {id}) = {} /\ dq \cap (w \cup {id}) = {}
  BY <1>2, <1>3, <1>4
<1>6. (w \cup {id}) \cap s = {} /\ (w \cup {id}) \cap x = {}
  BY <1>2, <1>4
<1> QED BY <1>1, <1>3, <1>4, <1>5, <1>6 DEF Parted

\* The two queues may change places.
LEMMA PartedClasses ==
  ASSUME NEW a, NEW b, NEW dq, NEW w, NEW s, NEW x, NEW n, Parted(a, b, dq, w, s, x, n)
  PROVE  Parted(b, a, dq, w, s, x, n)
<1>1. b \cup a \cup dq \cup w \cup s \cup x = 1..n
  BY Zenon DEF Parted
<1>2. b \cap a = {}
  BY Zenon DEF Parted
<1> QED BY <1>1, <1>2 DEF Parted

FlowOK(q, w, dq, n, s, x) ==
  /\ FlowTyped(q, w, dq, n, s, x)
  /\ FlowOrdered(q, w, s)
  /\ Parted(Ids(q[Classic]), Ids(q[LowLatency]), dq, IdsOf(w), Ids(s), x, n)

\* There are two service flows.
LEMMA ClassFacts == Classes = {Classic, LowLatency} /\ Classic # LowLatency
BY DEF Classes, Classic, LowLatency

\* A packet at the end of a queue, with its number.
LEMMA AppendFacts ==
  ASSUME NEW seq \in Seq(PacketRecords), NEW p \in PacketRecords
  PROVE  /\ Append(seq, p) \in Seq(PacketRecords)
         /\ Len(seq) \in Nat /\ DOMAIN seq = 1 .. Len(seq)
         /\ DOMAIN Append(seq, p) = 1 .. Len(seq) + 1
         /\ \A i \in DOMAIN seq : Append(seq, p)[i] = seq[i]
         /\ Append(seq, p)[Len(seq) + 1] = p
         /\ \A i \in DOMAIN Append(seq, p) : i \in DOMAIN seq \/ i = Len(seq) + 1
         /\ Ids(Append(seq, p)) = Ids(seq) \cup {p.id}
<1>1. /\ Append(seq, p) \in Seq(PacketRecords)
      /\ Len(seq) \in Nat /\ DOMAIN seq = 1 .. Len(seq)
      /\ DOMAIN Append(seq, p) = 1 .. Len(seq) + 1
      /\ \A i \in DOMAIN seq : Append(seq, p)[i] = seq[i]
      /\ Append(seq, p)[Len(seq) + 1] = p
  BY AppendProperties, LenProperties
<1>2. \A i \in DOMAIN Append(seq, p) : i \in DOMAIN seq \/ i = Len(seq) + 1
  BY <1>1
<1>3. Len(seq) + 1 \in DOMAIN Append(seq, p) /\ DOMAIN seq \subseteq DOMAIN Append(seq, p)
  BY <1>1
<1> DEFINE longer == Append(seq, p)
<1> HIDE DEF longer
<1>4. Ids(longer) = Ids(seq) \cup {p.id}
  <2>1. ASSUME NEW i \in DOMAIN longer PROVE longer[i].id \in Ids(seq) \cup {p.id}
    BY <1>1, <1>2 DEF Ids, longer
  <2>2. ASSUME NEW i \in DOMAIN seq PROVE seq[i].id \in Ids(longer)
    BY <1>1, <1>3 DEF Ids, longer
  <2>3. p.id \in Ids(longer)
    BY <1>1, <1>3 DEF Ids, longer
  <2> QED BY <2>1, <2>2, <2>3 DEF Ids
<1> QED BY <1>1, <1>2, <1>4 DEF longer

\* A queue without its first packet.
LEMMA TailOfQueue ==
  ASSUME NEW seq \in Seq(PacketRecords), seq # <<>>
  PROVE  /\ Tail(seq) \in Seq(PacketRecords) /\ Head(seq) \in PacketRecords
         /\ Head(seq) = seq[1] /\ 1 \in DOMAIN seq
         /\ \A i \in DOMAIN Tail(seq) :
              i \in Nat /\ i > 0 /\ i + 1 \in DOMAIN seq /\ Tail(seq)[i] = seq[i + 1]
         /\ Ids(seq) = Ids(Tail(seq)) \cup {Head(seq).id}
         /\ Len(Tail(seq)) = Len(seq) - 1
<1>1. /\ Tail(seq) \in Seq(PacketRecords) /\ Head(seq) \in PacketRecords
      /\ Len(Tail(seq)) = Len(seq) - 1
      /\ \A i \in 1 .. Len(Tail(seq)) : Tail(seq)[i] = seq[i + 1]
  BY HeadTailProperties
<1>2. /\ Len(seq) \in Nat /\ Len(seq) > 0 /\ DOMAIN seq = 1 .. Len(seq)
      /\ DOMAIN Tail(seq) = 1 .. Len(Tail(seq)) /\ Head(seq) = seq[1]
  BY <1>1, LenProperties, EmptySeq
<1>3. /\ 1 \in DOMAIN seq
      /\ \A i \in DOMAIN Tail(seq) :
           i \in Nat /\ i > 0 /\ i + 1 \in DOMAIN seq /\ Tail(seq)[i] = seq[i + 1]
  BY <1>1, <1>2
<1>4. \A i \in DOMAIN seq : i = 1 \/ (i - 1 \in DOMAIN Tail(seq) /\ i - 1 + 1 = i)
  BY <1>1, <1>2
<1> DEFINE rest == Tail(seq)
<1> HIDE DEF rest
<1>5. Ids(seq) = Ids(rest) \cup {Head(seq).id}
  <2>1. ASSUME NEW i \in DOMAIN seq PROVE seq[i].id \in Ids(rest) \cup {Head(seq).id}
    <3>1. CASE i = 1
      BY <3>1, <1>2
    <3>2. CASE i # 1
      BY <3>2, <1>3, <1>4 DEF Ids, rest
    <3> QED BY <3>1, <3>2
  <2>2. ASSUME NEW i \in DOMAIN rest PROVE rest[i].id \in Ids(seq)
    BY <1>3 DEF Ids, rest
  <2>3. Head(seq).id \in Ids(seq)
    BY <1>2, <1>3 DEF Ids
  <2> QED BY <2>1, <2>2, <2>3 DEF Ids
<1> QED BY <1>1, <1>2, <1>3, <1>5 DEF rest

\* A packet of either queue or of the wire is one of those accepted.
LEMMA FlowBounds ==
  ASSUME NEW q, NEW w, NEW dq, NEW n, NEW s, NEW x, FlowOK(q, w, dq, n, s, x)
  PROVE  /\ n \in Nat
         /\ \A c \in Classes : Ids(q[c]) \subseteq 1..n
         /\ \A p \in w : p.id \in 1..n
         /\ Ids(s) \subseteq 1..n /\ x \subseteq 1..n /\ dq \subseteq 1..n
BY ClassFacts DEF FlowOK, FlowTyped, Parted, IdsOf

\* A number that no packet has yet joins the queues or m_deviceQueue.
LEMMA PartedGrows ==
  ASSUME NEW a, NEW b, NEW dq, NEW w, NEW s, NEW x, NEW n \in Nat, Parted(a, b, dq, w, s, x, n)
  PROVE  /\ Parted(a \cup {n + 1}, b, dq, w, s, x, n + 1)
         /\ Parted(a, b \cup {n + 1}, dq, w, s, x, n + 1)
         /\ Parted(a, b, dq \cup {n + 1}, w, s, x, n + 1)
<1> DEFINE m == n + 1
           all == 1..n
           more == 1..m
<1>1. more = all \cup {m} /\ m \notin all
  OBVIOUS
<1>2. a \cup b \cup dq \cup w \cup s \cup x = all
  BY DEF Parted
<1> HIDE DEF m, all
<1>3. /\ m \notin a /\ m \notin b /\ m \notin dq
      /\ m \notin w /\ m \notin s /\ m \notin x
  BY <1>1, <1>2
<1>4. /\ (a \cup {m}) \cup b \cup dq \cup w \cup s \cup x = more
      /\ a \cup (b \cup {m}) \cup dq \cup w \cup s \cup x = more
      /\ a \cup b \cup (dq \cup {m}) \cup w \cup s \cup x = more
  BY <1>1, <1>2
<1>5. Parted(a \cup {m}, b, dq, w, s, x, m)
  BY <1>3, <1>4 DEF Parted
<1>6. Parted(a, b \cup {m}, dq, w, s, x, m)
  BY <1>3, <1>4 DEF Parted
<1>7. Parted(a, b, dq \cup {m}, w, s, x, m)
  BY <1>3, <1>4 DEF Parted
<1> QED BY <1>5, <1>6, <1>7 DEF m

\* A new packet joins the queue of its class.
LEMMA FlowQueues ==
  ASSUME NEW q, NEW w, NEW dq, NEW n, NEW s, NEW x, FlowOK(q, w, dq, n, s, x),
         NEW packet \in PacketRecords, packet.id = n + 1
  PROVE  FlowOK([q EXCEPT ![packet.class] = Append(@, packet)], w, dq, n + 1, s, x)
<1> DEFINE c == packet.class
           new == [q EXCEPT ![c] = Append(@, packet)]
<1>1. /\ q \in [Classes -> Seq(PacketRecords)] /\ w \in SUBSET PacketRecords
      /\ n \in Nat /\ s \in Seq(PacketRecords) /\ c \in Classes
  BY DEF FlowOK, FlowTyped, PacketRecords
<1>2. /\ \A o \in Classes : Ids(q[o]) \subseteq 1..n
      /\ \A p \in w : p.id \in 1..n
      /\ Ids(s) \subseteq 1..n /\ x \subseteq 1..n /\ dq \subseteq 1..n
  BY FlowBounds
<1>3. /\ new[c] = Append(q[c], packet) /\ \A o \in Classes : o # c => new[o] = q[o]
      /\ new[c] \in Seq(PacketRecords)
      /\ DOMAIN q[c] = 1 .. Len(q[c]) /\ Len(q[c]) \in Nat
      /\ DOMAIN new[c] = 1 .. Len(q[c]) + 1
      /\ \A i \in DOMAIN q[c] : new[c][i] = q[c][i]
      /\ new[c][Len(q[c]) + 1] = packet
      /\ \A i \in DOMAIN new[c] : i \in DOMAIN q[c] \/ i = Len(q[c]) + 1
      /\ Ids(new[c]) = Ids(q[c]) \cup {n + 1}
  BY <1>1, AppendFacts
<1>4. FlowTyped(new, w, dq, n + 1, s, x)
  <2>1. new \in [Classes -> Seq(PacketRecords)]
    BY <1>1, <1>3
  <2> QED BY <2>1 DEF FlowOK, FlowTyped
<1> HIDE DEF new
<1>5. FlowOrdered(q, w, s)
  BY DEF FlowOK
<1>6. FlowOrdered(new, w, s)
  <2>1. \A i \in DOMAIN q[c] : q[c][i].id \in 1..n
    BY <1>1, <1>2 DEF Ids
  <2>2. \A k \in DOMAIN s : s[k].id \in 1..n
    BY <1>2 DEF Ids
  <2>3. ASSUME NEW i \in DOMAIN new[c]
        PROVE  /\ new[c][i].class = c
               /\ \A j \in DOMAIN new[c] : i < j => new[c][i].id < new[c][j].id
               /\ \A p \in w : p.class = c => p.id < new[c][i].id
               /\ \A k \in DOMAIN s : s[k].class = c => s[k].id < new[c][i].id
    <3>1. CASE i \in DOMAIN q[c]
      <4>1. \A j \in DOMAIN new[c] : i < j => new[c][i].id < new[c][j].id
        BY <3>1, <2>1, <1>1, <1>3, <1>5 DEF FlowOrdered
      <4> QED BY <4>1, <3>1, <1>1, <1>3, <1>5 DEF FlowOrdered
    <3>2. CASE i = Len(q[c]) + 1
      <4>1. new[c][i] = packet /\ packet.class = c /\ packet.id = n + 1
        BY <3>2, <1>3
      <4>2. \A j \in DOMAIN new[c] : ~ (i < j)
        BY <3>2, <1>3
      <4> QED BY <4>1, <4>2, <2>2, <1>1, <1>2
    <3> QED BY <3>1, <3>2, <1>3
  <2>4. ASSUME NEW o \in Classes, o # c, NEW i \in DOMAIN new[o]
        PROVE  /\ new[o][i].class = o
               /\ \A j \in DOMAIN new[o] : i < j => new[o][i].id < new[o][j].id
               /\ \A p \in w : p.class = o => p.id < new[o][i].id
               /\ \A k \in DOMAIN s : s[k].class = o => s[k].id < new[o][i].id
    <3>1. new[o] = q[o]
      BY <2>4, <1>3
    <3> QED BY <3>1, <1>5 DEF FlowOrdered
  <2> QED BY <2>3, <2>4, <1>5 DEF FlowOrdered
<1>7. Parted(Ids(new[Classic]), Ids(new[LowLatency]), dq, IdsOf(w), Ids(s), x, n + 1)
  <2>1. Parted(Ids(q[Classic]), Ids(q[LowLatency]), dq, IdsOf(w), Ids(s), x, n)
    BY DEF FlowOK
  <2>2. CASE c = Classic
    <3>1. Ids(new[Classic]) = Ids(q[Classic]) \cup {n + 1} /\ Ids(new[LowLatency]) = Ids(q[LowLatency])
      BY <2>2, <1>3, ClassFacts
    <3>2. Parted(Ids(q[Classic]) \cup {n + 1}, Ids(q[LowLatency]), dq, IdsOf(w), Ids(s), x, n + 1)
      BY <2>1, <1>1, PartedGrows
    <3> QED BY <3>1, <3>2
  <2>3. CASE c = LowLatency
    <3>1. Ids(new[LowLatency]) = Ids(q[LowLatency]) \cup {n + 1} /\ Ids(new[Classic]) = Ids(q[Classic])
      BY <2>3, <1>3, ClassFacts
    <3>2. Parted(Ids(q[Classic]), Ids(q[LowLatency]) \cup {n + 1}, dq, IdsOf(w), Ids(s), x, n + 1)
      BY <2>1, <1>1, PartedGrows
    <3> QED BY <3>1, <3>2
  <2> QED BY <2>2, <2>3, <1>1, ClassFacts
<1>8. FlowOK(new, w, dq, n + 1, s, x)
  BY <1>4, <1>6, <1>7 DEF FlowOK
<1> QED BY <1>8 DEF new

\* The head of a queue is younger than all of its class on the wire, and
\* goes onto the wire.
LEMMA FlowSends ==
  ASSUME NEW q, NEW w, NEW dq, NEW n, NEW s, NEW x, FlowOK(q, w, dq, n, s, x),
         NEW c \in Classes, q[c] # <<>>
  PROVE  /\ Head(q[c]) \in PacketRecords
         /\ \A p \in w : p.id # Head(q[c]).id /\ (p.class = Head(q[c]).class => p.id < Head(q[c]).id)
         /\ FlowOK([q EXCEPT ![c] = Tail(@)], w \cup {Head(q[c])}, dq, n, s, x)
<1> DEFINE first == Head(q[c])
           new == [q EXCEPT ![c] = Tail(@)]
<1>1. /\ q \in [Classes -> Seq(PacketRecords)] /\ w \in SUBSET PacketRecords
      /\ n \in Nat /\ s \in Seq(PacketRecords)
  BY DEF FlowOK, FlowTyped
<1>2. FlowOrdered(q, w, s)
  BY DEF FlowOK
<1>3. /\ new[c] = Tail(q[c]) /\ \A o \in Classes : o # c => new[o] = q[o]
      /\ new[c] \in Seq(PacketRecords)
      /\ first \in PacketRecords /\ first = q[c][1] /\ 1 \in DOMAIN q[c]
      /\ \A i \in DOMAIN new[c] :
           i \in Nat /\ i > 0 /\ i + 1 \in DOMAIN q[c] /\ new[c][i] = q[c][i + 1]
      /\ Ids(q[c]) = Ids(new[c]) \cup {first.id}
  <2>1. q[c] \in Seq(PacketRecords)
    BY <1>1
  <2> QED BY <1>1, <2>1, TailOfQueue
<1>4. FlowTyped(new, w \cup {first}, dq, n, s, x)
  <2>1. new \in [Classes -> Seq(PacketRecords)]
    BY <1>1, <1>3
  <2> QED BY <2>1, <1>3 DEF FlowOK, FlowTyped
<1> HIDE DEF new, first
<1>5. first.class = c
  BY <1>2, <1>3 DEF FlowOrdered
<1>6. \A p \in w : p.class = first.class => p.id < first.id
  BY <1>2, <1>3, <1>5 DEF FlowOrdered
<1>7. \A i \in DOMAIN new[c] : first.id < new[c][i].id
  BY <1>2, <1>3 DEF FlowOrdered
<1>8. FlowOrdered(new, w \cup {first}, s)
  <2>1. ASSUME NEW i \in DOMAIN new[c]
        PROVE  /\ new[c][i].class = c
               /\ \A j \in DOMAIN new[c] : i < j => new[c][i].id < new[c][j].id
               /\ \A p \in w \cup {first} : p.class = c => p.id < new[c][i].id
               /\ \A k \in DOMAIN s : s[k].class = c => s[k].id < new[c][i].id
    <3>1. i + 1 \in DOMAIN q[c] /\ new[c][i] = q[c][i + 1] /\ i \in Nat
      BY <1>3
    <3>2. \A j \in DOMAIN new[c] : i < j => new[c][i].id < new[c][j].id
      BY <3>1, <1>2, <1>3 DEF FlowOrdered
    <3> QED BY <3>1, <3>2, <1>2, <1>7 DEF FlowOrdered
  <2>2. ASSUME NEW o \in Classes, o # c, NEW i \in DOMAIN new[o]
        PROVE  /\ new[o][i].class = o
               /\ \A j \in DOMAIN new[o] : i < j => new[o][i].id < new[o][j].id
               /\ \A p \in w \cup {first} : p.class = o => p.id < new[o][i].id
               /\ \A k \in DOMAIN s : s[k].class = o => s[k].id < new[o][i].id
    <3>1. new[o] = q[o]
      BY <2>2, <1>3
    <3> QED BY <3>1, <2>2, <1>2, <1>5 DEF FlowOrdered
  <2>3. \A k \in DOMAIN s : s[k].class = first.class => s[k].id < first.id
    BY <1>2, <1>3, <1>5 DEF FlowOrdered
  <2> QED BY <2>1, <2>2, <2>3, <1>2 DEF FlowOrdered
<1>9. Parted(Ids(q[Classic]), Ids(q[LowLatency]), dq, IdsOf(w), Ids(s), x, n)
  BY DEF FlowOK
<1>10. first.id \notin Ids(new[c])
  <2> SUFFICES ASSUME NEW i \in DOMAIN new[c], new[c][i].id = first.id PROVE FALSE
    BY DEF Ids
  <2>1. first.id \in Nat /\ first.id < new[c][i].id
    BY <1>3, <1>7 DEF PacketRecords
  <2> QED BY <2>1
<1>11. IdsOf(w \cup {first}) = IdsOf(w) \cup {first.id}
  BY DEF IdsOf
<1>12. Parted(Ids(new[Classic]), Ids(new[LowLatency]), dq, IdsOf(w \cup {first}), Ids(s), x, n)
  <2>1. CASE c = Classic
    <3>1. Ids(q[Classic]) = Ids(new[Classic]) \cup {first.id} /\ Ids(new[LowLatency]) = Ids(q[LowLatency])
      BY <2>1, <1>3, ClassFacts
    <3>2. first.id \notin Ids(new[Classic])
      BY <2>1, <1>10
    <3>3. Parted(Ids(new[Classic]) \cup {first.id}, Ids(q[LowLatency]), dq, IdsOf(w), Ids(s), x, n)
      BY <3>1, <1>9
    <3>4. Parted(Ids(new[Classic]), Ids(q[LowLatency]), dq, IdsOf(w) \cup {first.id}, Ids(s), x, n)
      BY <3>2, <3>3, PartedMove
    <3> QED BY <3>1, <3>4, <1>11
  <2>2. CASE c = LowLatency
    <3>1. Ids(q[LowLatency]) = Ids(new[LowLatency]) \cup {first.id} /\ Ids(new[Classic]) = Ids(q[Classic])
      BY <2>2, <1>3, ClassFacts
    <3>2. first.id \notin Ids(new[LowLatency])
      BY <2>2, <1>10
    <3>3. Parted(Ids(q[LowLatency]), Ids(q[Classic]), dq, IdsOf(w), Ids(s), x, n)
      BY <1>9, PartedClasses
    <3>4. Parted(Ids(new[LowLatency]), Ids(q[Classic]), dq, IdsOf(w) \cup {first.id}, Ids(s), x, n)
      BY <3>1, <3>2, <3>3, PartedMove
    <3>5. Parted(Ids(q[Classic]), Ids(new[LowLatency]), dq, IdsOf(w) \cup {first.id}, Ids(s), x, n)
      BY <3>4, PartedClasses
    <3> QED BY <3>1, <3>5, <1>11
  <2> QED BY <2>1, <2>2, ClassFacts
<1>13. first.id \notin IdsOf(w)
  <2>1. first.id \in Ids(q[c])
    BY <1>3
  <2> QED BY <2>1, <1>9, ClassFacts DEF Parted
<1>14. \A p \in w : p.id # first.id
  BY <1>13 DEF IdsOf
<1>15. FlowOK(new, w \cup {first}, dq, n, s, x)
  BY <1>4, <1>8, <1>12 DEF FlowOK
<1> QED BY <1>3, <1>6, <1>14, <1>15 DEF new, first

\* The oldest packet of its class on the wire is passed up.
LEMMA FlowPassesUp ==
  ASSUME NEW q, NEW w, NEW dq, NEW n, NEW s, NEW x, NEW packet \in PacketRecords,
         FlowOK(q, w \cup {packet}, dq, n, s, x),
         \A p \in w : packet.id # p.id /\ (packet.class = p.class => packet.id < p.id)
  PROVE  FlowOK(q, w, dq, n, Append(s, packet), x)
<1> DEFINE new == Append(s, packet)
           wire == w \cup {packet}
<1>1. /\ q \in [Classes -> Seq(PacketRecords)] /\ w \in SUBSET PacketRecords
      /\ n \in Nat /\ s \in Seq(PacketRecords)
  BY DEF FlowOK, FlowTyped
<1>2. FlowOrdered(q, wire, s)
  BY DEF FlowOK
<1>3. /\ new \in Seq(PacketRecords)
      /\ Len(s) \in Nat /\ DOMAIN s = 1 .. Len(s) /\ DOMAIN new = 1 .. Len(s) + 1
      /\ \A i \in DOMAIN s : new[i] = s[i]
      /\ new[Len(s) + 1] = packet
      /\ \A i \in DOMAIN new : i \in DOMAIN s \/ i = Len(s) + 1
      /\ Ids(new) = Ids(s) \cup {packet.id}
  BY <1>1, AppendFacts
<1>4. FlowTyped(q, w, dq, n, new, x)
  BY <1>1, <1>3 DEF FlowOK, FlowTyped
<1> HIDE DEF new
<1>5. FlowOrdered(q, w, new)
  <2>1. ASSUME NEW c \in Classes, NEW i \in DOMAIN q[c]
        PROVE  \A k \in DOMAIN new : new[k].class = c => new[k].id < q[c][i].id
    <3>1. \A k \in DOMAIN s : s[k].class = c => s[k].id < q[c][i].id
      BY <1>2 DEF FlowOrdered
    <3>2. packet.class = c => packet.id < q[c][i].id
      BY <1>2 DEF FlowOrdered
    <3> QED BY <3>1, <3>2, <1>3
  <2>2. \A k \in DOMAIN new : \A p \in w : new[k].class = p.class => new[k].id < p.id
    <3>1. \A k \in DOMAIN s : \A p \in w : s[k].class = p.class => s[k].id < p.id
      BY <1>2 DEF FlowOrdered
    <3> QED BY <3>1, <1>3
  <2>3. ASSUME NEW i \in DOMAIN new, NEW j \in DOMAIN new, i < j, new[i].class = new[j].class
        PROVE  new[i].id < new[j].id
    <3>1. i \in DOMAIN s /\ new[i] = s[i]
      BY <2>3, <1>3
    <3>2. CASE j \in DOMAIN s
      BY <3>1, <3>2, <2>3, <1>2, <1>3 DEF FlowOrdered
    <3>3. CASE j = Len(s) + 1
      BY <3>1, <3>3, <2>3, <1>2, <1>3 DEF FlowOrdered
    <3> QED BY <3>2, <3>3, <1>3
  <2> QED BY <2>1, <2>2, <2>3, <1>2 DEF FlowOrdered
<1>6. Parted(Ids(q[Classic]), Ids(q[LowLatency]), dq, IdsOf(w), Ids(new), x, n)
  <2>1. IdsOf(wire) = IdsOf(w) \cup {packet.id} /\ packet.id \notin IdsOf(w)
    BY DEF IdsOf
  <2>2. Parted(Ids(q[Classic]), Ids(q[LowLatency]), dq, IdsOf(w) \cup {packet.id}, Ids(s), x, n)
    BY <2>1 DEF FlowOK
  <2>3. Parted(Ids(q[Classic]), Ids(q[LowLatency]), dq, IdsOf(w), Ids(s) \cup {packet.id}, x, n)
    BY <2>1, <2>2, Zenon DEF Parted
  <2> QED BY <2>3, <1>3
<1> QED BY <1>4, <1>5, <1>6 DEF FlowOK, new

\* Or it is dropped.
LEMMA FlowDrops ==
  ASSUME NEW q, NEW w, NEW dq, NEW n, NEW s, NEW x, NEW packet \in PacketRecords,
         FlowOK(q, w \cup {packet}, dq, n, s, x),
         \A p \in w : packet.id # p.id
  PROVE  FlowOK(q, w, dq, n, s, x \cup {packet.id})
<1>1. FlowTyped(q, w, dq, n, s, x \cup {packet.id})
  BY DEF FlowOK, FlowTyped, PacketRecords
<1>2. FlowOrdered(q, w, s)
  BY DEF FlowOK, FlowOrdered
<1>3. Parted(Ids(q[Classic]), Ids(q[LowLatency]), dq, IdsOf(w), Ids(s), x \cup {packet.id}, n)
  <2>1. IdsOf(w \cup {packet}) = IdsOf(w) \cup {packet.id} /\ packet.id \notin IdsOf(w)
    BY DEF IdsOf
  <2>2. Parted(Ids(q[Classic]), Ids(q[LowLatency]), dq, IdsOf(w) \cup {packet.id}, Ids(s), x, n)
    BY <2>1 DEF FlowOK
  <2> QED BY <2>1, <2>2, Zenon DEF Parted
<1> QED BY <1>1, <1>2, <1>3 DEF FlowOK

\* A packet that goes past the dual queue joins m_deviceQueue.
LEMMA FlowSetsAside ==
  ASSUME NEW q, NEW w, NEW dq, NEW n, NEW s, NEW x, FlowOK(q, w, dq, n, s, x)
  PROVE  FlowOK(q, w, dq \cup {n + 1}, n + 1, s, x)
<1>1. n \in Nat /\ FlowTyped(q, w, dq \cup {n + 1}, n + 1, s, x)
  BY DEF FlowOK, FlowTyped
<1>2. Parted(Ids(q[Classic]), Ids(q[LowLatency]), dq, IdsOf(w), Ids(s), x, n)
  BY DEF FlowOK
<1>3. Parted(Ids(q[Classic]), Ids(q[LowLatency]), dq \cup {n + 1}, IdsOf(w), Ids(s), x, n + 1)
  BY <1>1, <1>2, PartedGrows
<1> QED BY <1>1, <1>3 DEF FlowOK

-----------------------------------------------------------------------------
(* The inductive invariant.                                                *)

Wire(list, d) == Carried(list, "Receive", d) \cup Carried(list, "EndDecoding", d)
SetAside(d) == IF d = Cmts THEN Ids(deviceQueue) ELSE {}

\* A completion is pending for a busy device, one, and none for an idle one.
Completes(list, d) ==
  IF busy[d] THEN Underway(list, d) ELSE At(list, "TransmitComplete", d) = {}

VariablesTyped ==
  /\ linkUp \in BOOLEAN /\ busy \in [Devices -> BOOLEAN]
  /\ queue \in [Devices -> [Classes -> Seq(PacketRecords)]]
  /\ deviceQueue \in Seq(PacketRecords)
  /\ accepted \in [Devices -> Nat]
  /\ seen \in [Devices -> Seq(PacketRecords)]
  /\ received \in [Devices -> SUBSET Nat] /\ corrupted \in [Devices -> SUBSET Nat]

SenderOK(d) ==
  /\ Completes(agenda, d)
  /\ FlowOK(queue[d], Wire(agenda, d), SetAside(d), accepted[d],
            seen[Peer(d)], corrupted[Peer(d)])
  /\ accepted[d] <= MaxPackets[d] /\ Held(d) <= QueueLimit
  /\ received[Peer(d)] \subseteq Ids(seen[Peer(d)])

LinkInv ==
  /\ VariablesTyped
  /\ AgendaOK(agenda)
  /\ \A d \in Devices : SenderOK(d)

\* The packets that the events carry are those on their way.
LEMMA WireIds ==
  ASSUME NEW d
  PROVE  OnTheWay(d) = IdsOf(Wire(agenda, d))
<1> DEFINE places == {k \in DOMAIN agenda : /\ agenda[k].event \in {"Receive", "EndDecoding"}
                                            /\ agenda[k].arg.dev = Peer(d)}
<1>1. OnTheWay(d) = {e.arg.packet.id : e \in {agenda[i] : i \in places}}
  BY DEF OnTheWay
<1>2. places = At(agenda, "Receive", Peer(d)) \cup At(agenda, "EndDecoding", Peer(d))
  BY DEF At
<1> HIDE DEF places
<1>3. ASSUME NEW id \in OnTheWay(d) PROVE id \in IdsOf(Wire(agenda, d))
  <2>1. PICK i \in places : id = agenda[i].arg.packet.id
    BY <1>1, <1>3
  <2>2. agenda[i].arg.packet \in Wire(agenda, d)
    BY <1>2 DEF Wire, Carried
  <2> QED BY <2>1, <2>2 DEF IdsOf
<1>4. ASSUME NEW id \in IdsOf(Wire(agenda, d)) PROVE id \in OnTheWay(d)
  <2>1. PICK p \in Wire(agenda, d) : id = p.id
    BY <1>4 DEF IdsOf
  <2>2. PICK i \in places : p = agenda[i].arg.packet
    BY <1>2 DEF Wire, Carried
  <2> QED BY <2>1, <2>2, <1>1
<1> QED BY <1>3, <1>4

\* The invariant gives each of the properties.
LEMMA SortedIsInOrder ==
  ASSUME NEW list, AgendaOK(list) PROVE InTimeOrder(list)
<1>1. /\ list \in Seq(Events) /\ Sorted(list)
  BY DEF AgendaOK
<1>2. /\ DOMAIN list = 1 .. Len(list) /\ Len(list) \in Nat /\ Timed(list)
  BY <1>1, EventFacts
<1> QED BY <1>1, <1>2 DEF InTimeOrder, Sorted, Timed

\* The invariant types the variables.
LEMMA InvGivesType == LinkInv => TypeOK
<1> SUFFICES ASSUME LinkInv PROVE TypeOK
  OBVIOUS
<1>1. VariablesTyped /\ InTimeOrder(agenda)
  BY SortedIsInOrder DEF LinkInv, SenderOK
<1>2. ASSUME NEW d \in Devices
      PROVE  /\ accepted[d] \in 0..MaxPackets[d]
             /\ Held(d) <= QueueLimit
             /\ \A c \in Classes : \A i \in DOMAIN queue[d][c] : queue[d][c][i].class = c
  <2>1. accepted[d] \in Nat /\ MaxPackets[d] \in Nat
    BY <1>1, LinkFacts DEF VariablesTyped
  <2>2. FlowOrdered(queue[d], Wire(agenda, d), seen[Peer(d)])
    BY DEF LinkInv, SenderOK, FlowOK
  <2> QED BY <2>1, <2>2 DEF LinkInv, SenderOK, FlowOrdered
<1> QED BY <1>1, <1>2 DEF TypeOK, VariablesTyped

\* In the invariant a busy device waits for one event, TransmitComplete.
LEMMA InvGivesBusy == LinkInv => BusyUntilComplete
<1> SUFFICES ASSUME LinkInv, NEW d \in Devices
             PROVE  Cardinality(Pending("TransmitComplete", d)) = IF busy[d] THEN 1 ELSE 0
  BY DEF BusyUntilComplete
<1>1. Pending("TransmitComplete", d) = At(agenda, "TransmitComplete", d)
  BY DEF Pending, At
<1>2. Completes(agenda, d)
  BY DEF LinkInv, SenderOK
<1>3. CASE busy[d]
  <2>1. PICK i : At(agenda, "TransmitComplete", d) = {i}
    BY <1>2, <1>3 DEF Completes, Underway
  <2> QED BY <2>1, <1>1, <1>3, FS_Singleton
<1>4. CASE ~busy[d]
  BY <1>1, <1>2, <1>4, FS_EmptySet DEF Completes
<1> QED BY <1>3, <1>4

\* In the invariant the places of the packets are disjoint and cover them.
LEMMA InvGivesPlaces == LinkInv => EachInOnePlace
<1> SUFFICES ASSUME LinkInv, NEW d \in Devices
             PROVE  LET places == <<Queued(d), IF d = Cmts THEN Ids(deviceQueue) ELSE {},
                                    OnTheWay(d), Ids(seen[Peer(d)]), corrupted[Peer(d)]>>
                    IN  /\ UNION {places[i] : i \in DOMAIN places} = 1..accepted[d]
                        /\ \A i, j \in DOMAIN places : i # j => places[i] \cap places[j] = {}
                        /\ received[Peer(d)] \subseteq Ids(seen[Peer(d)])
  BY DEF EachInOnePlace
<1>1. Parted(Ids(queue[d][Classic]), Ids(queue[d][LowLatency]), SetAside(d),
             IdsOf(Wire(agenda, d)), Ids(seen[Peer(d)]), corrupted[Peer(d)], accepted[d])
  BY DEF LinkInv, SenderOK, FlowOK
<1>2. Queued(d) = Ids(queue[d][Classic]) \cup Ids(queue[d][LowLatency])
  BY ClassFacts DEF Queued
<1> DEFINE a == Queued(d)
           b == IF d = Cmts THEN Ids(deviceQueue) ELSE {}
           w == OnTheWay(d)
           s == Ids(seen[Peer(d)])
           x == corrupted[Peer(d)]
           places == <<a, b, w, s, x>>
<1>3. /\ a \cup b \cup w \cup s \cup x = 1..accepted[d]
      /\ a \cap b = {} /\ a \cap w = {} /\ a \cap s = {} /\ a \cap x = {}
      /\ b \cap w = {} /\ b \cap s = {} /\ b \cap x = {}
      /\ w \cap s = {} /\ w \cap x = {} /\ s \cap x = {}
  <2>1. b = SetAside(d) /\ w = IdsOf(Wire(agenda, d))
    BY WireIds DEF SetAside
  <2> QED BY <2>1, <1>1, <1>2 DEF Parted
<1> HIDE DEF a, b, w, s, x
<1>4. DOMAIN places = 1..5
  OBVIOUS
<1>5. UNION {places[i] : i \in DOMAIN places} = a \cup b \cup w \cup s \cup x
  BY <1>4
<1>6. \A i, j \in DOMAIN places : i # j => places[i] \cap places[j] = {}
  BY <1>3, <1>4
<1>7. received[Peer(d)] \subseteq s
  BY DEF LinkInv, SenderOK, s
<1> QED BY <1>3, <1>5, <1>6, <1>7 DEF a, b, w, s, x

\* In the invariant the numbers grow from the receiver back to the queue.
LEMMA InvGivesOrder == LinkInv => InOrder
<1> SUFFICES ASSUME LinkInv, NEW d \in Devices
             PROVE  \A i, j \in DOMAIN seen[d] :
                      i < j /\ seen[d][i].class = seen[d][j].class => seen[d][i].id < seen[d][j].id
  BY DEF InOrder
<1>1. Peer(d) \in Devices /\ Peer(Peer(d)) = d
  BY PeerFacts
<1>2. FlowOrdered(queue[Peer(d)], Wire(agenda, Peer(d)), seen[Peer(Peer(d))])
  BY <1>1 DEF LinkInv, SenderOK, FlowOK
<1> QED BY <1>1, <1>2 DEF FlowOrdered

-----------------------------------------------------------------------------
(* The steps.                                                              *)

Held2(q) == Len(q[Classic]) + Len(q[LowLatency])

\* Whatever the device held, and with no transmission of its own under way, it
\* ends up busy with one frame or idle without any.
LEMMA SendsImmediately ==
  ASSUME NEW d \in Devices, NEW held, NEW list, NEW dq, NEW n, NEW s, NEW x,
         VariablesTyped, AgendaOK(list), At(list, "TransmitComplete", d) = {},
         FlowOK(held, Wire(list, d), dq, n, s, x),
         SendImmediatelyIfAvailable(d, held, list)
  PROVE  /\ busy' \in [Devices -> BOOLEAN]
         /\ queue' \in [Devices -> [Classes -> Seq(PacketRecords)]]
         /\ AgendaOK(agenda')
         /\ FlowOK(queue'[d], Wire(agenda', d), dq, n, s, x)
         /\ Held2(queue'[d]) <= Held2(held)
         /\ IF busy'[d] THEN Underway(agenda', d)
                        ELSE At(agenda', "TransmitComplete", d) = {}
         /\ \A o \in Devices : o # d =>
              /\ busy'[o] = busy[o] /\ queue'[o] = queue[o]
              /\ Wire(agenda', o) = Wire(list, o)
              /\ SameCompletion(agenda', list, o)
<1>1. /\ held \in [Classes -> Seq(PacketRecords)]
      /\ Classic \in Classes /\ LowLatency \in Classes
      /\ Len(held[Classic]) \in Nat /\ Len(held[LowLatency]) \in Nat
  <2>1. held \in [Classes -> Seq(PacketRecords)]
    BY DEF FlowOK, FlowTyped
  <2> QED BY <2>1, ClassFacts, LenProperties
<1>2. /\ busy \in [Devices -> BOOLEAN]
      /\ queue \in [Devices -> [Classes -> Seq(PacketRecords)]]
  BY DEF VariablesTyped
<1>3. CASE /\ queue' = [queue EXCEPT ![d] = held]
           /\ agenda' = list
           /\ busy' = [busy EXCEPT ![d] = FALSE]
  <2>1. /\ busy' \in [Devices -> BOOLEAN] /\ ~busy'[d]
        /\ queue' \in [Devices -> [Classes -> Seq(PacketRecords)]] /\ queue'[d] = held
        /\ \A o \in Devices : o # d => busy'[o] = busy[o] /\ queue'[o] = queue[o]
    BY <1>1, <1>2, <1>3
  <2>2. Held2(queue'[d]) <= Held2(held)
    BY <2>1, <1>1 DEF Held2
  <2> QED BY <2>1, <2>2, <1>3 DEF SameCompletion
<1>4. ASSUME NEW c \in Classes, held[c] # <<>>,
             queue' = [queue EXCEPT ![d] = [held EXCEPT ![c] = Tail(@)]],
             agenda' = SendOut(list, d, Head(held[c])),
             busy' = [busy EXCEPT ![d] = TRUE]
      PROVE  /\ busy' \in [Devices -> BOOLEAN]
             /\ queue' \in [Devices -> [Classes -> Seq(PacketRecords)]]
             /\ AgendaOK(agenda')
             /\ FlowOK(queue'[d], Wire(agenda', d), dq, n, s, x)
             /\ Held2(queue'[d]) <= Held2(held)
             /\ busy'[d]
             /\ Underway(agenda', d)
             /\ \A o \in Devices : o # d =>
                  /\ busy'[o] = busy[o] /\ queue'[o] = queue[o]
                  /\ Wire(agenda', o) = Wire(list, o)
                  /\ SameCompletion(agenda', list, o)
  <2> DEFINE first == Head(held[c])
             new == [held EXCEPT ![c] = Tail(@)]
  <2>1. /\ first \in PacketRecords
        /\ \A p \in Wire(list, d) : p.id # first.id /\ (p.class = first.class => p.id < first.id)
        /\ FlowOK(new, Wire(list, d) \cup {first}, dq, n, s, x)
    BY <1>4, FlowSends
  <2>2. new \in [Classes -> Seq(PacketRecords)]
    BY <2>1 DEF FlowOK, FlowTyped
  <2>3. /\ new[c] = Tail(held[c]) /\ \A o \in Classes : o # c => new[o] = held[o]
        /\ Len(Tail(held[c])) = Len(held[c]) - 1
    BY <1>1, <1>4, TailOfQueue
  <2>4. /\ AgendaOK(agenda') /\ Underway(agenda', d)
        /\ \A o \in Devices : o # d => SameCompletion(agenda', list, o)
        /\ CarriesMore(agenda', list, "Receive", d, first)
    <3>1. \A p \in Carried(list, "Receive", d) \cup Carried(list, "EndDecoding", d) :
            p.id # first.id /\ (p.class = first.class => p.id < first.id)
      BY <2>1 DEF Wire
    <3> HIDE DEF first
    <3>2. /\ AgendaOK(SendOut(list, d, first)) /\ Underway(SendOut(list, d, first), d)
          /\ \A o \in Devices : o # d => SameCompletion(SendOut(list, d, first), list, o)
          /\ CarriesMore(SendOut(list, d, first), list, "Receive", d, first)
      BY <2>1, <3>1, SendOutOK, Zenon
    <3>3. agenda' = SendOut(list, d, first)
      BY <1>4 DEF first
    <3> QED BY <3>2, <3>3, Zenon
  <2> HIDE DEF new, first
  <2>5. /\ busy' \in [Devices -> BOOLEAN] /\ busy'[d]
        /\ queue' \in [Devices -> [Classes -> Seq(PacketRecords)]] /\ queue'[d] = new
        /\ \A o \in Devices : o # d => busy'[o] = busy[o] /\ queue'[o] = queue[o]
    BY <1>2, <1>4, <2>2 DEF new
  <2>6. Held2(new) <= Held2(held)
    <3>1. CASE c = Classic
      <4>1. /\ Len(new[Classic]) = Len(held[Classic]) - 1
            /\ Len(new[LowLatency]) = Len(held[LowLatency])
        BY <3>1, <2>3, ClassFacts
      <4> QED BY <4>1, <1>1 DEF Held2
    <3>2. CASE c = LowLatency
      <4>1. /\ Len(new[LowLatency]) = Len(held[LowLatency]) - 1
            /\ Len(new[Classic]) = Len(held[Classic])
        BY <3>2, <2>3, ClassFacts
      <4> QED BY <4>1, <1>1 DEF Held2
    <3> QED BY <3>1, <3>2, ClassFacts
  <2>7. Wire(agenda', d) = Wire(list, d) \cup {first}
    BY <2>4 DEF Wire, CarriesMore
  <2>8. \A o \in Devices : o # d => Wire(agenda', o) = Wire(list, o)
    BY <2>4 DEF Wire, CarriesMore
  <2> QED BY <2>1, <2>4, <2>5, <2>6, <2>7, <2>8
<1> QED BY <1>3, <1>4 DEF SendImmediatelyIfAvailable

\* Two devices without packets, and no event.
LEMMA LinkInit == Init => LinkInv
<1> SUFFICES ASSUME Init PROVE LinkInv
  OBVIOUS
<1> USE DEF Init
<1>1. VariablesTyped
  BY EmptySeq DEF VariablesTyped
<1>2. /\ agenda \in Seq(Events) /\ DOMAIN agenda = {}
      /\ \A name, dev : At(agenda, name, dev) = {}
  BY EmptySeq DEF At
<1>3. AgendaOK(agenda)
  BY <1>2 DEF AgendaOK, Sorted, WireOrder, OnWire, Timely
<1>4. ASSUME NEW d \in Devices
      PROVE  /\ Completes(agenda, d)
             /\ FlowOK(queue[d], Wire(agenda, d), SetAside(d), accepted[d],
                       seen[Peer(d)], corrupted[Peer(d)])
             /\ accepted[d] <= MaxPackets[d] /\ Held(d) <= QueueLimit
             /\ received[Peer(d)] \subseteq Ids(seen[Peer(d)])
  <2>1. Peer(d) \in Devices
    BY PeerFacts
  <2>2. /\ queue[d] = [c \in Classes |-> <<>>] /\ accepted[d] = 0
        /\ seen[Peer(d)] = <<>> /\ corrupted[Peer(d)] = {} /\ received[Peer(d)] = {}
        /\ Wire(agenda, d) = {} /\ SetAside(d) = {} /\ ~busy[d]
    BY <1>2, <2>1 DEF Wire, Carried, SetAside, Ids
  <2>3. FlowTyped(queue[d], {}, {}, 0, <<>>, {})
    BY <2>2, EmptySeq DEF FlowTyped
  <2>4. FlowOrdered(queue[d], {}, <<>>)
    BY <2>2 DEF FlowOrdered
  <2>5. Parted(Ids(queue[d][Classic]), Ids(queue[d][LowLatency]), {}, IdsOf({}), Ids(<<>>), {}, 0)
    BY <2>2, ClassFacts DEF Parted, Ids, IdsOf
  <2>6. Completes(agenda, d)
    BY <1>2, <2>2 DEF Completes
  <2>7. accepted[d] <= MaxPackets[d] /\ Held(d) <= QueueLimit
    BY <2>2, LinkFacts, ClassFacts DEF Held
  <2> QED BY <2>2, <2>3, <2>4, <2>5, <2>6, <2>7 DEF FlowOK
<1> QED BY <1>1, <1>3, <1>4 DEF LinkInv, SenderOK


\* Attach brings the link up and changes nothing else.
LEMMA AttachStep == LinkInv /\ Attach => LinkInv'
<1> SUFFICES ASSUME LinkInv, Attach PROVE LinkInv'
  OBVIOUS
<1>1. /\ linkUp' = TRUE /\ UNCHANGED <<queue, deviceQueue, busy, agenda>>
      /\ UNCHANGED <<accepted, seen, received, corrupted>>
  BY DEF Attach, queues, history
<1>2. VariablesTyped' /\ AgendaOK(agenda)'
  BY <1>1 DEF LinkInv, VariablesTyped
<1>3. ASSUME NEW d \in Devices PROVE SenderOK(d)'
  <2>1. SenderOK(d)
    BY DEF LinkInv
  <2> QED BY <1>1, <2>1 DEF SenderOK, Completes, SetAside, Held
<1> QED BY <1>2, <1>3 DEF LinkInv

\* The simulator advances its clock to the next event.
LEMMA AdvanceTimeStep == LinkInv /\ AdvanceTime => LinkInv'
<1> SUFFICES ASSUME LinkInv, AdvanceTime PROVE LinkInv'
  OBVIOUS
<1>1. /\ agenda # <<>> /\ agenda' = Later(agenda, Head(agenda).in)
      /\ UNCHANGED <<linkUp, queue, deviceQueue, busy, accepted, seen, received, corrupted>>
  BY DEF AdvanceTime, queues, history
<1>2. AgendaOK(agenda)
  BY DEF LinkInv
<1>3. /\ AgendaOK(agenda')
      /\ \A name, dev : At(agenda', name, dev) = At(agenda, name, dev)
      /\ \A name, d : Carried(agenda', name, d) = Carried(agenda, name, d)
  BY <1>1, <1>2, LaterOK
<1>4. VariablesTyped'
  BY <1>1 DEF LinkInv, VariablesTyped
<1>5. ASSUME NEW d \in Devices PROVE SenderOK(d)'
  <2>1. SenderOK(d)
    BY DEF LinkInv
  <2>2. Wire(agenda', d) = Wire(agenda, d) /\ SetAside(d)' = SetAside(d)
    BY <1>1, <1>3 DEF Wire, SetAside
  <2>3. Completes(agenda, d)'
    BY <1>1, <1>3, <2>1 DEF SenderOK, Completes, Underway
  <2> QED BY <1>1, <2>1, <2>2, <2>3 DEF SenderOK, Held
<1> QED BY <1>3, <1>4, <1>5 DEF LinkInv


\* A packet gets the next number of its sender.
LEMMA NumberedFacts ==
  ASSUME NEW d \in Devices, NEW p \in Packets, accepted[d] \in Nat
  PROVE  /\ Numbered(d, RemarkTcpEcnValue(p)) \in PacketRecords
         /\ Numbered(d, RemarkTcpEcnValue(p)).id = accepted[d] + 1
<1>1. p \in [ip : BOOLEAN, tcp : BOOLEAN, ecn : {"not", "ect0", "ect1", "ce"},
             ef : BOOLEAN, toPeer : BOOLEAN, ticks : Nat \ {0}]
  BY LinkAssumption DEF PacketAssumption
<1> DEFINE remarked == RemarkTcpEcnValue(p)
<1>2. remarked.toPeer \in BOOLEAN /\ remarked.ticks \in Nat \ {0}
  BY <1>1 DEF RemarkTcpEcnValue
<1> HIDE DEF remarked
<1>3. Classify(remarked) \in Classes
  BY ClassFacts DEF Classify
<1>4. Numbered(d, remarked) \in PacketRecords /\ Numbered(d, remarked).id = accepted[d] + 1
  BY <1>2, <1>3 DEF Numbered, PacketRecords
<1> QED BY <1>4 DEF remarked

\* What the queues of a device hold is a number, and grows with a packet.
LEMMA HeldIsNat ==
  ASSUME NEW q \in [Classes -> Seq(PacketRecords)]
  PROVE  Held2(q) \in Nat
<1>1. q[Classic] \in Seq(PacketRecords) /\ q[LowLatency] \in Seq(PacketRecords)
  BY ClassFacts
<1>2. Len(q[Classic]) \in Nat /\ Len(q[LowLatency]) \in Nat
  BY <1>1, LenProperties
<1> QED BY <1>2, ClassFacts DEF Held2

\* Enqueue adds one packet to what a device holds.
LEMMA AppendGrows ==
  ASSUME NEW q \in [Classes -> Seq(PacketRecords)], NEW packet \in PacketRecords
  PROVE  LET new == [q EXCEPT ![packet.class] = Append(@, packet)]
         IN  /\ new \in [Classes -> Seq(PacketRecords)]
             /\ Held2(new) = Held2(q) + 1 /\ Held2(q) \in Nat /\ Held2(new) \in Nat
<1> DEFINE c == packet.class
           new == [q EXCEPT ![c] = Append(@, packet)]
<1>1. c \in Classes
  BY DEF PacketRecords
<1>2. /\ new[c] = Append(q[c], packet) /\ \A o \in Classes : o # c => new[o] = q[o]
      /\ new \in [Classes -> Seq(PacketRecords)]
      /\ Len(Append(q[c], packet)) = Len(q[c]) + 1
      /\ \A o \in Classes : Len(q[o]) \in Nat
  BY <1>1, LenProperties, AppendProperties
<1> HIDE DEF new, c
<1>3. Held2(new) = Held2(q) + 1 /\ Held2(q) \in Nat /\ Held2(new) \in Nat
  <2>1. CASE c = Classic
    <3>1. /\ Len(new[Classic]) = Len(q[Classic]) + 1 /\ new[LowLatency] = q[LowLatency]
          /\ Len(q[Classic]) \in Nat /\ Len(q[LowLatency]) \in Nat
      BY <2>1, <1>2, ClassFacts
    <3> QED BY <3>1, <1>2, ClassFacts DEF Held2
  <2>2. CASE c = LowLatency
    <3>1. /\ Len(new[LowLatency]) = Len(q[LowLatency]) + 1 /\ new[Classic] = q[Classic]
          /\ Len(q[Classic]) \in Nat /\ Len(q[LowLatency]) \in Nat
      BY <2>2, <1>2, ClassFacts
    <3> QED BY <3>1, <1>2, ClassFacts DEF Held2
  <2> QED BY <2>1, <2>2, <1>1, ClassFacts
<1> QED BY <1>2, <1>3 DEF new, c

\* A packet of the upper layer is enqueued, and sent if the device is idle.
LEMMA SendFromStep ==
  ASSUME NEW s \in Devices, NEW kind \in Packets, LinkInv, SendFrom(s, kind)
  PROVE  LinkInv'
<1> DEFINE packet == Numbered(s, RemarkTcpEcnValue(kind))
           held == [queue[s] EXCEPT ![packet.class] = Append(@, packet)]
<1>1. /\ Held(s) < QueueLimit /\ accepted[s] < MaxPackets[s]
      /\ accepted' = [accepted EXCEPT ![s] = @ + 1]
      /\ UNCHANGED <<linkUp, deviceQueue, seen, received, corrupted>>
      /\ \/ ~busy[s] /\ SendImmediatelyIfAvailable(s, held, agenda)
         \/ busy[s] /\ queue' = [queue EXCEPT ![s] = held] /\ UNCHANGED <<busy, agenda>>
  BY DEF SendFrom, Enqueue, MaySend, Accepts
<1>2. VariablesTyped /\ AgendaOK(agenda) /\ \A d \in Devices : SenderOK(d)
  BY DEF LinkInv
<1>3. packet \in PacketRecords /\ packet.id = accepted[s] + 1
  BY <1>2, NumberedFacts DEF VariablesTyped
<1> HIDE DEF packet
<1>4. FlowOK(queue[s], Wire(agenda, s), SetAside(s), accepted[s], seen[Peer(s)], corrupted[Peer(s)])
  BY <1>2 DEF SenderOK
<1>5. FlowOK(held, Wire(agenda, s), SetAside(s), accepted[s] + 1, seen[Peer(s)], corrupted[Peer(s)])
  BY <1>3, <1>4, FlowQueues
<1>6. held \in [Classes -> Seq(PacketRecords)] /\ Held2(held) \in Nat /\ Held2(held) <= QueueLimit
  <2>1. queue[s] \in [Classes -> Seq(PacketRecords)]
    BY <1>2 DEF VariablesTyped
  <2>2. Held2(queue[s]) < QueueLimit
    BY <1>1 DEF Held, Held2
  <2>3. /\ held \in [Classes -> Seq(PacketRecords)] /\ Held2(held) \in Nat
        /\ Held2(held) = Held2(queue[s]) + 1 /\ Held2(queue[s]) \in Nat
    BY <2>1, <1>3, AppendGrows
  <2> HIDE DEF held
  <2> QED BY <2>2, <2>3, LinkFacts
<1> HIDE DEF held
<1>7. /\ accepted' \in [Devices -> Nat]
      /\ accepted'[s] = accepted[s] + 1 /\ accepted'[s] <= MaxPackets[s]
      /\ \A d \in Devices : d # s => accepted'[d] = accepted[d]
  BY <1>1, <1>2, LinkFacts DEF VariablesTyped
<1>8. /\ busy' \in [Devices -> BOOLEAN]
      /\ queue' \in [Devices -> [Classes -> Seq(PacketRecords)]]
      /\ AgendaOK(agenda') /\ Completes(agenda, s)'
      /\ FlowOK(queue'[s], Wire(agenda', s), SetAside(s), accepted[s] + 1,
                seen[Peer(s)], corrupted[Peer(s)])
      /\ Held2(queue'[s]) <= Held2(held)
      /\ \A o \in Devices : o # s =>
           /\ busy'[o] = busy[o] /\ queue'[o] = queue[o]
           /\ Wire(agenda', o) = Wire(agenda, o)
           /\ SameCompletion(agenda', agenda, o)
  <2>1. CASE ~busy[s] /\ SendImmediatelyIfAvailable(s, held, agenda)
    <3>1. At(agenda, "TransmitComplete", s) = {}
      BY <1>2, <2>1 DEF SenderOK, Completes
    <3> QED BY <3>1, <2>1, <1>2, <1>5, SendsImmediately DEF Completes
  <2>2. CASE busy[s] /\ queue' = [queue EXCEPT ![s] = held] /\ UNCHANGED <<busy, agenda>>
    <3>1. /\ queue' \in [Devices -> [Classes -> Seq(PacketRecords)]] /\ queue'[s] = held
          /\ \A o \in Devices : o # s => queue'[o] = queue[o]
          /\ busy' \in [Devices -> BOOLEAN]
      BY <2>2, <1>2, <1>6 DEF VariablesTyped
    <3>2. Completes(agenda, s)'
      BY <2>2, <1>2 DEF SenderOK, Completes
    <3>3. Held2(queue'[s]) <= Held2(held)
      BY <3>1, <1>6
    <3> QED BY <3>1, <3>2, <3>3, <2>2, <1>2, <1>5 DEF SameCompletion
  <2> QED BY <1>1, <2>1, <2>2
<1>9. VariablesTyped'
  BY <1>1, <1>2, <1>7, <1>8 DEF VariablesTyped
<1>10. ASSUME NEW d \in Devices PROVE SenderOK(d)'
  <2>1. SetAside(d)' = SetAside(d) /\ SenderOK(d)
    BY <1>1, <1>2 DEF SetAside
  <2>2. CASE d = s
    <3>1. Held(d)' <= QueueLimit
      <4>1. queue'[s] \in [Classes -> Seq(PacketRecords)]
        BY <1>8
      <4>2. Held2(queue'[s]) \in Nat
        BY <4>1, HeldIsNat
      <4>3. Held2(queue'[s]) <= QueueLimit
        BY <4>2, <1>6, <1>8, LinkFacts
      <4> QED BY <4>3, <2>2 DEF Held, Held2
    <3> QED BY <3>1, <2>1, <2>2, <1>1, <1>7, <1>8 DEF SenderOK
  <2>3. CASE d # s
    <3>1. Completes(agenda, d)'
      BY <2>1, <2>3, <1>8 DEF SenderOK, Completes, SameCompletion
    <3> QED BY <3>1, <2>1, <2>3, <1>1, <1>7, <1>8 DEF SenderOK, Held
  <2> QED BY <2>2, <2>3
<1> QED BY <1>8, <1>9, <1>10 DEF LinkInv


\* A packet of the upper layer enters the device queue of the CMTS.
LEMMA SendStep ==
  ASSUME NEW kind \in Packets, LinkInv, Send(kind)
  PROVE  LinkInv'
<1> DEFINE packet == Numbered(Cmts, RemarkTcpEcnValue(kind))
<1>1. /\ accepted[Cmts] < MaxPackets[Cmts]
      /\ deviceQueue' = Append(deviceQueue, packet)
      /\ accepted' = [accepted EXCEPT ![Cmts] = @ + 1]
      /\ UNCHANGED <<linkUp, queue, busy, agenda, seen, received, corrupted>>
  BY DEF Send
<1>2. VariablesTyped /\ AgendaOK(agenda) /\ \A d \in Devices : SenderOK(d)
  BY DEF LinkInv
<1>3. Cmts \in Devices
  BY DEF Devices
<1>4. packet \in PacketRecords /\ packet.id = accepted[Cmts] + 1
  BY <1>2, <1>3, NumberedFacts DEF VariablesTyped
<1> HIDE DEF packet
<1>5. deviceQueue' \in Seq(PacketRecords) /\ Ids(deviceQueue') = Ids(deviceQueue) \cup {packet.id}
  BY <1>1, <1>2, <1>4, AppendFacts DEF VariablesTyped
<1>6. /\ accepted' \in [Devices -> Nat]
      /\ accepted'[Cmts] = accepted[Cmts] + 1 /\ accepted'[Cmts] <= MaxPackets[Cmts]
      /\ \A d \in Devices : d # Cmts => accepted'[d] = accepted[d]
  BY <1>1, <1>2, <1>3, LinkFacts DEF VariablesTyped
<1>7. VariablesTyped'
  BY <1>1, <1>2, <1>5, <1>6 DEF VariablesTyped
<1>8. ASSUME NEW d \in Devices PROVE SenderOK(d)'
  <2>1. SenderOK(d)
    BY <1>2
  <2>2. Completes(agenda, d)'
    BY <1>1, <2>1 DEF SenderOK, Completes
  <2>3. CASE d = Cmts
    <3>1. SetAside(d)' = SetAside(d) \cup {accepted[d] + 1}
      BY <2>3, <1>4, <1>5 DEF SetAside
    <3>2. FlowOK(queue[d], Wire(agenda, d), SetAside(d) \cup {accepted[d] + 1}, accepted[d] + 1,
                 seen[Peer(d)], corrupted[Peer(d)])
      BY <2>1, FlowSetsAside DEF SenderOK
    <3> QED BY <3>1, <3>2, <2>1, <2>2, <2>3, <1>1, <1>6 DEF SenderOK, Held
  <2>4. CASE d # Cmts
    <3>1. SetAside(d)' = SetAside(d)
      BY <2>4 DEF SetAside
    <3> QED BY <3>1, <2>1, <2>2, <2>4, <1>1, <1>6 DEF SenderOK, Held
  <2> QED BY <2>3, <2>4
<1> QED BY <1>1, <1>2, <1>7, <1>8 DEF LinkInv

\* What every step that serves the head of the event list knows of the rest.
LEMMA ServeFacts ==
  ASSUME NEW list, AgendaOK(list), list # <<>>, Head(list).in = 0, NEW d \in Devices
  PROVE  /\ AgendaOK(Tail(list))
         /\ Head(list).event # "TransmitComplete" \/ Head(list).arg.dev # d =>
              SameCompletion(Tail(list), list, d)
         /\ Head(list).event = "TransmitComplete" /\ Head(list).arg.dev = d
              /\ Underway(list, d) => At(Tail(list), "TransmitComplete", d) = {}
         /\ Head(list).event = "TransmitComplete" /\ Head(list).arg.dev = d =>
              At(list, "TransmitComplete", d) # {}
<1>1. list \in Seq(Events) /\ AgendaOK(Tail(list))
  BY TailOK DEF AgendaOK
<1> DEFINE rest == At(Tail(list), "TransmitComplete", d)
           whole == At(list, "TransmitComplete", d)
           mine == Head(list).event = "TransmitComplete" /\ Head(list).arg.dev = d
<1>2. whole = {i + 1 : i \in rest} \cup (IF mine THEN {1} ELSE {})
  BY <1>1, TailFacts
<1>3. \A i \in rest : i \in Nat /\ i > 0
  BY <1>1, TailFacts DEF At
<1> HIDE DEF rest, whole
<1>4. CASE mine
  <2>1. 1 \in whole
    BY <1>2, <1>4
  <2>2. ASSUME NEW i, whole = {i} PROVE rest = {}
    <3>1. i = 1
      BY <2>1, <2>2
    <3>2. \A k \in rest : k + 1 \in whole /\ k + 1 # 1
      BY <1>2, <1>3
    <3> QED BY <3>1, <3>2, <2>2
  <2> QED BY <2>1, <2>2, <1>1, <1>4 DEF Underway, whole, rest
<1>5. CASE ~mine
  <2>1. whole = {i + 1 : i \in rest}
    BY <1>2, <1>5
  <2>2. whole = {} <=> rest = {}
    BY <2>1
  <2>3. ASSUME NEW i, whole = {i} PROVE \E j : rest = {j}
    <3>1. PICK j \in rest : i = j + 1
      BY <2>1, <2>3
    <3>2. \A k \in rest : k = j
      <4>1. \A k \in rest : k + 1 = i
        BY <2>1, <2>3
      <4> QED BY <4>1, <3>1, <1>3
    <3> QED BY <3>1, <3>2
  <2>4. SameCompletion(Tail(list), list, d)
    BY <2>2, <2>3 DEF SameCompletion, Underway, whole, rest
  <2> QED BY <2>4, <1>1, <1>5
<1> QED BY <1>4, <1>5


\* Serving the first event takes its packet, if any, off the wire.
LEMMA ServeWire ==
  ASSUME NEW list, AgendaOK(list), list # <<>>, NEW d
  PROVE  Wire(list, d) = Wire(Tail(list), d) \cup
           (IF Head(list).event \in {"Receive", "EndDecoding"} /\ Head(list).arg.dev = Peer(d)
            THEN {Head(list).arg.packet} ELSE {})
<1>1. list \in Seq(Events)
  BY DEF AgendaOK
<1>2. \A name \in {"Receive", "EndDecoding"} :
        Carried(list, name, d) = Carried(Tail(list), name, d) \cup
          (IF Head(list).event = name /\ Head(list).arg.dev = Peer(d)
           THEN {Head(list).arg.packet} ELSE {})
  BY <1>1, TailCarried
<1> QED BY <1>2 DEF Wire

\* TransmitComplete sends the next packet or leaves the device idle.
LEMMA TransmitCompleteStep ==
  ASSUME NEW s \in Devices, LinkInv, TransmitComplete(s)
  PROVE  LinkInv'
<1> DEFINE rest == Tail(agenda)
<1>1. /\ agenda # <<>> /\ Head(agenda).in = 0
      /\ Head(agenda).event = "TransmitComplete" /\ Head(agenda).arg.dev = s
      /\ SendImmediatelyIfAvailable(s, queue[s], rest)
      /\ UNCHANGED <<linkUp, deviceQueue, accepted, seen, received, corrupted>>
  BY DEF TransmitComplete, SendNext, Due, HeadIsDue, Arg, history
<1>2. VariablesTyped /\ AgendaOK(agenda) /\ \A d \in Devices : SenderOK(d)
  BY DEF LinkInv
<1>3. /\ AgendaOK(rest) /\ At(rest, "TransmitComplete", s) = {}
      /\ \A d \in Devices : d # s => SameCompletion(rest, agenda, d)
  <2>1. Completes(agenda, s)
    BY <1>2 DEF SenderOK
  <2>2. At(agenda, "TransmitComplete", s) # {}
    BY <1>1, <1>2, ServeFacts
  <2>3. Underway(agenda, s)
    BY <2>1, <2>2 DEF Completes
  <2> QED BY <2>3, <1>1, <1>2, ServeFacts
<1>4. \A d \in Devices : Wire(rest, d) = Wire(agenda, d)
  BY <1>1, <1>2, ServeWire
<1> HIDE DEF rest
<1>5. FlowOK(queue[s], Wire(rest, s), SetAside(s), accepted[s], seen[Peer(s)], corrupted[Peer(s)])
  <2>1. FlowOK(queue[s], Wire(agenda, s), SetAside(s), accepted[s], seen[Peer(s)],
               corrupted[Peer(s)])
    BY <1>2 DEF SenderOK
  <2> QED BY <2>1, <1>4
<1>6. /\ busy' \in [Devices -> BOOLEAN]
      /\ queue' \in [Devices -> [Classes -> Seq(PacketRecords)]]
      /\ AgendaOK(agenda') /\ Completes(agenda, s)'
      /\ FlowOK(queue'[s], Wire(agenda', s), SetAside(s), accepted[s],
                seen[Peer(s)], corrupted[Peer(s)])
      /\ Held2(queue'[s]) <= Held2(queue[s])
      /\ \A o \in Devices : o # s =>
           /\ busy'[o] = busy[o] /\ queue'[o] = queue[o]
           /\ Wire(agenda', o) = Wire(rest, o)
           /\ SameCompletion(agenda', rest, o)
  BY <1>1, <1>2, <1>3, <1>5, SendsImmediately DEF Completes
<1>7. VariablesTyped'
  BY <1>1, <1>2, <1>6 DEF VariablesTyped
<1>8. ASSUME NEW d \in Devices PROVE SenderOK(d)'
  <2>1. SetAside(d)' = SetAside(d) /\ SenderOK(d)
    BY <1>1, <1>2 DEF SetAside
  <2>2. CASE d = s
    <3>1. Held2(queue'[s]) \in Nat /\ Held2(queue[s]) \in Nat
      <4>1. queue'[s] \in [Classes -> Seq(PacketRecords)] /\ queue[s] \in [Classes -> Seq(PacketRecords)]
        BY <1>2, <1>6 DEF VariablesTyped
      <4> QED BY <4>1, HeldIsNat
    <3>2. Held2(queue[s]) <= QueueLimit
      BY <2>1, <2>2 DEF SenderOK, Held, Held2
    <3>3. Held2(queue'[s]) <= QueueLimit
      BY <3>1, <3>2, <1>6, LinkFacts
    <3>4. Held(d)' <= QueueLimit
      BY <3>3, <2>2 DEF Held, Held2
    <3> QED BY <3>4, <2>1, <2>2, <1>1, <1>6 DEF SenderOK
  <2>3. CASE d # s
    <3>1. Completes(agenda, d)'
      BY <2>1, <2>3, <1>3, <1>6 DEF SenderOK, Completes, SameCompletion
    <3> QED BY <3>1, <2>1, <2>3, <1>1, <1>4, <1>6 DEF SenderOK, Held
  <2> QED BY <2>2, <2>3
<1> QED BY <1>6, <1>7, <1>8 DEF LinkInv

\* What a frame's event at the head of the list says of the other frames of
\* its sender.
LEMMA ServeFrame ==
  ASSUME NEW s \in Devices, AgendaOK(agenda), agenda # <<>>, Head(agenda).in = 0,
         Head(agenda).event \in {"Receive", "EndDecoding"}, Arg.dev = Peer(s)
  PROVE  /\ Arg.packet \in PacketRecords /\ Arg = [dev |-> Peer(s), packet |-> Arg.packet]
         /\ AgendaOK(Tail(agenda))
         /\ \A d \in Devices : SameCompletion(Tail(agenda), agenda, d)
         /\ Wire(agenda, s) = Wire(Tail(agenda), s) \cup {Arg.packet}
         /\ \A d \in Devices : d # s => Wire(Tail(agenda), d) = Wire(agenda, d)
<1>1. /\ agenda \in Seq(Events) /\ Head(agenda) \in Events
      /\ Head(agenda).event # "TransmitComplete"
  <2>1. agenda \in Seq(Events)
    BY DEF AgendaOK
  <2>2. Head(agenda) = agenda[1] /\ 1 \in DOMAIN agenda
    BY <2>1, TailFacts
  <2> QED BY <2>1, <2>2, EventFacts
<1>2. Head(agenda) \in WireEvents
  BY <1>1 DEF Events, Completions
<1>3. Arg.packet \in PacketRecords /\ Arg = [dev |-> Peer(s), packet |-> Arg.packet]
  BY <1>2 DEF Arg, WireEvents
<1>4. AgendaOK(Tail(agenda)) /\ \A d \in Devices : SameCompletion(Tail(agenda), agenda, d)
  BY <1>1, ServeFacts
<1>5. \A d \in Devices : Peer(d) = Peer(s) => d = s
  BY PeerFacts
<1>6. \A d : Wire(agenda, d) = Wire(Tail(agenda), d) \cup
        (IF Head(agenda).event \in {"Receive", "EndDecoding"} /\ Head(agenda).arg.dev = Peer(d)
         THEN {Head(agenda).arg.packet} ELSE {})
  BY ServeWire
<1> QED BY <1>3, <1>4, <1>5, <1>6 DEF Arg

\* Receive starts to decode what the channel hands over.
LEMMA ReceiveStep ==
  ASSUME NEW r \in Devices, LinkInv, Receive(r)
  PROVE  LinkInv'
<1> DEFINE s == Peer(r)
           rest == Tail(agenda)
           event == Event(DecodeTicks[r], "EndDecoding", Arg)
<1>1. /\ agenda # <<>> /\ Head(agenda).in = 0 /\ Head(agenda).event = "Receive" /\ Arg.dev = r
      /\ agenda' = Schedule(rest, event)
      /\ UNCHANGED <<linkUp, queue, deviceQueue, busy, accepted, seen, received, corrupted>>
  BY DEF Receive, Due, HeadIsDue, queues, history
<1>2. VariablesTyped /\ AgendaOK(agenda) /\ \A d \in Devices : SenderOK(d)
  BY DEF LinkInv
<1>3. s \in Devices /\ Peer(s) = r
  BY PeerFacts
<1>4. /\ Arg.packet \in PacketRecords /\ Arg = [dev |-> Peer(s), packet |-> Arg.packet]
      /\ AgendaOK(rest)
      /\ \A d \in Devices : SameCompletion(rest, agenda, d)
      /\ Wire(agenda, s) = Wire(rest, s) \cup {Arg.packet}
      /\ \A d \in Devices : d # s => Wire(rest, d) = Wire(agenda, d)
  BY <1>1, <1>2, <1>3, ServeFrame
<1>5. /\ \A p \in Carried(rest, "Receive", s) \cup Carried(rest, "EndDecoding", s) :
           Arg.packet.id # p.id
      /\ \A p \in Carried(rest, "Receive", s) :
           Arg.packet.class = p.class => Arg.packet.id < p.id
      /\ \A p \in Carried(rest, "EndDecoding", s) :
           Arg.packet.class = p.class => p.id < Arg.packet.id
  BY <1>1, <1>2, <1>3, TailOK DEF Arg
<1>6. event = Event(DecodeTicks[Peer(s)], "EndDecoding", [dev |-> Peer(s), packet |-> Arg.packet])
  BY <1>3, <1>4
<1> HIDE DEF s, rest, event
<1>7. /\ AgendaOK(agenda') /\ \A d \in Devices : SameCompletion(agenda', rest, d)
      /\ CarriesMore(agenda', rest, "EndDecoding", s, Arg.packet)
  <2>1. /\ AgendaOK(Schedule(rest, event))
        /\ \A d \in Devices : SameCompletion(Schedule(rest, event), rest, d)
        /\ CarriesMore(Schedule(rest, event), rest, "EndDecoding", s, Arg.packet)
    BY <1>3, <1>4, <1>5, <1>6, DecodeOK
  <2> QED BY <2>1, <1>1
<1>8. VariablesTyped'
  BY <1>1, <1>2 DEF VariablesTyped
<1>9. ASSUME NEW d \in Devices PROVE SenderOK(d)'
  <2>1. SenderOK(d) /\ SetAside(d)' = SetAside(d)
    BY <1>1, <1>2 DEF SetAside
  <2>2. Completes(agenda, d)'
    BY <1>1, <1>4, <1>7, <2>1 DEF SenderOK, Completes, SameCompletion
  <2>3. Wire(agenda', d) = Wire(agenda, d)
    <3>1. Wire(agenda', d) = Wire(rest, d) \cup (IF d = s THEN {Arg.packet} ELSE {})
      BY <1>7 DEF CarriesMore, Wire
    <3> QED BY <3>1, <1>4
  <2> QED BY <2>1, <2>2, <2>3, <1>1 DEF SenderOK, Held
<1> QED BY <1>7, <1>8, <1>9 DEF LinkInv

\* The end of decoding drops a corrupt frame or passes the packet up.
LEMMA EndDecodingStep ==
  ASSUME NEW r \in Devices, LinkInv, EndDecoding(r)
  PROVE  LinkInv'
<1> DEFINE s == Peer(r)
           rest == Tail(agenda)
           packet == Arg.packet
<1>1. /\ agenda # <<>> /\ Head(agenda).in = 0 /\ Head(agenda).event = "EndDecoding" /\ Arg.dev = r
      /\ agenda' = rest
      /\ DropCorrupt(r, packet) \/ PassUp(r, packet)
      /\ UNCHANGED <<linkUp, queue, deviceQueue, busy, accepted>>
  BY DEF EndDecoding, Due, HeadIsDue, queues
<1>2. VariablesTyped /\ AgendaOK(agenda) /\ \A d \in Devices : SenderOK(d)
  BY DEF LinkInv
<1>3. s \in Devices /\ Peer(s) = r /\ \A d \in Devices : d # s => Peer(d) # r
  BY PeerFacts
<1>4. /\ packet \in PacketRecords /\ AgendaOK(rest)
      /\ \A d \in Devices : SameCompletion(rest, agenda, d)
      /\ Wire(agenda, s) = Wire(rest, s) \cup {packet}
      /\ \A d \in Devices : d # s => Wire(rest, d) = Wire(agenda, d)
  BY <1>1, <1>2, <1>3, ServeFrame
<1>5. \A p \in Wire(rest, s) : packet.id # p.id /\ (packet.class = p.class => packet.id < p.id)
  <2>1. /\ \A p \in Carried(rest, "Receive", s) \cup Carried(rest, "EndDecoding", s) :
             Head(agenda).arg.packet.id # p.id
        /\ \A p \in Carried(rest, "Receive", s) :
             Head(agenda).arg.packet.class = p.class => Head(agenda).arg.packet.id < p.id
        /\ \A p \in Carried(rest, "EndDecoding", s) :
             Head(agenda).arg.packet.class = p.class => Head(agenda).arg.packet.id < p.id
    BY <1>1, <1>2, <1>3, TailOK DEF Arg
  <2> QED BY <2>1 DEF Arg, Wire
<1> HIDE DEF s, rest, packet
<1>6. FlowOK(queue[s], Wire(rest, s) \cup {packet}, SetAside(s), accepted[s], seen[r], corrupted[r])
  BY <1>2, <1>3, <1>4 DEF SenderOK
<1>7. packet.id \in Nat
  BY <1>4 DEF PacketRecords
<1>8. /\ seen' \in [Devices -> Seq(PacketRecords)]
      /\ received' \in [Devices -> SUBSET Nat] /\ corrupted' \in [Devices -> SUBSET Nat]
      /\ FlowOK(queue[s], Wire(rest, s), SetAside(s), accepted[s], seen'[r], corrupted'[r])
      /\ received'[r] \subseteq Ids(seen'[r])
      /\ \A d \in Devices : d # r =>
           seen'[d] = seen[d] /\ received'[d] = received[d] /\ corrupted'[d] = corrupted[d]
  <2>1. received[r] \subseteq Ids(seen[r])
    BY <1>2, <1>3 DEF SenderOK
  <2>2. CASE DropCorrupt(r, packet)
    <3>1. /\ corrupted' \in [Devices -> SUBSET Nat] /\ corrupted'[r] = corrupted[r] \cup {packet.id}
          /\ \A d \in Devices : d # r => corrupted'[d] = corrupted[d]
          /\ UNCHANGED <<seen, received>>
      BY <2>2, <1>2, <1>7 DEF DropCorrupt, VariablesTyped
    <3>2. FlowOK(queue[s], Wire(rest, s), SetAside(s), accepted[s], seen[r],
                 corrupted[r] \cup {packet.id})
      BY <1>4, <1>5, <1>6, FlowDrops
    <3> QED BY <3>1, <3>2, <2>1, <1>2 DEF VariablesTyped
  <2>3. CASE PassUp(r, packet)
    <3>1. seen[r] \in Seq(PacketRecords)
      BY <1>2 DEF VariablesTyped
    <3>2. /\ Append(seen[r], packet) \in Seq(PacketRecords)
          /\ Ids(Append(seen[r], packet)) = Ids(seen[r]) \cup {packet.id}
      BY <3>1, <1>4, AppendFacts
    <3>3. /\ seen' \in [Devices -> Seq(PacketRecords)] /\ seen'[r] = Append(seen[r], packet)
          /\ \A d \in Devices : d # r => seen'[d] = seen[d]
          /\ UNCHANGED corrupted
      BY <2>3, <3>2, <1>2 DEF PassUp, VariablesTyped
    <3>4. /\ received' \in [Devices -> SUBSET Nat] /\ received'[r] \subseteq received[r] \cup {packet.id}
          /\ \A d \in Devices : d # r => received'[d] = received[d]
      BY <2>3, <1>2, <1>7 DEF PassUp, VariablesTyped
    <3>5. FlowOK(queue[s], Wire(rest, s), SetAside(s), accepted[s], Append(seen[r], packet),
                 corrupted[r])
      BY <1>4, <1>5, <1>6, FlowPassesUp
    <3>6. received'[r] \subseteq Ids(seen'[r])
      BY <3>2, <3>3, <3>4, <2>1
    <3> QED BY <3>3, <3>4, <3>5, <3>6, <1>2 DEF VariablesTyped
  <2> QED BY <1>1, <2>2, <2>3
<1>9. VariablesTyped'
  BY <1>1, <1>2, <1>8 DEF VariablesTyped
<1>10. ASSUME NEW d \in Devices PROVE SenderOK(d)'
  <2>1. SenderOK(d) /\ SetAside(d)' = SetAside(d)
    BY <1>1, <1>2 DEF SetAside
  <2>2. Completes(agenda, d)'
    BY <1>1, <1>4, <2>1 DEF SenderOK, Completes, SameCompletion
  <2>3. CASE d = s
    BY <2>1, <2>2, <2>3, <1>1, <1>3, <1>8 DEF SenderOK, Held
  <2>4. CASE d # s
    <3>1. Peer(d) # r /\ Peer(d) \in Devices
      BY <2>4, <1>3, PeerFacts
    <3> QED BY <3>1, <2>1, <2>2, <2>4, <1>1, <1>4, <1>8 DEF SenderOK, Held
  <2> QED BY <2>3, <2>4
<1> QED BY <1>1, <1>4, <1>9, <1>10 DEF LinkInv

\* Every step of the two devices keeps the invariant.
LEMMA LinkStep == LinkInv /\ [Next]_vars => LinkInv'
<1> SUFFICES ASSUME LinkInv, [Next]_vars PROVE LinkInv'
  OBVIOUS
<1>1. CASE Attach
  BY <1>1, AttachStep
<1>2. CASE AdvanceTime
  BY <1>2, AdvanceTimeStep
<1>3. ASSUME NEW d \in Devices, TransmitComplete(d) PROVE LinkInv'
  BY <1>3, TransmitCompleteStep
<1>4. ASSUME NEW d \in Devices, Receive(d) PROVE LinkInv'
  BY <1>4, ReceiveStep
<1>5. ASSUME NEW d \in Devices, EndDecoding(d) PROVE LinkInv'
  BY <1>5, EndDecodingStep
<1>6. ASSUME NEW p \in Packets, Send(p) PROVE LinkInv'
  BY <1>6, SendStep
<1>7. ASSUME NEW p \in Packets, NEW d \in Devices, SendFrom(d, p) PROVE LinkInv'
  BY <1>7, SendFromStep
<1>8. CASE UNCHANGED vars
  <2>1. UNCHANGED <<linkUp, queue, deviceQueue, busy, agenda, accepted, seen, received, corrupted>>
    BY <1>8 DEF vars, queues, history
  <2>2. VariablesTyped' /\ AgendaOK(agenda)'
    BY <2>1 DEF LinkInv, VariablesTyped
  <2>3. ASSUME NEW d \in Devices PROVE SenderOK(d)'
    <3>1. SenderOK(d)
      BY DEF LinkInv
    <3> QED BY <2>1, <3>1 DEF SenderOK, Completes, SetAside, Held
  <2> QED BY <2>2, <2>3 DEF LinkInv
<1> QED BY <1>1, <1>2, <1>3, <1>4, <1>5, <1>6, <1>7, <1>8 DEF Next, Simulate


-----------------------------------------------------------------------------
(* The results, for every kind and number of packets, every delay and every *)
(* bound of the queues.                                                     *)

\* The invariant holds in every state the two devices reach (SendFrom, Send,
\* TransmitComplete, StartDecoding, EndDecoding): what the event list carries is
\* sorted, a completion is pending for a busy device only, and of each class
\* the queue is behind the wire and the wire behind what was passed up.
THEOREM LinkInvariant == Spec => []LinkInv
<1>1. Init => LinkInv
  BY LinkInit
<1>2. LinkInv /\ [Next]_vars => LinkInv'
  BY LinkStep
<1> QED BY <1>1, <1>2, PTL DEF Spec

\* The queues stay within their limit, hold packets of their class only, and
\* the event list stays in the order of its times.
THEOREM LinkTypes == Spec => []TypeOK
<1>1. LinkInv => TypeOK
  BY InvGivesType
<1> QED BY <1>1, LinkInvariant, PTL

\* A device is busy exactly while one TransmitComplete of it is pending, so that
\* m_pointToPointBusy neither silences it for ever nor lets two frames overlap.
THEOREM OneTransmissionAtATime == Spec => []BusyUntilComplete
<1>1. LinkInv => BusyUntilComplete
  BY InvGivesBusy
<1> QED BY <1>1, LinkInvariant, PTL

\* A packet that SendFrom or Send accepted is never lost and never doubled on
\* its way to ForwardUp of the peer.
THEOREM NoPacketLost == Spec => []EachInOnePlace
<1>1. LinkInv => EachInOnePlace
  BY InvGivesPlaces
<1> QED BY <1>1, LinkInvariant, PTL

\* ForwardUp passes the packets of one queue up in the order in which the peer
\* accepted them, whatever their lengths and the times of decoding.
THEOREM PacketsInOrder == Spec => []InOrder
<1>1. LinkInv => InOrder
  BY InvGivesOrder
<1> QED BY <1>1, LinkInvariant, PTL

=============================================================================
