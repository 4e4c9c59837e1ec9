--------------------------- MODULE DualQueueProofs ---------------------------
(***************************************************************************)
(* Theorems about the dual queue AQM: about DualQueue, for any packet      *)
(* sizes, quanta, buffers, delays and limits, and about the queue          *)
(* protection in front of it.  The steps of DualQueue are handled in three *)
(* groups that do not disturb each other: round robin, virtual queue,      *)
(* burst machine.                                                          *)
(***************************************************************************)
EXTENDS DualQueue, QueueProtection, WellFoundedInduction, TLAPS

\* Division rounded up: enough units to cover a, and none to spare.
LEMMA CeilDivFacts ==
  ASSUME NEW a \in Nat, NEW b \in Nat \ {0}
  PROVE  /\ CeilDiv(a, b) \in Nat
         /\ CeilDiv(a, b) * b >= a
         /\ CeilDiv(a, b) * b < a + b
<1> DEFINE x == a + b - 1
<1>1. x \in Nat
  OBVIOUS
<1>2. /\ x \div b \in Nat
      /\ x = b * (x \div b) + (x % b)
      /\ x % b \in 0..(b - 1)
  BY <1>1
<1>3. b * (x \div b) = (x \div b) * b
  BY <1>2
<1> QED
  BY <1>2, <1>3 DEF CeilDiv

\* Saturating subtraction yields a natural number.
LEMMA MonusType == \A a, b \in Nat : Monus(a, b) \in Nat
BY DEF Monus

\* Multiples of a quantum grow with their factor.
LEMMA MultipleMonotone ==
  ASSUME NEW m \in Nat, NEW n \in Nat, NEW b \in Nat, m <= n
  PROVE  m * b <= n * b
OBVIOUS

\* Both quanta are positive: a queue gains something in every round.
LEMMA QuantumType ==
  /\ Quantum \in [Queue -> Nat \ {0}]
  /\ Quantum["LowLatency"] \in Nat \ {0} /\ Quantum["Classic"] \in Nat \ {0}
<1> DEFINE x == DrrQuantum * SchedulingWeight
<1>1. DrrQuantum \in Nat \ {0} /\ x \in Nat /\ x >= 256
  BY DualQueueAssumption
<1>2. x \div 256 \in Nat \ {0}
  BY <1>1
<1> QED
  BY <1>1, <1>2 DEF Quantum, LlQuantum, Queue

\* Packets are not empty and no longer than the longest.
LEMMA PacketSizes ==
  /\ MaxPacket \in Nat \ {0}
  /\ \A p \in PduSizes : p \in Nat \ {0} /\ p + Header \in 1..MaxPacket
BY DualQueueAssumption DEF MaxPacket

\* What the round robin computes with are natural numbers.
LEMMA DrrTypes ==
  ASSUME TypeOK, NEW q \in Queue
  PROVE  drr.deficit[q] \in Nat /\ waited[q] \in Nat /\ Quantum[q] \in Nat \ {0}
<1>1. drr \in [queues : SUBSET Queue, deficit : [Queue -> Nat]]
  BY DEF TypeOK
<1>2. drr.deficit \in [Queue -> Nat] /\ waited \in [Queue -> Nat]
  BY <1>1 DEF TypeOK
<1> QED BY <1>2, QuantumType

\* The head of a queue with packets is one of the packets.
LEMMA HeadSizes ==
  ASSUME TypeOK, NEW q \in Queue, Backlogged(q)
  PROVE  Head(queue[q]) \in PduSizes /\ HeadSize(q) \in 1..MaxPacket
<1>1. queue[q] \in Seq(PduSizes) /\ queue[q] # <<>>
  BY DEF TypeOK, Backlogged
<1>2. Head(queue[q]) \in PduSizes
  BY <1>1
<1> QED
  BY <1>2, PacketSizes DEF HeadSize

-----------------------------------------------------------------------------

\* RoundOf is the first round, from the given one on, that covers the head.
LEMMA RoundFacts ==
  ASSUME TypeOK, NEW q \in Queue, Backlogged(q), NEW earliest \in Nat
  PROVE  /\ RoundOf(q, earliest) \in Nat /\ RoundOf(q, earliest) >= earliest
         /\ HeadSize(q) <= Deficit(q, RoundOf(q, earliest))
         /\ \A j \in Nat : earliest <= j /\ j < RoundOf(q, earliest)
                            => Deficit(q, j) < HeadSize(q)
<1> DEFINE h == HeadSize(q)
           d == drr.deficit[q]
           m == Monus(h, d)
           b == Quantum[q]
           c == CeilDiv(m, b)
           k == RoundOf(q, earliest)
<1>1. h \in Nat /\ d \in Nat /\ b \in Nat \ {0}
  BY HeadSizes, DrrTypes
<1>6. \A j \in Nat : Deficit(q, j) = d + j * b
  BY DEF Deficit
<1>4. k = Larger(earliest, c)
  BY DEF RoundOf
<1> HIDE DEF h, d, b
<1>2. m \in Nat /\ (h > d => m = h - d) /\ (h <= d => m = 0)
  BY <1>1 DEF Monus
<1>3. c \in Nat /\ c * b >= m /\ c * b < m + b
  BY <1>1, <1>2, CeilDivFacts
<1> HIDE DEF m, c, k
<1>5. k \in Nat /\ k >= earliest /\ k >= c /\ (k > earliest => k = c)
  BY <1>3, <1>4 DEF Larger
<1>7. c * b <= k * b
  BY <1>1, <1>3, <1>5, MultipleMonotone
<1>8. h <= Deficit(q, k)
  <2>1. k * b \in Nat
    BY <1>1, <1>5
  <2> QED BY <1>1, <1>2, <1>3, <1>5, <1>6, <1>7, <2>1
<1>9. ASSUME NEW j \in Nat, earliest <= j, j < k
      PROVE  Deficit(q, j) < h
  <2>1. k = c /\ j <= c - 1 /\ c - 1 \in Nat
    BY <1>3, <1>5, <1>9
  <2>2. j * b <= (c - 1) * b
    BY <1>1, <2>1, MultipleMonotone
  <2>3. (c - 1) * b = c * b - b
    BY <1>1, <1>3, <2>1
  <2>4. j * b < m /\ j * b \in Nat
    BY <1>1, <1>2, <1>3, <2>2, <2>3
  <2> QED BY <1>1, <1>2, <1>6, <2>4
<1> QED BY <1>5, <1>8, <1>9 DEF h, k

-----------------------------------------------------------------------------
(* Types.                                                                  *)

\* The deficit after k rounds is a natural number.
LEMMA DeficitType ==
  ASSUME TypeOK, NEW q \in Queue, NEW k \in Nat
  PROVE  /\ Deficit(q, k) \in Nat
         /\ Deficit(q, k) = drr.deficit[q] + k * Quantum[q]
         /\ k * Quantum[q] \in Nat
<1>1. drr.deficit[q] \in Nat /\ Quantum[q] \in Nat
  BY DrrTypes
<1>2. k * Quantum[q] \in Nat
  <2> DEFINE m == Quantum[q]
  <2> HIDE DEF m
  <2>1. m \in Nat
    BY <1>1 DEF m
  <2>2. k * m \in Nat
    BY <2>1, Z3
  <2> QED BY <2>2 DEF m
<1>3. Deficit(q, k) = drr.deficit[q] + k * Quantum[q]
  BY DEF Deficit
<1> QED BY <1>1, <1>2, <1>3

\* What is served was covered, so no deficit becomes negative.
LEMMA SelectKeepsType ==
  ASSUME TypeOK, NEW q \in Queue, Select(q)
  PROVE  drr' \in [queues : SUBSET Queue, deficit : [Queue -> Nat]]
<1> DEFINE Drr == [queues : SUBSET Queue, deficit : [Queue -> Nat]]
<1>1. ASSUME NEW bits \in SUBSET Queue, NEW k \in Nat, Serve(q, bits, k),
             HeadSize(q) <= Deficit(q, k), Backlogged(q)
      PROVE  drr' \in Drr
  <2>1. \A o \in Queue : Deficit(o, k) \in Nat
    BY DeficitType
  <2>2. HeadSize(q) \in Nat
    BY <1>1, HeadSizes
  <2>3. \A o \in Queue : Deficit(o, k) - (IF o = q THEN HeadSize(q) ELSE 0) \in Nat
    BY <1>1, <2>1, <2>2
  <2> QED BY <1>1, <2>3 DEF Serve
<1>2. ASSUME NEW bits \in SUBSET Queue, NEW k \in Nat, ServeAnyway(q, bits, k)
      PROVE  drr' \in Drr
  BY <1>2, DeficitType DEF ServeAnyway
<1>3. drr.queues \in SUBSET Queue /\ RoundsToStart \in {0, 1}
  BY DEF TypeOK, RoundsToStart
<1>4. CASE SelectBetween(q)
  <2>1. Backlogged("Classic") /\ Backlogged("LowLatency")
    BY <1>4 DEF SelectBetween
  <2>2. /\ LlRound \in Nat /\ HeadSize("LowLatency") <= Deficit("LowLatency", LlRound)
        /\ ClassicRound \in Nat /\ HeadSize("Classic") <= Deficit("Classic", ClassicRound)
    BY <1>3, <2>1, RoundFacts DEF LlRound, ClassicRound, Queue
  <2>3. CASE q = "LowLatency"
    <3>1. Serve(q, IF LlRound = 0 THEN drr.queues ELSE Queue, LlRound)
      BY <1>4, <2>3 DEF SelectBetween
    <3>2. (IF LlRound = 0 THEN drr.queues ELSE Queue) \in SUBSET Queue
      BY <1>3
    <3> QED BY <1>1, <2>1, <2>2, <2>3, <3>1, <3>2
  <2>4. CASE q = "Classic"
    <3>1. Serve(q, (IF ClassicRound = 0 THEN drr.queues ELSE Queue) \ {"LowLatency"},
                ClassicRound)
      BY <1>4, <2>4 DEF SelectBetween
    <3>2. ((IF ClassicRound = 0 THEN drr.queues ELSE Queue) \ {"LowLatency"})
            \in SUBSET Queue
      BY <1>3
    <3> QED BY <1>1, <2>1, <2>2, <2>4, <3>1, <3>2
  <2> QED BY <2>3, <2>4 DEF Queue
<1>5. CASE SelectAlone(q)
  <2> DEFINE k == RoundsToStart
             bits == IF k = 1 THEN Queue ELSE drr.queues
  <2>1. bits \in SUBSET Queue /\ bits \ {q} \in SUBSET Queue /\ k \in Nat
    BY <1>3
  <2>2. Backlogged(q) /\ \/ HeadSize(q) <= Deficit(q, k) /\ Serve(q, bits, k)
                         \/ ServeAnyway(q, bits \ {q}, k)
    BY <1>5 DEF SelectAlone
  <2> HIDE DEF bits, k
  <2> QED BY <1>1, <1>2, <2>1, <2>2
<1> QED BY <1>4, <1>5 DEF Select

\* Queues stay sequences of packets, and their byte counts natural numbers.
LEMMA QueuesType ==
  ASSUME TypeOK, NEW q \in Queue, NEW p \in PduSizes,
         \/ Put(q, p)
         \/ Backlogged(q) /\ Take(q)
         \/ UNCHANGED queues
  PROVE  queue' \in [Queue -> Seq(PduSizes)] /\ pduBytes' \in [Queue -> Nat]
<1>1. p \in Nat
  BY PacketSizes
<1>2. CASE Put(q, p)
  BY <1>1, <1>2 DEF TypeOK, Put
<1>3. CASE Backlogged(q) /\ Take(q)
  <2>1. queue[q] \in Seq(PduSizes) /\ queue[q] # <<>> /\ pduBytes[q] \in Nat
    BY <1>3 DEF TypeOK, Backlogged
  <2>2. Tail(queue[q]) \in Seq(PduSizes) /\ Head(queue[q]) \in Nat
    BY <2>1, PacketSizes
  <2>3. Monus(pduBytes[q], Head(queue[q])) \in Nat
    BY <2>1, <2>2 DEF Monus
  <2> QED BY <1>3, <2>2, <2>3 DEF Take, TypeOK
<1>4. CASE UNCHANGED queues
  BY <1>4 DEF TypeOK, queues
<1> QED BY <1>2, <1>3, <1>4

VirtualTypes == vq \in Nat /\ elapsed \in Nat /\ averageAq \in Nat /\ ideal \in Nat
                  /\ aligned \in BOOLEAN
PieTypes ==
  /\ burst \in [state : BurstState, allowance : 0..MaxBurst, reset : Nat]
  /\ prob \in {None, Some, High} /\ qDelay \in Nat
  /\ quiet \in Nat /\ settled \in BOOLEAN

\* Charging a packet and taking it back keep the types.
LEMMA ChargeTypes ==
  ASSUME VirtualTypes, NEW p \in Nat, KeepCharge(p) \/ TakeBackCharge(p)
  PROVE  vq' \in Nat /\ elapsed' \in Nat /\ ideal' \in Nat
BY DEF VirtualTypes, KeepCharge, TakeBackCharge, Charged, Drained, Monus

\* An alignment keeps the types, the moving average included.
LEMMA AlignTypes ==
  ASSUME TypeOK, VirtualTypes,
         NEW staged \in StagedBytes, NEW allowedAq \in AllowedAqs, AlignVq(staged, allowedAq)
  PROVE  VirtualTypes'
<1> DEFINE actual == Bytes("LowLatency") + staged
           average == Averaged(actual)
<1>1. pduBytes["LowLatency"] \in Nat /\ queue["LowLatency"] \in Seq(PduSizes)
  BY DEF TypeOK, Queue
<1>2. Len(queue["LowLatency"]) \in Nat
  BY <1>1
<1>3. actual \in Nat /\ allowedAq \in Nat
  BY <1>1, <1>2, DualQueueAssumption DEF Bytes
<1> HIDE DEF actual
<1>4. average \in Nat
  <2>1. actual - averageAq \in Int /\ averageAq \in Nat /\ EwmaDivisor \in Nat \ {0}
    BY <1>3, DualQueueAssumption DEF VirtualTypes
  <2>2. (actual - averageAq) \div EwmaDivisor \in Int
    BY <2>1
  <2> QED BY <2>1, <2>2 DEF Averaged, Larger
<1>5. /\ averageAq' = average
      /\ vq' = Larger(vq, Monus(average, allowedAq))
      /\ ideal' = Larger(ideal, Monus(average, allowedAq))
      /\ aligned' \in BOOLEAN /\ elapsed' = elapsed
  BY DEF AlignVq, actual
<1> HIDE DEF average
<1> QED BY <1>3, <1>4, <1>5 DEF VirtualTypes, Larger, Monus

\* An early drop and a pass keep the types.
LEMMA EarlyDropTypes ==
  ASSUME PieTypes, DropEarly \/ PassEarly
  PROVE  PieTypes'
<1>1. MaxBurst \in 0..MaxBurst
  BY DualQueueAssumption
<1>2. Entered \in BurstState /\ "Protecting" \in BurstState
  BY DEF PieTypes, Entered, BurstState
<1>3. burst' \in [state : BurstState, allowance : 0..MaxBurst, reset : Nat]
  <2>1. CASE DropEarly
    BY <1>1, <1>2, <2>1 DEF PieTypes, DropEarly
  <2>2. CASE PassEarly
    BY <1>2, <2>2 DEF PieTypes, PassEarly
  <2> QED BY <2>1, <2>2
<1>4. /\ quiet' \in {quiet, 0}
      /\ UNCHANGED <<prob, qDelay, settled>>
  BY DEF DropEarly, PassEarly
<1> QED BY <1>3, <1>4 DEF PieTypes

\* A drop probability is one of the three that are told apart.
LEMMA ProbTypes ==
  ASSUME PieTypes, NEW delay \in Nat
  PROVE  NewProbs(delay) \subseteq {None, Some, High}
BY DEF PieTypes, NewProbs, None, Some, High

\* A drop probability update keeps the types.
LEMMA UpdateTypes ==
  ASSUME TypeOK, PieTypes, NEW rate \in ClassicRates, CalculateDropProb(rate)
  PROVE  PieTypes'
<1> DEFINE delay == pduBytes["Classic"] \div rate
           allowance == Monus(burst.allowance, UpdateInterval)
<1>1. pduBytes["Classic"] \in Nat /\ rate \in Nat \ {0}
  BY DualQueueAssumption DEF TypeOK, Queue
<1>2. delay \in Nat
  BY <1>1
<1>3. allowance \in 0..MaxBurst
  BY DualQueueAssumption DEF PieTypes, Monus
<1>4. PICK p \in NewProbs(delay) :
        /\ prob' = p
        /\ qDelay' = delay
        /\ burst' = [state |-> NextState(BurstOver(delay, p, allowance)),
                      allowance |-> allowance,
                      reset |-> NextReset(BurstOver(delay, p, allowance))]
        /\ quiet' \in {quiet + 1, 0}
        /\ settled' \in BOOLEAN
  BY DEF CalculateDropProb, PieTypes
<1> DEFINE over == BurstOver(delay, p, allowance)
<1>5. p \in {None, Some, High}
  BY <1>2, ProbTypes
<1>6. over \in BOOLEAN
  BY DEF BurstOver
<1> HIDE DEF over, delay, allowance
<1>7. NextState(over) \in BurstState
  BY DEF NextState, PieTypes, BurstState
<1>8. NextReset(over) \in Nat
  BY DEF NextReset, PieTypes
<1> QED BY <1>2, <1>3, <1>4, <1>5, <1>7, <1>8 DEF PieTypes, over

QueueTypes == queue \in [Queue -> Seq(PduSizes)] /\ pduBytes \in [Queue -> Nat]
DrrRecords == [queues : SUBSET Queue, deficit : [Queue -> Nat]]

\* TypeOK by the groups of variables that change together.
LEMMA TypeParts ==
  TypeOK <=> /\ side \in Side /\ QueueTypes /\ drr \in DrrRecords
             /\ waited \in [Queue -> Nat] /\ VirtualTypes /\ PieTypes
BY DEF TypeOK, QueueTypes, DrrRecords, VirtualTypes, PieTypes

\* The parts of the state that an arriving packet can change.
LEMMA ArrivalTypes ==
  ASSUME TypeOK, NEW p \in PduSizes,
         EnqueueClassic(p) \/ EnqueueSanctioned(p) \/ EnqueueLowLatency(p)
  PROVE  TypeOK'
<1> USE DEF queues, scheduler, virtual, pie
<1>1. p \in Nat /\ VirtualTypes /\ PieTypes
  BY PacketSizes, TypeParts
<1>2. QueueTypes'
  <2>1. \E q \in Queue : Put(q, p) \/ UNCHANGED queues
    BY DEF EnqueueClassic, EnqueueSanctioned, EnqueueLowLatency, ClassicEnqueue, Queue
  <2> QED BY <2>1, QueuesType DEF QueueTypes
<1>3. VirtualTypes'
  <2>1. CASE EnqueueClassic(p)
    BY <1>1, <2>1 DEF EnqueueClassic, VirtualTypes
  <2>2. CASE EnqueueSanctioned(p) \/ EnqueueLowLatency(p)
    <3>1. /\ KeepCharge(p) \/ TakeBackCharge(p)
          /\ UNCHANGED <<averageAq, aligned>>
      BY <2>2 DEF EnqueueSanctioned, EnqueueLowLatency
    <3>2. vq' \in Nat /\ elapsed' \in Nat /\ ideal' \in Nat
      BY <1>1, <3>1, ChargeTypes
    <3> QED BY <1>1, <3>1, <3>2 DEF VirtualTypes
  <2> QED BY <2>1, <2>2
<1>4. PieTypes'
  <2>1. CASE EnqueueClassic(p) \/ EnqueueSanctioned(p)
    <3>1. DropEarly \/ PassEarly
      BY <2>1 DEF EnqueueClassic, EnqueueSanctioned, ClassicEnqueue
    <3> QED BY <1>1, <3>1, EarlyDropTypes
  <2>2. CASE EnqueueLowLatency(p)
    BY <1>1, <2>2 DEF EnqueueLowLatency, PieTypes
  <2> QED BY <2>1, <2>2
<1>5. UNCHANGED <<side, drr, waited>>
  BY DEF EnqueueClassic, EnqueueSanctioned, EnqueueLowLatency
<1>6. side' \in Side /\ drr' \in DrrRecords /\ waited' \in [Queue -> Nat]
  BY <1>5, TypeParts
<1> QED BY <1>2, <1>3, <1>4, <1>6, TypeParts DEF QueueTypes, VirtualTypes, PieTypes, TypeOK, DrrRecords

\* A dequeue keeps the types, at either device.
LEMMA DequeueTypes ==
  ASSUME TypeOK, NEW q \in Queue, Dequeue(q) \/ DequeueForGrant(q)
  PROVE  TypeOK'
<1> USE DEF queues, scheduler, virtual, pie
<1>1. Backlogged(q) /\ Take(q)
  BY DEF Dequeue, DequeueForGrant, Select, SelectAlone, SelectBetween, Queue
<1>2. QueueTypes'
  <2>1. PICK p \in PduSizes : TRUE
    BY <1>1, HeadSizes
  <2> QED BY <1>1, <2>1, QueuesType DEF QueueTypes
<1>3. drr' \in DrrRecords /\ waited' \in [Queue -> Nat]
  <2>1. CASE Dequeue(q)
    <3>1. HeadSize(q) \in Nat
      BY <1>1, HeadSizes
    <3>2. \A o \in Queue : waited[o] + HeadSize(q) \in Nat
      BY <3>1, DrrTypes
    <3>3. waited' \in [Queue -> Nat]
      BY <2>1, <3>2 DEF Dequeue
    <3> QED BY <2>1, <3>3, SelectKeepsType DEF Dequeue, DrrRecords
  <2>2. CASE DequeueForGrant(q)
    BY <2>2, TypeParts DEF DequeueForGrant
  <2> QED BY <2>1, <2>2
<1>4. UNCHANGED <<side, virtual, pie>>
  BY DEF Dequeue, DequeueForGrant
<1>5. side' \in Side /\ VirtualTypes' /\ PieTypes'
  BY <1>4, TypeParts DEF VirtualTypes, PieTypes
<1> QED BY <1>2, <1>3, <1>5, TypeParts DEF QueueTypes, VirtualTypes, PieTypes, TypeOK, DrrRecords

\* Updates, alignments and the passing of time keep the types.
LEMMA TimerTypes ==
  ASSUME TypeOK,
         \/ \E rate \in ClassicRates : CalculateDropProb(rate)
         \/ \E d \in Intervals : AdvanceTime(d)
         \/ \E staged \in StagedBytes, allowedAq \in AllowedAqs :
               AlignVq(staged, allowedAq)
  PROVE  TypeOK'
<1> USE DEF queues, scheduler, virtual, pie
<1>1. VirtualTypes /\ PieTypes
  BY TypeParts
<1>2. CASE \E rate \in ClassicRates : CalculateDropProb(rate)
  <2>1. PICK rate \in ClassicRates : CalculateDropProb(rate)
    BY <1>2
  <2>2. PieTypes'
    BY <1>1, <2>1, UpdateTypes
  <2>3. UNCHANGED <<side, queues, scheduler, virtual>>
    BY <2>1 DEF CalculateDropProb
  <2> QED BY <2>2, <2>3 DEF TypeOK, PieTypes
<1>3. CASE \E d \in Intervals : AdvanceTime(d)
  <2>1. PICK d \in Intervals : AdvanceTime(d)
    BY <1>3
  <2>2. VirtualTypes'
    BY <1>1, <2>1, DualQueueAssumption DEF AdvanceTime, VirtualTypes, Monus
  <2> QED BY <2>1, <2>2 DEF AdvanceTime, TypeOK, VirtualTypes
<1>4. CASE \E staged \in StagedBytes, allowedAq \in AllowedAqs :
             AlignVq(staged, allowedAq)
  <2>1. PICK staged \in StagedBytes, allowedAq \in AllowedAqs :
               AlignVq(staged, allowedAq)
    BY <1>4
  <2>2. VirtualTypes'
    BY <1>1, <2>1, AlignTypes
  <2>3. UNCHANGED <<side, queues, scheduler, pie>>
    BY <2>1 DEF AlignVq
  <2> QED BY <2>2, <2>3 DEF TypeOK, VirtualTypes
<1> QED BY <1>2, <1>3, <1>4

\* The initial state has the types.
LEMMA InitTypes == Init => TypeOK
<1> SUFFICES ASSUME Init PROVE TypeOK
  OBVIOUS
<1>1. queue \in [Queue -> Seq(PduSizes)] /\ pduBytes \in [Queue -> Nat]
  BY DEF Init
<1>2. drr \in [queues : SUBSET Queue, deficit : [Queue -> Nat]] /\ waited \in [Queue -> Nat]
  BY DEF Init
<1>3. burst \in [state : BurstState, allowance : 0..MaxBurst, reset : Nat]
  <2>1. 0 \in 0..MaxBurst /\ ResetMemory \subseteq Nat
    BY DualQueueAssumption
  <2> QED BY <2>1 DEF Init, BurstState
<1> QED BY <1>1, <1>2, <1>3 DEF Init, TypeOK, None

\* Every step keeps the types.
LEMMA StepKeepsTypes == TypeOK /\ [Next]_vars => TypeOK'
<1> SUFFICES ASSUME TypeOK, [Next]_vars PROVE TypeOK'
  OBVIOUS
<1>1. CASE \E p \in PduSizes :
             EnqueueClassic(p) \/ EnqueueSanctioned(p) \/ EnqueueLowLatency(p)
  BY <1>1, ArrivalTypes
<1>2. CASE \E q \in Queue : Dequeue(q) \/ DequeueForGrant(q)
  BY <1>2, DequeueTypes
<1>3. CASE \/ \E rate \in ClassicRates : CalculateDropProb(rate)
           \/ \E d \in Intervals : AdvanceTime(d)
           \/ \E staged \in StagedBytes, allowedAq \in AllowedAqs :
                 AlignVq(staged, allowedAq)
  BY <1>3, TimerTypes
<1>4. CASE UNCHANGED vars
  BY <1>4 DEF vars, queues, scheduler, virtual, pie, TypeOK
<1> QED BY <1>1, <1>2, <1>3, <1>4 DEF Next

\* The state keeps its types: no deficit, delay or count becomes negative.
THEOREM TypeCorrect == Spec => []TypeOK
<1> QED BY InitTypes, StepKeepsTypes, PTL DEF Spec

-----------------------------------------------------------------------------
(* The virtual queue.                                                      *)

\* The CMTS never charges, so there is nothing to drain.
CmtsDoesNotCharge == side = "cmts" => vq = 0 /\ elapsed = 0
VqInv == VqKeepsTheCount /\ CmtsDoesNotCharge

\* A charge is counted, and taking it back undoes it, drained time included.
LEMMA ChargeKeepsCount ==
  ASSUME TypeOK, VqInv, NEW p \in PduSizes, KeepCharge(p) \/ TakeBackCharge(p),
         UNCHANGED <<side, aligned>>
  PROVE  VqInv'
<1>1. p \in Nat /\ vq \in Nat /\ elapsed \in Nat /\ ideal \in Nat
  BY PacketSizes DEF TypeOK
<1>2. CASE side = "cm"
  BY <1>1, <1>2 DEF VqInv, VqKeepsTheCount, CmtsDoesNotCharge, KeepCharge, TakeBackCharge,
                    Charged, Drained, Monus
<1>3. CASE side = "cmts"
  BY <1>1, <1>3 DEF VqInv, VqKeepsTheCount, CmtsDoesNotCharge, KeepCharge, TakeBackCharge,
                    Charged, Drained, Monus
<1> QED BY <1>2, <1>3 DEF TypeOK, Side

\* Every step keeps the count of the virtual queue.
LEMMA StepKeepsVq == TypeOK /\ VqInv /\ [Next]_vars => VqInv'
<1> SUFFICES ASSUME TypeOK, VqInv, [Next]_vars PROVE VqInv'
  OBVIOUS
<1> USE DEF virtual
<1>1. vq \in Nat /\ elapsed \in Nat /\ ideal \in Nat
  BY DEF TypeOK
<1>2. ASSUME NEW p \in PduSizes, EnqueueSanctioned(p) \/ EnqueueLowLatency(p)
      PROVE  VqInv'
  <2>1. KeepCharge(p) \/ TakeBackCharge(p)
    BY <1>2 DEF EnqueueSanctioned, EnqueueLowLatency
  <2>2. UNCHANGED <<side, aligned>>
    BY <1>2 DEF EnqueueSanctioned, EnqueueLowLatency
  <2> QED BY <2>1, <2>2, ChargeKeepsCount
<1>3. ASSUME NEW d \in Intervals, AdvanceTime(d)
      PROVE  VqInv'
  <2>1. d \in Nat
    BY DualQueueAssumption
  <2>2. ~aligned' => ~aligned \/ ~(ideal > d)
    BY <1>3 DEF AdvanceTime
  <2>3. /\ side = "cm" /\ side' = side /\ vq' = vq
        /\ elapsed' = elapsed + d /\ ideal' = Monus(ideal, d)
    BY <1>3 DEF AdvanceTime
  <2>4. Drained <= ideal /\ (~aligned => Drained = ideal)
    BY DEF VqInv, VqKeepsTheCount
  <2>5. Drained' <= ideal' /\ (Drained = ideal \/ ~(ideal > d) => Drained' = ideal')
    BY <1>1, <2>1, <2>3, <2>4 DEF Drained, Monus
  <2> QED BY <2>2, <2>3, <2>4, <2>5 DEF VqInv, VqKeepsTheCount, CmtsDoesNotCharge
<1>4. ASSUME NEW staged \in StagedBytes, NEW allowedAq \in AllowedAqs,
             AlignVq(staged, allowedAq)
      PROVE  VqInv'
  <2>1. VirtualTypes'
    BY <1>4, AlignTypes, TypeParts
  <2>2. PICK excess \in Nat :
          /\ vq' = Larger(vq, excess) /\ ideal' = Larger(ideal, excess)
          /\ aligned' = (aligned \/ excess > ideal)
    <3>1. averageAq' \in Nat /\ allowedAq \in Nat
      BY <2>1, DualQueueAssumption DEF VirtualTypes
    <3>2. Monus(averageAq', allowedAq) \in Nat
      BY <3>1, MonusType
    <3>3. /\ vq' = Larger(vq, Monus(averageAq', allowedAq))
          /\ ideal' = Larger(ideal, Monus(averageAq', allowedAq))
          /\ aligned' = (aligned \/ Monus(averageAq', allowedAq) > ideal)
      BY <1>4 DEF AlignVq
    <3> QED BY <3>2, <3>3
  <2>3. side = "cm" /\ side' = side /\ elapsed' = elapsed
    BY <1>4 DEF AlignVq
  <2>4. ~aligned' => ~aligned /\ ~(excess > ideal)
    BY <2>2
  <2>5. Drained <= ideal /\ (~aligned => Drained = ideal)
    BY DEF VqInv, VqKeepsTheCount
  <2>6. /\ Drained' <= ideal'
        /\ Drained = ideal /\ ~(excess > ideal) => Drained' = ideal'
    BY <1>1, <2>2, <2>3, <2>5 DEF Drained, Monus, Larger
  <2> QED BY <2>3, <2>4, <2>5, <2>6 DEF VqInv, VqKeepsTheCount, CmtsDoesNotCharge
<1>5. CASE UNCHANGED <<side, virtual>>
  BY <1>5 DEF VqInv, VqKeepsTheCount, CmtsDoesNotCharge, Drained
<1>6. CASE \/ \E p \in PduSizes : EnqueueClassic(p)
           \/ \E q \in Queue : Dequeue(q) \/ DequeueForGrant(q)
           \/ \E rate \in ClassicRates : CalculateDropProb(rate)
           \/ UNCHANGED vars
  <2>1. UNCHANGED <<side, virtual>>
    BY <1>6 DEF EnqueueClassic, Dequeue, DequeueForGrant, CalculateDropProb, vars
  <2> QED BY <1>5, <2>1
<1> QED BY <1>2, <1>3, <1>4, <1>6 DEF Next

\* The virtual queue counts what was admitted, whatever the order of events.
THEOREM VqAlwaysKeepsTheCount == Spec => []VqKeepsTheCount
<1>1. Init => VqInv
  BY DEF Init, VqInv, VqKeepsTheCount, CmtsDoesNotCharge, Drained, Monus
<1>2. VqInv => VqKeepsTheCount
  BY DEF VqInv
<1> QED BY <1>1, <1>2, TypeCorrect, StepKeepsVq, PTL DEF Spec

-----------------------------------------------------------------------------
(* The burst machine.                                                      *)

\* A timer that has been set is reset whenever the burst state is left, and
\* an open burst has not been quiet for longer than the limit.
TimerIsSet ==
  settled =>
    /\ burst.state = "InBurst" => burst.reset = quiet
    /\ burst.state = "NoBurst" => burst.reset = 0
    /\ burst.state # "NoBurst" => quiet <= BurstResetLimit
BurstInv == AllowanceMeansProtecting /\ TimerIsSet

\* A drop that opens the protection, and a pass, keep the burst invariant.
LEMMA EarlyDropKeepsBurst ==
  ASSUME TypeOK, BurstInv, DropEarly \/ PassEarly
  PROVE  BurstInv'
<1>1. /\ burst \in [state : BurstState, allowance : 0..MaxBurst, reset : Nat]
      /\ settled' = settled
  BY DEF TypeOK, DropEarly, PassEarly
<1>2. CASE burst' = burst
  <2>1. quiet' = quiet
    BY <1>2 DEF DropEarly, PassEarly
  <2> QED BY <1>1, <1>2, <2>1 DEF BurstInv, AllowanceMeansProtecting, TimerIsSet
<1>3. CASE burst' # burst
  <2>1. quiet' = 0 /\ burst.allowance = 0
    <3>1. burst.allowance \in Nat
      BY <1>1
    <3> QED BY <1>3, <3>1 DEF DropEarly, PassEarly, MayDrop
  <2>2. \/ burst' = [burst EXCEPT !.state = "Protecting", !.allowance = MaxBurst]
        \/ burst' = [burst EXCEPT !.state = Entered]
    BY <1>3 DEF DropEarly, PassEarly
  <2>3. /\ burst'.reset = burst.reset
        /\ \/ burst'.state = "Protecting"
           \/ burst'.state = Entered /\ burst'.allowance = 0
    BY <1>1, <2>1, <2>2
  <2>4. Entered # burst.state => Entered = "InBurst" /\ burst.state = "NoBurst"
    BY DEF Entered
  <2>5. burst'.state = Entered /\ burst'.state # "Protecting" => burst.state = "NoBurst"
    BY <1>1, <1>3, <2>2, <2>4
  <2>6. BurstResetLimit \in Nat
    BY DualQueueAssumption
  <2> QED BY <1>1, <2>1, <2>3, <2>4, <2>5, <2>6
          DEF BurstInv, AllowanceMeansProtecting, TimerIsSet, Entered
<1> QED BY <1>2, <1>3

\* An update, which moves the burst machine, keeps its invariant.
LEMMA UpdateKeepsBurst ==
  ASSUME TypeOK, BurstInv, NEW rate \in ClassicRates, CalculateDropProb(rate)
  PROVE  BurstInv'
<1> DEFINE delay == pduBytes["Classic"] \div rate
           allowance == Monus(burst.allowance, UpdateInterval)
<1>1. /\ burst.state \in BurstState /\ burst.allowance \in Nat /\ burst.reset \in Nat
      /\ quiet \in Nat
  BY DEF TypeOK
<1>2. PICK p \in NewProbs(delay) :
        LET over == BurstOver(delay, p, allowance)
        IN  /\ burst' = [state |-> NextState(over), allowance |-> allowance,
                          reset |-> NextReset(over)]
            /\ quiet' = IF over /\ burst.state = "InBurst" THEN quiet + 1 ELSE 0
            /\ settled' = (\/ settled
                           \/ burst.state # burst'.state
                           \/ burst.state = "InBurst" /\ ~over)
  BY DEF CalculateDropProb
<1> DEFINE over == BurstOver(delay, p, allowance)
<1>3. over \in BOOLEAN /\ (over => allowance = 0)
  BY DEF BurstOver
<1>4. allowance \in Nat /\ (allowance > 0 => burst.allowance > 0)
  BY <1>1, DualQueueAssumption DEF Monus
<1>5. /\ burst'.state = NextState(over) /\ burst'.allowance = allowance
      /\ burst'.reset = NextReset(over)
      /\ quiet' = IF over /\ burst.state = "InBurst" THEN quiet + 1 ELSE 0
      /\ settled' = (\/ settled
                     \/ burst.state # NextState(over)
                     \/ burst.state = "InBurst" /\ ~over)
  BY <1>2
<1> HIDE DEF over, allowance, delay
<1>6. AllowanceMeansProtecting'
  BY <1>1, <1>3, <1>4, <1>5 DEF BurstInv, AllowanceMeansProtecting, NextState
<1>7. BurstResetLimit \in Nat
  BY DualQueueAssumption
<1>8. TimerIsSet'
  <2>1. CASE over /\ burst.state = "InBurst" /\ burst.reset >= BurstResetLimit
    <3>1. burst'.state = "NoBurst" /\ burst'.reset = 0
      BY <1>5, <2>1 DEF NextState, NextReset
    <3> QED BY <3>1 DEF TimerIsSet
  <2>2. CASE over /\ burst.state = "InBurst" /\ ~(burst.reset >= BurstResetLimit)
    <3>1. burst'.state = "InBurst" /\ burst'.reset = burst.reset + 1 /\ quiet' = quiet + 1
      BY <1>5, <2>2 DEF NextState, NextReset
    <3>2. settled' => settled
      BY <1>5, <2>2 DEF NextState
    <3>3. settled => burst.reset = quiet
      BY <2>2 DEF BurstInv, TimerIsSet
    <3> QED BY <1>1, <1>7, <2>2, <3>1, <3>2, <3>3 DEF TimerIsSet
  <2>3. CASE ~over /\ burst.state = "InBurst"
    <3>1. burst'.state = "InBurst" /\ burst'.reset = 0 /\ quiet' = 0
      BY <1>5, <2>3 DEF NextState, NextReset
    <3> QED BY <1>7, <3>1 DEF TimerIsSet
  <2>4. CASE over /\ burst.state = "Protecting"
    <3>1. burst'.state = "InBurst" /\ burst'.reset = 0 /\ quiet' = 0
      BY <1>5, <2>4 DEF NextState, NextReset
    <3> QED BY <1>7, <3>1 DEF TimerIsSet
  <2>5. CASE burst.state = "NoBurst" \/ (~over /\ burst.state = "Protecting")
    <3>1. burst'.state = burst.state /\ burst'.reset = burst.reset /\ quiet' = 0
      BY <1>5, <2>5 DEF NextState, NextReset
    <3>2. settled' => settled
      BY <1>5, <2>5 DEF NextState
    <3> QED BY <1>7, <2>5, <3>1, <3>2 DEF BurstInv, TimerIsSet
  <2>6. burst.state = "InBurst" \/ burst.state = "Protecting" \/ burst.state = "NoBurst"
    BY <1>1 DEF BurstState
  <2> QED BY <2>1, <2>2, <2>3, <2>4, <2>5, <2>6, Zenon
<1> QED BY <1>6, <1>8 DEF BurstInv

\* Every step keeps the burst invariant.
LEMMA StepKeepsBurst == TypeOK /\ BurstInv /\ [Next]_vars => BurstInv'
<1> SUFFICES ASSUME TypeOK, BurstInv, [Next]_vars PROVE BurstInv'
  OBVIOUS
<1>1. ASSUME NEW p \in PduSizes, EnqueueClassic(p) \/ EnqueueSanctioned(p)
      PROVE  BurstInv'
  <2>1. DropEarly \/ PassEarly
    BY <1>1 DEF EnqueueClassic, EnqueueSanctioned, ClassicEnqueue
  <2> QED BY <2>1, EarlyDropKeepsBurst
<1>2. ASSUME NEW rate \in ClassicRates, CalculateDropProb(rate)
      PROVE  BurstInv'
  BY <1>2, UpdateKeepsBurst
<1>3. CASE UNCHANGED pie
  BY <1>3 DEF pie, BurstInv, AllowanceMeansProtecting, TimerIsSet
<1>4. CASE \/ \E p \in PduSizes : EnqueueLowLatency(p)
           \/ \E q \in Queue : Dequeue(q) \/ DequeueForGrant(q)
           \/ \E d \in Intervals : AdvanceTime(d)
           \/ \E staged \in StagedBytes, allowedAq \in AllowedAqs :
                 AlignVq(staged, allowedAq)
           \/ UNCHANGED vars
  <2>1. UNCHANGED pie
    BY <1>4 DEF EnqueueLowLatency, Dequeue, DequeueForGrant, AdvanceTime, AlignVq, vars
  <2> QED BY <1>3, <2>1
<1> QED BY <1>1, <1>2, <1>4 DEF Next

\* Drops are excused in the protecting state only.
THEOREM AllowanceOnlyProtects == Spec => []AllowanceMeansProtecting
<1>1. Init => BurstInv
  BY DEF Init, BurstInv, AllowanceMeansProtecting, TimerIsSet
<1>2. BurstInv => AllowanceMeansProtecting
  BY DEF BurstInv
<1> QED BY <1>1, <1>2, TypeCorrect, StepKeepsBurst, PTL DEF Spec

\* Once the timer has been set, every burst ends after its quiet updates.
THEOREM BurstsTimeOut == Spec => []BurstTimesOut
<1>1. Init => BurstInv
  BY DEF Init, BurstInv, AllowanceMeansProtecting, TimerIsSet
<1>2. TypeOK /\ BurstInv => BurstTimesOut
  BY DualQueueAssumption DEF TypeOK, BurstInv, TimerIsSet, BurstTimesOut, BurstState
<1> QED BY <1>1, <1>2, TypeCorrect, StepKeepsBurst, PTL DEF Spec

-----------------------------------------------------------------------------
(* The round robin.                                                        *)

LL == "LowLatency"
CL == "Classic"

\* What a queue is left with outside its turn, and what it can save up.  The
\* classic queue loses its turn only with its deficit; the low latency queue
\* loses it when its head is not covered, and keeps that head.
Turns ==
  /\ CL \notin drr.queues => drr.deficit[CL] = 0
  /\ LL \notin drr.queues => \/ drr.deficit[LL] = 0
                             \/ Backlogged(LL) /\ drr.deficit[LL] < HeadSize(LL)
  /\ LL \in drr.queues => drr.deficit[LL] <= Quantum[LL]
  /\ drr.deficit[CL] < MaxPacket + Quantum[CL]

\* The cable modem dequeues for grants, and the round robin rests.
RestsAtCm == side = "cm" => drr.deficit[LL] = 0 /\ \A q \in Queue : waited[q] = 0

\* Multiples of a quantum, for one round less and for more rounds.
LEMMA MultipleFacts ==
  ASSUME NEW k \in Nat, NEW b \in Nat
  PROVE  /\ k * b \in Nat /\ 0 * b = 0
         /\ k >= 1 => k - 1 \in Nat /\ (k - 1) * b = k * b - b
         /\ \A u \in Nat : (u + k) * b = u * b + k * b
OBVIOUS

\* The step of the round robin when both queues wait: q is served in the k-th
\* round, the first that covers its head and in which it has its turn.
BetweenStep(q, k) ==
  /\ Backlogged(CL) /\ Backlogged(LL)
  /\ drr'.deficit = [o \in Queue |-> Deficit(o, k) - IF o = q THEN HeadSize(q) ELSE 0]
  /\ HeadSize(q) <= Deficit(q, k)
  /\ k >= 1 => Deficit(q, k - 1) < HeadSize(q)
  /\ q = LL => /\ drr'.queues = IF k = 0 THEN drr.queues ELSE Queue
               /\ k = 0 => LL \in drr.queues
               /\ k >= 1 => Deficit(CL, k - 1) < HeadSize(CL)
  /\ q = CL => /\ drr'.queues = (IF k = 0 THEN drr.queues ELSE Queue) \ {LL}
               /\ Deficit(LL, k) < HeadSize(LL)

\* When both queues wait, the code's choice is such a step.
LEMMA BetweenFacts ==
  ASSUME TypeOK, Turns, NEW q \in Queue, SelectBetween(q)
  PROVE  \E k \in Nat : BetweenStep(q, k)
<1>1. Backlogged(CL) /\ Backlogged(LL) /\ CL \in Queue /\ LL \in Queue
  BY DEF SelectBetween, CL, LL, Queue
<1>2. HeadSize(CL) \in Nat \ {0} /\ HeadSize(LL) \in Nat \ {0}
  BY <1>1, HeadSizes, PacketSizes
<1>3. \A o \in Queue : Deficit(o, 0) = drr.deficit[o] /\ drr.deficit[o] \in Nat
  BY DrrTypes DEF Deficit
<1> DEFINE start == IF LL \in drr.queues THEN 0 ELSE 1
           l == LlRound
           c == ClassicRound
<1>4. /\ l \in Nat /\ l >= start /\ HeadSize(LL) <= Deficit(LL, l)
      /\ \A j \in Nat : start <= j /\ j < l => Deficit(LL, j) < HeadSize(LL)
  BY <1>1, RoundFacts DEF LlRound, LL
<1>5. /\ c \in Nat /\ c >= RoundsToStart /\ HeadSize(CL) <= Deficit(CL, c)
      /\ \A j \in Nat : RoundsToStart <= j /\ j < c => Deficit(CL, j) < HeadSize(CL)
      /\ RoundsToStart \in {0, 1} /\ (RoundsToStart = 1 => CL \notin drr.queues)
  BY <1>1, RoundFacts DEF ClassicRound, CL, RoundsToStart
<1>6. LL \notin drr.queues => Deficit(LL, 0) < HeadSize(LL)
  BY <1>1, <1>2, <1>3 DEF Turns
<1>7. CL \notin drr.queues => Deficit(CL, 0) < HeadSize(CL)
  BY <1>1, <1>2, <1>3 DEF Turns
\* Before its round the head of either queue is not covered.
<1>8. \A j \in Nat : j < l => Deficit(LL, j) < HeadSize(LL)
  BY <1>4, <1>6
<1>9. \A j \in Nat : j < c => Deficit(CL, j) < HeadSize(CL)
  BY <1>5, <1>7
<1> HIDE DEF l, c
<1>10. CASE q = LL
  <2>1. /\ l <= c
        /\ Serve(LL, IF l = 0 THEN drr.queues ELSE Queue, l)
    BY <1>10 DEF SelectBetween, LL, l, c
  <2>2. l >= 1 => l - 1 \in Nat /\ l - 1 < l /\ l - 1 < c
    BY <1>4, <1>5, <2>1
  <2>3. l = 0 => LL \in drr.queues
    BY <1>4
  <2> QED BY <1>1, <1>4, <1>8, <1>9, <1>10, <2>1, <2>2, <2>3 DEF BetweenStep, Serve, LL, CL
<1>11. CASE q = CL
  <2>1. /\ c < l
        /\ Serve(CL, (IF c = 0 THEN drr.queues ELSE Queue) \ {LL}, c)
    BY <1>11 DEF SelectBetween, CL, LL, l, c
  <2>2. c >= 1 => c - 1 \in Nat /\ c - 1 < c
    BY <1>5
  <2> QED BY <1>1, <1>5, <1>8, <1>9, <1>11, <2>1, <2>2 DEF BetweenStep, Serve, LL, CL
<1> QED BY <1>10, <1>11 DEF Queue, CL, LL

\* The step when only q has packets.
AloneStep(q, k) ==
  /\ Backlogged(q) /\ \A o \in Queue \ {q} : ~Backlogged(o)
  /\ k = IF drr.queues = {} THEN 1 ELSE 0
  /\ \/ /\ HeadSize(q) <= Deficit(q, k)
        /\ drr'.queues = IF k = 1 THEN Queue ELSE drr.queues
        /\ drr'.deficit = [o \in Queue |-> Deficit(o, k) - IF o = q THEN HeadSize(q) ELSE 0]
     \/ /\ drr'.queues = (IF k = 1 THEN Queue ELSE drr.queues) \ {q}
        /\ drr'.deficit = [o \in Queue |-> IF o = q THEN 0 ELSE Deficit(o, k)]

\* When one queue waits, the code's choice is such a step.
LEMMA AloneFacts ==
  ASSUME NEW q \in Queue, SelectAlone(q)
  PROVE  \E k \in {0, 1} : AloneStep(q, k)
<1>1. RoundsToStart \in {0, 1} /\ RoundsToStart = (IF drr.queues = {} THEN 1 ELSE 0)
  BY DEF RoundsToStart
<1>2. AloneStep(q, RoundsToStart)
  BY <1>1 DEF AloneStep, SelectAlone, Serve, ServeAnyway
<1> QED BY <1>1, <1>2

\* Only the queue that is served changes its head.
LEMMA OtherHead ==
  ASSUME NEW q \in Queue, NEW o \in Queue, o # q, Take(q), TypeOK
  PROVE  Backlogged(o)' = Backlogged(o) /\ HeadSize(o)' = HeadSize(o)
<1>1. queue'[o] = queue[o]
  BY DEF Take, TypeOK
<1> QED BY <1>1 DEF Backlogged, HeadSize

\* Turns in the next state, by the next deficits, bits and heads.
LEMMA TurnsHold ==
  ASSUME /\ CL \notin drr'.queues => drr'.deficit[CL] = 0
         /\ LL \notin drr'.queues => \/ drr'.deficit[LL] = 0
                                     \/ Backlogged(LL)' /\ drr'.deficit[LL] < HeadSize(LL)'
         /\ LL \in drr'.queues => drr'.deficit[LL] <= Quantum[LL]
         /\ drr'.deficit[CL] < MaxPacket + Quantum[CL]
  PROVE  Turns'
<1>1. Quantum' = Quantum /\ MaxPacket' = MaxPacket
  BY DEF Quantum, LlQuantum, MaxPacket
<1> QED BY <1>1 DEF Turns

\* Choosing between two waiting queues keeps Turns.
LEMMA BetweenKeepsTurns ==
  ASSUME TypeOK, Turns, NEW q \in Queue, NEW k \in Nat, BetweenStep(q, k), Take(q)
  PROVE  Turns'
<1>1. CL \in Queue /\ LL \in Queue /\ CL # LL /\ Backlogged(CL) /\ Backlogged(LL)
  BY DEF BetweenStep, CL, LL, Queue
<1> DEFINE dc == drr.deficit[CL]
           dl == drr.deficit[LL]
           bc == Quantum[CL]
           bl == Quantum[LL]
           kc == k * bc
           kl == k * bl
<1>2. dc \in Nat /\ dl \in Nat /\ bc \in Nat \ {0} /\ bl \in Nat \ {0}
  BY <1>1, DrrTypes
<1>3. /\ kc \in Nat /\ kl \in Nat
      /\ Deficit(CL, k) = dc + kc /\ Deficit(LL, k) = dl + kl
      /\ k = 0 => kc = 0 /\ kl = 0
      /\ k >= 1 => Deficit(CL, k - 1) = dc + kc - bc /\ Deficit(LL, k - 1) = dl + kl - bl
  BY <1>2, MultipleFacts DEF Deficit
<1>4. HeadSize(CL) \in 1..MaxPacket /\ HeadSize(LL) \in 1..MaxPacket /\ MaxPacket \in Nat
  BY <1>1, HeadSizes, PacketSizes
<1>6. CASE q = LL
  <2>1. /\ drr'.deficit[LL] = dl + kl - HeadSize(LL) /\ drr'.deficit[CL] = dc + kc
        /\ drr'.queues = IF k = 0 THEN drr.queues ELSE Queue
        /\ k = 0 => LL \in drr.queues
        /\ k >= 1 => dc + kc - bc < HeadSize(CL) /\ dl + kl - bl < HeadSize(LL)
    <3>1. /\ drr'.deficit[LL] = Deficit(LL, k) - HeadSize(LL)
          /\ drr'.deficit[CL] = Deficit(CL, k) - 0
          /\ drr'.queues = IF k = 0 THEN drr.queues ELSE Queue
          /\ k = 0 => LL \in drr.queues
          /\ k >= 1 => /\ Deficit(CL, k - 1) < HeadSize(CL)
                      /\ Deficit(LL, k - 1) < HeadSize(LL)
      BY <1>1, <1>6 DEF BetweenStep
    <3> HIDE DEF dc, dl, bc, bl, kc, kl
    <3> QED BY <1>2, <1>3, <1>4, <3>1
  <2>2. /\ CL \notin drr.queues => dc = 0
        /\ LL \in drr.queues => dl <= bl
        /\ dc < MaxPacket + bc
    BY DEF Turns
  <2> HIDE DEF dc, dl, bc, bl, kc, kl
  <2>3. CASE k = 0
    <3>1. drr'.queues = drr.queues /\ drr'.deficit[CL] = dc /\ drr'.deficit[LL] <= bl
      BY <1>2, <1>3, <1>4, <2>1, <2>2, <2>3
    <3> QED BY TurnsHold, <2>1, <2>2, <2>3, <3>1 DEF bc, bl, dc
  <2>4. CASE k >= 1
    <3>1. drr'.queues = Queue
      BY <2>1, <2>4
    <3>2. drr'.deficit[CL] < MaxPacket + bc /\ drr'.deficit[LL] <= bl
      BY <1>2, <1>3, <1>4, <2>1, <2>4
    <3> QED BY <1>1, TurnsHold, <3>1, <3>2 DEF bc, bl
  <2> QED BY <2>3, <2>4
<1>7. CASE q = CL
  <2>1. /\ drr'.deficit[CL] = dc + kc - HeadSize(CL) /\ drr'.deficit[LL] = dl + kl
        /\ HeadSize(CL) <= dc + kc
        /\ drr'.queues = (IF k = 0 THEN drr.queues ELSE Queue) \ {LL}
        /\ k >= 1 => dc + kc - bc < HeadSize(CL)
        /\ dl + kl < HeadSize(LL)
    <3>1. /\ drr'.deficit[CL] = Deficit(CL, k) - HeadSize(CL)
          /\ drr'.deficit[LL] = Deficit(LL, k) - 0
          /\ HeadSize(CL) <= Deficit(CL, k)
          /\ drr'.queues = (IF k = 0 THEN drr.queues ELSE Queue) \ {LL}
          /\ k >= 1 => Deficit(CL, k - 1) < HeadSize(CL)
          /\ Deficit(LL, k) < HeadSize(LL)
      BY <1>1, <1>7 DEF BetweenStep
    <3> HIDE DEF dc, dl, bc, bl, kc, kl
    <3> QED BY <1>2, <1>3, <1>4, <3>1
  <2>2. /\ CL \notin drr.queues => dc = 0
        /\ dc < MaxPacket + bc
    BY DEF Turns
  <2>3. Backlogged(LL)' /\ HeadSize(LL)' = HeadSize(LL)
    BY <1>1, <1>7, OtherHead
  <2> HIDE DEF dc, dl, bc, bl, kc, kl
  <2>4. CL \in drr'.queues
    BY <1>1, <1>3, <1>4, <2>1, <2>2
  <2>5. drr'.deficit[CL] < MaxPacket + bc
    BY <1>2, <1>3, <1>4, <2>1, <2>2
  <2>6. drr'.deficit[LL] < HeadSize(LL)' /\ LL \notin drr'.queues
    BY <2>1, <2>3
  <2> QED BY TurnsHold, <2>3, <2>4, <2>5, <2>6 DEF bc, bl
<1> QED BY <1>6, <1>7 DEF Queue, CL, LL

\* Serving a queue that waits alone keeps Turns.
LEMMA AloneKeepsTurns ==
  ASSUME TypeOK, Turns, NEW q \in Queue, NEW k \in {0, 1}, AloneStep(q, k), Take(q)
  PROVE  Turns'
<1>1. CL \in Queue /\ LL \in Queue /\ CL # LL /\ drr.queues \subseteq Queue
  BY DEF CL, LL, Queue, TypeOK
<1> DEFINE dc == drr.deficit[CL]
           dl == drr.deficit[LL]
           bc == Quantum[CL]
           bl == Quantum[LL]
           bits == IF k = 1 THEN Queue ELSE drr.queues
<1>2. dc \in Nat /\ dl \in Nat /\ bc \in Nat \ {0} /\ bl \in Nat \ {0}
  BY <1>1, DrrTypes
<1>3. /\ k = 0 => Deficit(CL, k) = dc /\ Deficit(LL, k) = dl
      /\ k = 1 => Deficit(CL, k) = dc + bc /\ Deficit(LL, k) = dl + bl
  BY <1>2, MultipleFacts DEF Deficit
<1>4. HeadSize(q) \in 1..MaxPacket /\ MaxPacket \in Nat \ {0}
  BY HeadSizes, PacketSizes DEF AloneStep
<1>6. /\ CL \notin drr.queues => dc = 0
      /\ LL \in drr.queues => dl <= bl
      /\ LL \notin drr.queues => \/ dl = 0
                                 \/ Backlogged(LL) /\ dl < HeadSize(LL)
      /\ dc < MaxPacket + bc
      /\ k = 1 <=> drr.queues = {}
  BY DEF Turns, AloneStep
<1>7. \/ /\ HeadSize(q) <= Deficit(q, k)
         /\ drr'.queues = bits
         /\ drr'.deficit = [o \in Queue |-> Deficit(o, k) - IF o = q THEN HeadSize(q) ELSE 0]
      \/ /\ drr'.queues = bits \ {q}
         /\ drr'.deficit = [o \in Queue |-> IF o = q THEN 0 ELSE Deficit(o, k)]
  BY DEF AloneStep
<1>8. CASE q = LL
  <2>1. /\ drr'.deficit[CL] = Deficit(CL, k)
        /\ \/ /\ drr'.queues = bits
              /\ drr'.deficit[LL] = Deficit(LL, k) - HeadSize(LL)
           \/ /\ drr'.queues = bits \ {LL}
              /\ drr'.deficit[LL] = 0
    BY <1>1, <1>2, <1>3, <1>7, <1>8
  <2> HIDE DEF dc, dl, bc, bl
  <2>2. CASE k = 1
    <3>1. drr.queues = {} /\ bits = Queue /\ dc = 0 /\ dl < HeadSize(LL)
      BY <1>2, <1>4, <1>6, <1>8, <2>2
    <3>2. drr'.deficit[CL] = bc /\ CL \in drr'.queues
      BY <1>1, <1>2, <1>3, <2>1, <2>2, <3>1
    <3>3. \/ drr'.deficit[LL] <= bl /\ LL \in drr'.queues
          \/ drr'.deficit[LL] = 0
      BY <1>1, <1>2, <1>3, <1>4, <1>8, <2>1, <2>2, <3>1
    <3> QED BY <1>2, <1>4, TurnsHold, <3>2, <3>3 DEF bc, bl
  <2>3. CASE k = 0
    <3>1. drr'.deficit[CL] = dc /\ (CL \notin drr'.queues => drr'.deficit[CL] = 0)
      BY <1>6, <1>1, <1>3, <2>1, <2>3
    <3>2. \/ drr'.deficit[LL] = 0
          \/ /\ drr'.queues = drr.queues
             /\ drr'.deficit[LL] = dl - HeadSize(LL)
      BY <1>3, <2>1, <2>3
    <3>3. CASE drr'.deficit[LL] = 0
      BY <1>2, TurnsHold, <1>6, <3>1, <3>3 DEF bc, bl, dc
    <3>4. CASE drr'.deficit[LL] # 0
      <4>1. /\ drr'.queues = drr.queues
            /\ drr'.deficit[LL] = dl - HeadSize(LL)
            /\ HeadSize(LL) <= dl
        BY <1>1, <1>3, <1>7, <1>8, <2>3, <3>2, <3>4
      <4>2. LL \in drr.queues
        BY <1>2, <1>4, <1>6, <1>8, <4>1
      <4> QED BY <1>2, <1>4, TurnsHold, <1>6, <1>8, <3>1, <4>1, <4>2 DEF bc, bl, dc
    <3> QED BY <3>3, <3>4
  <2> QED BY <2>2, <2>3
<1>9. CASE q = CL
  <2>1. ~Backlogged(LL)
    BY <1>1, <1>9 DEF AloneStep
  <2>2. /\ drr'.deficit[LL] = Deficit(LL, k)
        /\ \/ /\ drr'.queues = bits /\ HeadSize(CL) <= Deficit(CL, k)
              /\ drr'.deficit[CL] = Deficit(CL, k) - HeadSize(CL)
           \/ /\ drr'.queues = bits \ {CL}
              /\ drr'.deficit[CL] = 0
    BY <1>1, <1>2, <1>3, <1>7, <1>9
  <2> HIDE DEF dc, dl, bc, bl
  <2>3. LL \in drr'.queues <=> LL \in bits
    BY <1>1, <2>2
  <2>4. CASE k = 1
    <3>1. drr.queues = {} /\ bits = Queue /\ dc = 0 /\ dl = 0
      BY <1>6, <2>1, <2>4
    <3>2. drr'.deficit[LL] = bl /\ LL \in drr'.queues
      BY <1>1, <1>2, <1>3, <2>2, <2>3, <2>4, <3>1
    <3>3. /\ CL \notin drr'.queues => drr'.deficit[CL] = 0
          /\ drr'.deficit[CL] < MaxPacket + bc
      BY <1>1, <1>2, <1>3, <1>4, <1>9, <2>2, <2>4, <3>1
    <3> QED BY <1>2, TurnsHold, <3>2, <3>3 DEF bc, bl
  <2>5. CASE k = 0
    <3>1. drr'.deficit[LL] = dl /\ (LL \in drr'.queues <=> LL \in drr.queues)
      BY <1>3, <2>2, <2>3, <2>5
    <3>2. LL \notin drr'.queues => drr'.deficit[LL] = 0
      BY <1>6, <2>1, <3>1
    <3>3. CL \notin drr'.queues => drr'.deficit[CL] = 0
      BY <1>2, <1>3, <1>4, <1>6, <1>9, <2>2, <2>5
    <3>4. drr'.deficit[CL] < MaxPacket + bc
      BY <1>2, <1>3, <1>4, <1>6, <1>9, <2>2, <2>5
    <3> QED BY TurnsHold, <1>6, <3>1, <3>2, <3>3, <3>4 DEF bc, bl, dl
  <2> QED BY <2>4, <2>5
<1> QED BY <1>8, <1>9 DEF Queue, CL, LL

\* The account of a waiting queue.  In the u rounds since it was served last it
\* has saved u quanta, which do not cover its head (for the classic queue: did
\* not before the last of them); the other queue has sent what it had left and
\* u quanta, less what it has left now.
LlOwed ==
  \E u \in Nat :
    /\ u * Quantum[LL] <= drr.deficit[LL] /\ u * Quantum[LL] < MaxPacket
    /\ waited[LL] + drr.deficit[CL] < MaxPacket + Quantum[CL] + u * Quantum[CL]
ClassicOwed ==
  \E u \in Nat :
    /\ u * Quantum[CL] <= drr.deficit[CL]
    /\ u >= 1 => (u - 1) * Quantum[CL] < MaxPacket
    /\ waited[CL] + drr.deficit[LL]
         < Larger(MaxPacket, Quantum[LL] + 1) + u * Quantum[LL]

RoundRobin == Turns /\ RestsAtCm /\ LlOwed /\ ClassicOwed

\* A queue that does not wait has an empty account.
NothingOwedFact ==
  TypeOK /\ Turns => /\ waited[LL] = 0 => LlOwed
                     /\ waited[CL] = 0 => ClassicOwed
\* The account of a queue that does not wait is in balance.
LEMMA NothingOwed == NothingOwedFact
<1> SUFFICES ASSUME TypeOK, Turns
             PROVE  /\ waited[LL] = 0 => LlOwed
                    /\ waited[CL] = 0 => ClassicOwed
  BY DEF NothingOwedFact
<1>1. CL \in Queue /\ LL \in Queue
  BY DEF CL, LL, Queue
<1>2. /\ drr.deficit[CL] \in Nat /\ drr.deficit[LL] \in Nat
      /\ Quantum[CL] \in Nat /\ Quantum[LL] \in Nat /\ MaxPacket \in Nat \ {0}
  BY <1>1, DrrTypes, PacketSizes
<1>3. 0 * Quantum[LL] = 0 /\ 0 * Quantum[CL] = 0 /\ 0 \in Nat
  BY <1>2
<1>4. ASSUME waited[LL] = 0 PROVE LlOwed
  BY <1>2, <1>3, <1>4 DEF LlOwed, Turns
<1>5. ASSUME waited[CL] = 0 PROVE ClassicOwed
  <2>1. drr.deficit[LL] < Larger(MaxPacket, Quantum[LL] + 1)
    <3>1. Backlogged(LL) => HeadSize(LL) \in 1..MaxPacket
      BY <1>1, HeadSizes
    <3> QED BY <1>2, <3>1 DEF Turns, Larger
  <2>2. Larger(MaxPacket, Quantum[LL] + 1) \in Nat
    BY <1>2 DEF Larger
  <2> QED BY <1>2, <1>3, <1>5, <2>1, <2>2 DEF ClassicOwed
<1> QED BY <1>4, <1>5

\* The same after a step.
LEMMA NothingOwedNext ==
  ASSUME TypeOK', Turns'
  PROVE  /\ waited'[LL] = 0 => LlOwed'
         /\ waited'[CL] = 0 => ClassicOwed'
<1>1. NothingOwedFact'
  BY NothingOwed, PTL
<1> QED BY <1>1 DEF NothingOwedFact

\* While the low latency queue waits, the classic one is served.
LEMMA ClassicServed ==
  ASSUME TypeOK, LlOwed, NEW k \in Nat, BetweenStep(CL, k),
         waited'[LL] = waited[LL] + HeadSize(CL)
  PROVE  LlOwed'
<1>1. CL \in Queue /\ LL \in Queue /\ CL # LL /\ Backlogged(CL) /\ Backlogged(LL)
  BY DEF BetweenStep, CL, LL, Queue
<1> DEFINE dc == drr.deficit[CL]
           dl == drr.deficit[LL]
           bc == Quantum[CL]
           bl == Quantum[LL]
           w == waited[LL]
           h == HeadSize(CL)
<1>2. /\ dc \in Nat /\ dl \in Nat /\ bc \in Nat /\ bl \in Nat /\ w \in Nat
      /\ MaxPacket \in Nat /\ h \in Nat /\ HeadSize(LL) \in 1..MaxPacket
  BY <1>1, DrrTypes, HeadSizes, PacketSizes
<1>3. /\ drr'.deficit[CL] = dc + k * bc - h /\ drr'.deficit[LL] = dl + k * bl
      /\ dl + k * bl < HeadSize(LL)
  <2>1. /\ drr'.deficit[CL] = Deficit(CL, k) - HeadSize(CL)
        /\ drr'.deficit[LL] = Deficit(LL, k) - 0
        /\ Deficit(LL, k) < HeadSize(LL)
    BY <1>1 DEF BetweenStep
  <2>2. /\ Deficit(CL, k) = dc + k * bc /\ Deficit(LL, k) = dl + k * bl
        /\ Deficit(LL, k) \in Nat
    BY <1>1, DeficitType
  <2>3. h = HeadSize(CL)
    OBVIOUS
  <2> HIDE DEF dc, dl, bc, bl, h
  <2> QED BY <2>1, <2>2, <2>3, <1>2
<1>4. PICK u \in Nat : /\ u * bl <= dl
                       /\ w + dc < MaxPacket + bc + u * bc
  BY DEF LlOwed
<1>5. Quantum' = Quantum /\ MaxPacket' = MaxPacket /\ waited'[LL] = w + h
  BY DEF Quantum, LlQuantum, MaxPacket
<1> DEFINE v == u + k
<1>6. SUFFICES /\ v \in Nat /\ v * bl <= drr'.deficit[LL] /\ v * bl < MaxPacket
               /\ waited'[LL] + drr'.deficit[CL] < MaxPacket + bc + v * bc
  BY <1>5 DEF LlOwed
<1> HIDE DEF dc, dl, bc, bl, w, h
<1>7. /\ v * bc = u * bc + k * bc /\ v * bl = u * bl + k * bl
      /\ u * bc \in Nat /\ k * bc \in Nat /\ u * bl \in Nat /\ k * bl \in Nat
  BY <1>2, MultipleFacts
<1>8. v \in Nat
  OBVIOUS
<1> HIDE DEF v
<1> QED BY <1>2, <1>3, <1>4, <1>5, <1>7, <1>8

\* While the classic queue waits, the low latency one is served.
LEMMA LowLatencyServed ==
  ASSUME TypeOK, ClassicOwed, NEW k \in Nat, BetweenStep(LL, k),
         waited'[CL] = waited[CL] + HeadSize(LL)
  PROVE  ClassicOwed'
<1>1. CL \in Queue /\ LL \in Queue /\ CL # LL /\ Backlogged(CL) /\ Backlogged(LL)
  BY DEF BetweenStep, CL, LL, Queue
<1> DEFINE dc == drr.deficit[CL]
           dl == drr.deficit[LL]
           bc == Quantum[CL]
           bl == Quantum[LL]
           w == waited[CL]
           h == HeadSize(LL)
           left == Larger(MaxPacket, bl + 1)
<1>2. /\ dc \in Nat /\ dl \in Nat /\ bc \in Nat /\ bl \in Nat /\ w \in Nat
      /\ MaxPacket \in Nat /\ h \in Nat /\ HeadSize(CL) \in 1..MaxPacket
  BY <1>1, DrrTypes, HeadSizes, PacketSizes
<1>3. left \in Nat
  BY <1>2 DEF Larger
<1>4. /\ drr'.deficit[LL] = dl + k * bl - h /\ drr'.deficit[CL] = dc + k * bc
      /\ k >= 1 => dc + (k - 1) * bc < HeadSize(CL)
  <2>1. /\ drr'.deficit[LL] = Deficit(LL, k) - HeadSize(LL)
        /\ drr'.deficit[CL] = Deficit(CL, k) - 0
        /\ k >= 1 => Deficit(CL, k - 1) < HeadSize(CL)
    BY <1>1 DEF BetweenStep
  <2>2. /\ Deficit(LL, k) = dl + k * bl /\ Deficit(CL, k) = dc + k * bc
        /\ Deficit(CL, k) \in Nat /\ Deficit(CL, k - 1) = dc + (k - 1) * bc
    BY <1>1, DeficitType DEF Deficit
  <2>3. h = HeadSize(LL)
    OBVIOUS
  <2> HIDE DEF dc, dl, bc, bl, h
  <2> QED BY <2>1, <2>2, <2>3, <1>2
<1>5. PICK u \in Nat : /\ u * bc <= dc
                       /\ u >= 1 => (u - 1) * bc < MaxPacket
                       /\ w + dl < left + u * bl
  BY DEF ClassicOwed
<1>6. Quantum' = Quantum /\ MaxPacket' = MaxPacket /\ waited'[CL] = w + h
  BY DEF Quantum, LlQuantum, MaxPacket
<1> DEFINE v == u + k
<1>7. SUFFICES /\ v \in Nat /\ v * bc <= drr'.deficit[CL]
               /\ v >= 1 => (v - 1) * bc < MaxPacket
               /\ waited'[CL] + drr'.deficit[LL] < left + v * bl
  BY <1>6 DEF ClassicOwed, Larger
<1> HIDE DEF dc, dl, bc, bl, w, h, left
<1>8. /\ v * bc = u * bc + k * bc /\ v * bl = u * bl + k * bl
      /\ u * bc \in Nat /\ k * bc \in Nat /\ u * bl \in Nat /\ k * bl \in Nat
      /\ k = 0 => k * bc = 0 /\ k * bl = 0
  BY <1>2, MultipleFacts
<1>9. v >= 1 => (v - 1) * bc < MaxPacket
  <2>1. CASE k = 0
    BY <1>5, <2>1
  <2>2. CASE k >= 1
    <3>1. k - 1 \in Nat /\ v - 1 = u + (k - 1)
      BY <2>2
    <3>2. (u + (k - 1)) * bc = u * bc + (k - 1) * bc /\ (k - 1) * bc \in Nat
      BY <1>2, <3>1, MultipleFacts
    <3> HIDE DEF v
    <3> QED BY <1>2, <1>4, <1>5, <1>8, <2>2, <3>1, <3>2
  <2> QED BY <2>1, <2>2
<1>10. v \in Nat
  OBVIOUS
<1> HIDE DEF v
<1>11. v * bc <= drr'.deficit[CL]
  BY <1>2, <1>4, <1>5, <1>8
<1>12. waited'[CL] + drr'.deficit[LL] < left + v * bl
  BY <1>2, <1>3, <1>4, <1>5, <1>6, <1>8
<1> QED BY <1>9, <1>10, <1>11, <1>12

\* A dequeue of the CMTS keeps the invariant of the round robin.
LEMMA DequeueKeepsRoundRobin ==
  ASSUME TypeOK, TypeOK', RoundRobin, NEW q \in Queue, Dequeue(q)
  PROVE  RoundRobin'
<1>1. /\ side = "cmts" /\ side' = side /\ Select(q) /\ Take(q)
      /\ waited' = [o \in Queue |-> IF o = q \/ ~Backlogged(o) THEN 0
                                    ELSE waited[o] + HeadSize(q)]
  BY DEF Dequeue
<1>2. RestsAtCm'
  BY <1>1 DEF RestsAtCm
<1>3. CL \in Queue /\ LL \in Queue /\ CL # LL
  BY DEF CL, LL, Queue
<1>4. CASE SelectAlone(q)
  <2>1. PICK k \in {0, 1} : AloneStep(q, k)
    BY <1>4, AloneFacts
  <2>2. Turns'
    BY <1>1, <2>1, AloneKeepsTurns DEF RoundRobin
  <2>3. waited'[LL] = 0 /\ waited'[CL] = 0
    BY <1>1, <1>3, <2>1 DEF AloneStep
  <2>4. LlOwed' /\ ClassicOwed'
    BY <2>2, <2>3, NothingOwedNext
  <2> QED BY <1>2, <2>2, <2>4 DEF RoundRobin
<1>5. CASE SelectBetween(q)
  <2>1. PICK k \in Nat : BetweenStep(q, k)
    BY <1>5, BetweenFacts DEF RoundRobin
  <2>2. Turns'
    BY <1>1, <2>1, BetweenKeepsTurns DEF RoundRobin
  <2>3. CASE q = LL
    <3>1. waited'[LL] = 0 /\ waited'[CL] = waited[CL] + HeadSize(LL)
      BY <1>1, <1>3, <2>1, <2>3 DEF BetweenStep
    <3>2. ClassicOwed'
      BY <2>1, <2>3, <3>1, LowLatencyServed DEF RoundRobin
    <3>3. LlOwed'
      BY <2>2, <3>1, NothingOwedNext
    <3> QED BY <1>2, <2>2, <3>2, <3>3 DEF RoundRobin
  <2>4. CASE q = CL
    <3>1. waited'[CL] = 0 /\ waited'[LL] = waited[LL] + HeadSize(CL)
      BY <1>1, <1>3, <2>1, <2>4 DEF BetweenStep
    <3>2. LlOwed'
      BY <2>1, <2>4, <3>1, ClassicServed DEF RoundRobin
    <3>3. ClassicOwed'
      BY <2>2, <3>1, NothingOwedNext
    <3> QED BY <1>2, <2>2, <3>2, <3>3 DEF RoundRobin
  <2> QED BY <2>3, <2>4 DEF Queue, CL, LL
<1> QED BY <1>1, <1>4, <1>5 DEF Select

\* Arrivals and the modem's dequeues change what is queued only.
LEMMA OwedStays ==
  ASSUME RoundRobin, UNCHANGED <<side, scheduler>>, Turns'
  PROVE  RoundRobin'
<1>1. drr' = drr /\ waited' = waited /\ side' = side
  BY DEF scheduler
<1>2. Quantum' = Quantum /\ MaxPacket' = MaxPacket
  BY DEF Quantum, LlQuantum, MaxPacket
<1>3. RestsAtCm'
  BY <1>1 DEF RoundRobin, RestsAtCm
<1>4. LlOwed'
  BY <1>1, <1>2 DEF RoundRobin, LlOwed
<1>5. ClassicOwed'
  BY <1>1, <1>2 DEF RoundRobin, ClassicOwed, Larger
<1> QED BY <1>3, <1>4, <1>5 DEF RoundRobin

\* A packet that joins a queue is its head only if the queue was empty.
LEMMA ArrivalKeepsTurns ==
  ASSUME TypeOK, Turns, NEW p \in PduSizes, UNCHANGED drr,
         UNCHANGED queue \/ \E q \in Queue : Put(q, p)
  PROVE  Turns'
<1>1. Backlogged(LL) => Backlogged(LL)' /\ HeadSize(LL)' = HeadSize(LL)
  <2>1. queue[LL] \in Seq(PduSizes) /\ LL \in Queue
    BY DEF TypeOK, LL, Queue
  <2>2. CASE queue'[LL] = queue[LL]
    BY <2>2 DEF Backlogged, HeadSize
  <2>3. CASE queue'[LL] = Append(queue[LL], p)
    <3>1. Append(queue[LL], p) # <<>>
      BY <2>1
    <3>2. queue[LL] # <<>> => Head(Append(queue[LL], p)) = Head(queue[LL])
      BY <2>1
    <3> QED BY <2>3, <3>1, <3>2 DEF Backlogged, HeadSize
  <2>4. queue'[LL] = queue[LL] \/ queue'[LL] = Append(queue[LL], p)
    BY <2>1 DEF Put, TypeOK
  <2> QED BY <2>2, <2>3, <2>4
<1> QED BY <1>1, TurnsHold DEF Turns

\* Every step keeps the invariant of the round robin.
LEMMA StepKeepsRoundRobin ==
  TypeOK /\ TypeOK' /\ RoundRobin /\ [Next]_vars => RoundRobin'
<1> SUFFICES ASSUME TypeOK, TypeOK', RoundRobin, [Next]_vars PROVE RoundRobin'
  OBVIOUS
<1> USE DEF queues
<1>1. Turns
  BY DEF RoundRobin
<1>2. ASSUME NEW p \in PduSizes,
             EnqueueClassic(p) \/ EnqueueSanctioned(p) \/ EnqueueLowLatency(p)
      PROVE  RoundRobin'
  <2>1. UNCHANGED <<side, scheduler>>
    BY <1>2 DEF EnqueueClassic, EnqueueSanctioned, EnqueueLowLatency
  <2>2. UNCHANGED queue \/ \E q \in Queue : Put(q, p)
    BY <1>2 DEF EnqueueClassic, EnqueueSanctioned, EnqueueLowLatency, ClassicEnqueue, Queue
  <2>3. Turns'
    BY <1>1, <2>1, <2>2, ArrivalKeepsTurns DEF scheduler
  <2> QED BY <2>1, <2>3, OwedStays
<1>3. ASSUME NEW q \in Queue, Dequeue(q)
      PROVE  RoundRobin'
  BY <1>3, DequeueKeepsRoundRobin
<1>4. ASSUME NEW q \in Queue, DequeueForGrant(q)
      PROVE  RoundRobin'
  <2>1. UNCHANGED <<side, scheduler>> /\ side = "cm"
    BY <1>4 DEF DequeueForGrant
  <2>2. drr' = drr /\ drr.deficit[LL] = 0
    BY <2>1 DEF scheduler, RoundRobin, RestsAtCm
  <2>3. 0 <= Quantum[LL]
    BY QuantumType DEF LL
  <2>4. Turns'
    BY <1>1, <2>2, <2>3, TurnsHold DEF Turns
  <2> QED BY <2>1, <2>4, OwedStays
<1>5. CASE \/ \E rate \in ClassicRates : CalculateDropProb(rate)
           \/ \E d \in Intervals : AdvanceTime(d)
           \/ \E staged \in StagedBytes, allowedAq \in AllowedAqs :
                 AlignVq(staged, allowedAq)
           \/ UNCHANGED vars
  <2>1. UNCHANGED <<side, scheduler, queue>>
    BY <1>5 DEF CalculateDropProb, AdvanceTime, AlignVq, vars
  <2>2. drr' = drr /\ Backlogged(LL)' = Backlogged(LL) /\ HeadSize(LL)' = HeadSize(LL)
    BY <2>1 DEF scheduler, Backlogged, HeadSize
  <2>3. Turns'
    BY <1>1, <2>2, TurnsHold DEF Turns
  <2> QED BY <2>1, <2>3, OwedStays
<1> QED BY <1>2, <1>3, <1>4, <1>5 DEF Next

\* At the start nothing is owed.
LEMMA InitRoundRobin == Init => RoundRobin
<1> SUFFICES ASSUME Init PROVE RoundRobin
  OBVIOUS
<1>1. TypeOK
  BY InitTypes
<1>2. CL \in Queue /\ LL \in Queue
  BY DEF CL, LL, Queue
<1>3. drr.queues = {} /\ drr.deficit[CL] = 0 /\ drr.deficit[LL] = 0
      /\ \A q \in Queue : waited[q] = 0
  BY <1>2 DEF Init
<1>4. Turns
  BY <1>3, QuantumType, PacketSizes DEF Turns, CL, LL
<1>5. RestsAtCm
  BY <1>3 DEF RestsAtCm
<1> QED BY <1>1, <1>2, <1>3, <1>4, <1>5, NothingOwed DEF RoundRobin, NothingOwedFact

\* The invariant of the round robin holds throughout.
LEMMA RoundRobinAlways == Spec => [](TypeOK /\ RoundRobin)
<1>1. TypeOK /\ RoundRobin /\ [Next]_vars => TypeOK' /\ RoundRobin'
  BY StepKeepsTypes, StepKeepsRoundRobin
<1> QED BY InitTypes, InitRoundRobin, <1>1, PTL DEF Spec

\* No queue saves up more than a packet less a byte and a quantum.
THEOREM DeficitsStaySmall == Spec => []DeficitIsSmall
<1>1. TypeOK /\ RoundRobin => DeficitIsSmall
  <2> SUFFICES ASSUME TypeOK, RoundRobin PROVE DeficitIsSmall
    OBVIOUS
  <2>1. CL \in Queue /\ LL \in Queue /\ Queue = {CL, LL}
    BY DEF CL, LL, Queue
  <2>2. /\ drr.deficit[LL] \in Nat /\ Quantum[LL] \in Nat \ {0} /\ MaxPacket \in Nat \ {0}
    BY <2>1, DrrTypes, PacketSizes
  <2>3. Backlogged(LL) => HeadSize(LL) \in 1..MaxPacket
    BY <2>1, HeadSizes
  <2>4. drr.deficit[LL] < MaxPacket + Quantum[LL]
    BY <2>2, <2>3 DEF RoundRobin, Turns
  <2>5. drr.deficit[CL] < MaxPacket + Quantum[CL]
    BY DEF RoundRobin, Turns
  <2> QED BY <2>1, <2>4, <2>5 DEF DeficitIsSmall
<1> QED BY <1>1, RoundRobinAlways, PTL

\* A product below m has a factor below m rounded up in units of b.
LEMMA FewerRounds ==
  ASSUME NEW m \in Nat, NEW b \in Nat \ {0}, NEW u \in Nat, u * b < m
  PROVE  u + 1 <= CeilDiv(m, b)
<1> DEFINE c == CeilDiv(m, b)
<1>1. c \in Nat /\ c * b >= m
  BY CeilDivFacts
<1> HIDE DEF c
<1>2. c <= u => c * b <= u * b
  BY <1>1, MultipleMonotone
<1>3. c * b \in Nat /\ u * b \in Nat
  BY <1>1
<1>4. ~(c <= u)
  BY <1>1, <1>2, <1>3
<1> QED BY <1>1, <1>4 DEF c

\* Neither queue starves, whatever packets, quantum and weight.
THEOREM NeitherStarves == Spec => []NeitherQueueStarves
<1>1. TypeOK /\ RoundRobin => NeitherQueueStarves
  <2> SUFFICES ASSUME TypeOK, RoundRobin PROVE NeitherQueueStarves
    OBVIOUS
  <2>1. CL \in Queue /\ LL \in Queue /\ Queue = {CL, LL} /\ CL # LL
    BY DEF CL, LL, Queue
  <2>2. Other(CL) = LL /\ Other(LL) = CL
    BY <2>1 DEF Other
  <2> DEFINE dc == drr.deficit[CL]
             dl == drr.deficit[LL]
             bc == Quantum[CL]
             bl == Quantum[LL]
             roundsC == CeilDiv(MaxPacket, bc)
             roundsL == CeilDiv(MaxPacket, bl)
  <2>3. /\ dc \in Nat /\ dl \in Nat /\ bc \in Nat \ {0} /\ bl \in Nat \ {0}
        /\ waited[CL] \in Nat /\ waited[LL] \in Nat /\ MaxPacket \in Nat \ {0}
    BY <2>1, DrrTypes, PacketSizes
  <2>4. roundsC \in Nat /\ roundsL \in Nat /\ roundsC >= 1
    <3>1. 0 * bc = 0 /\ 0 * bc < MaxPacket
      BY <2>3
    <3>2. 0 + 1 <= roundsC
      BY <2>3, <3>1, FewerRounds
    <3>3. roundsC \in Nat /\ roundsL \in Nat
      BY <2>3, CeilDivFacts
    <3> HIDE DEF roundsC, roundsL
    <3> QED BY <3>2, <3>3
  <2>5. waited[LL] < Larger(MaxPacket, bc + 1) + roundsL * bc
    <3>1. PICK u \in Nat : /\ u * bl < MaxPacket
                           /\ waited[LL] + dc < MaxPacket + bc + u * bc
      BY DEF RoundRobin, LlOwed
    <3> HIDE DEF dc, dl, bc, bl
    <3>2. u + 1 <= roundsL /\ u + 1 \in Nat
      BY <2>3, <3>1, FewerRounds
    <3> HIDE DEF roundsC, roundsL
    <3>3. (u + 1) * bc <= roundsL * bc
      BY <2>3, <2>4, <3>2, MultipleMonotone
    <3>4. (u + 1) * bc = u * bc + bc /\ u * bc \in Nat /\ roundsL * bc \in Nat
      BY <2>3, <2>4
    <3> QED BY <2>3, <3>1, <3>3, <3>4 DEF Larger
  <2>6. waited[CL] < Larger(MaxPacket, bl + 1) + roundsC * bl
    <3>1. PICK u \in Nat : /\ u >= 1 => (u - 1) * bc < MaxPacket
                           /\ waited[CL] + dl < Larger(MaxPacket, bl + 1) + u * bl
      BY DEF RoundRobin, ClassicOwed
    <3> HIDE DEF dc, dl, bc, bl
    <3>2. u <= roundsC
      <4>1. CASE u = 0
        BY <2>4, <4>1
      <4>2. CASE u >= 1
        <5>1. u - 1 \in Nat /\ (u - 1) * bc < MaxPacket
          BY <3>1, <4>2
        <5>2. (u - 1) + 1 <= roundsC
          BY <2>3, <5>1, FewerRounds
        <5> QED BY <5>2
      <4> QED BY <4>1, <4>2
    <3> HIDE DEF roundsC, roundsL
    <3>3. u * bl <= roundsC * bl
      BY <2>3, <2>4, <3>2, MultipleMonotone
    <3>4. u * bl \in Nat /\ roundsC * bl \in Nat
      BY <2>3, <2>4
    <3> QED BY <2>3, <3>1, <3>3, <3>4 DEF Larger
  <2> QED BY <2>1, <2>2, <2>5, <2>6 DEF NeitherQueueStarves
<1> QED BY <1>1, RoundRobinAlways, PTL

-----------------------------------------------------------------------------
(* Queue protection: buckets isolate flows, for any number of flows,       *)
(* buckets and attempts.                                                   *)

\* Attempts, like every set of naturals, have a first one.
LEMMA FirstExists ==
  ASSUME NEW attempts \in SUBSET Nat, attempts # {}
  PROVE  First(attempts) \in attempts
<1> DEFINE Below == {pair \in Nat \X Nat : pair[1] < pair[2]}
<1>1. IsWellFoundedOn(Below, Nat)
  BY NatLessThanWellFounded DEF OpToRel
<1>2. PICK j \in attempts : \A k \in attempts : <<k, j>> \notin Below
  <2> HIDE DEF Below
  <2> QED BY <1>1, WFMin
<1>3. ASSUME NEW k \in attempts PROVE j <= k
  <2>1. j \in Nat /\ k \in Nat
    OBVIOUS
  <2>2. <<k, j>> \in Nat \X Nat /\ <<k, j>>[1] = k /\ <<k, j>>[2] = j
    BY <2>1
  <2>3. ~ (k < j)
    BY <1>2, <2>2
  <2> QED BY <2>1, <2>3
<1> QED BY <1>3 DEF First

\* What draining and filling a bucket make of its score.
LEMMA ArithmeticFacts ==
  ASSUME NEW a \in Nat, NEW b \in Nat
  PROVE  /\ LeftAfter(a, b) \in Nat /\ LeftAfter(a, b) <= a
         /\ Filled(a, b) \in 0..MaxQlScore
         /\ a <= MaxQlScore => a <= Filled(a, b)
BY ScoreAssumption DEF LeftAfter, Filled, AtMost

\* Filling and draining keep the order of two scores.
LEMMA OrderIsKept ==
  ASSUME NEW a \in Nat, NEW b \in Nat, NEW n \in Nat, a <= b
  PROVE  Filled(a, n) <= Filled(b, n) /\ LeftAfter(a, n) <= LeftAfter(b, n)
BY ScoreAssumption DEF Filled, AtMost, LeftAfter

\* Whoever is sanctioned would be with a higher score, too.
LEMMA HigherIsSanctioned ==
  ASSUME NEW delay \in Nat, NEW a \in Nat, NEW b \in Nat, a <= b, Sanctions(delay, a)
  PROVE  Sanctions(delay, b)
<1>1. delay * a <= delay * b
  <2>1. delay * b = delay * a + delay * (b - a)
    BY Z3
  <2>2. delay * (b - a) \in Nat
    BY Z3
  <2>3. delay * a \in Nat
    BY Z3
  <2> QED BY <2>1, <2>2, <2>3
<1>2. delay * a \in Nat /\ delay * b \in Nat /\ CriticalQlScore * CriticalQl \in Nat
  BY ScoreAssumption, Z3
<1> QED BY <1>1, <1>2 DEF Sanctions

\* A dedicated bucket is owned by a flow that hashes to it.
Hashed ==
  \A b \in Dedicated : owner[b] \in Flows =>
    \E j \in DOMAIN Attempted[owner[b]] : Attempted[owner[b]][j] = b

Unowned(f) == \A c \in Dedicated : owner[c] # f

\* The bucket of a packet: its flow's own, or, if it has none, an expired one
\* or the default bucket.
LEMMA PickBucketFacts ==
  ASSUME ProtectionTypeOK, Hashed, NEW f \in Flows
  PROVE  /\ PickBucket(f) \in Buckets
         /\ PickBucket(f) \in Dedicated =>
              \E j \in DOMAIN Attempted[f] : Attempted[f][j] = PickBucket(f)
         /\ \/ Owns(f, PickBucket(f))
            \/ PickBucket(f) \in Dedicated /\ score[PickBucket(f)] = 0 /\ Unowned(f)
            \/ PickBucket(f) = Default /\ Unowned(f)
<1>1. /\ DOMAIN Attempted[f] \in SUBSET Nat
      /\ \A j \in DOMAIN Attempted[f] : Attempted[f][j] \in Dedicated
  BY AttemptedAssumption
<1>2. CASE OwnedAttempts(f) # {}
  <2>1. First(OwnedAttempts(f)) \in OwnedAttempts(f)
    BY <1>1, <1>2, FirstExists DEF OwnedAttempts
  <2> QED BY <1>1, <1>2, <2>1 DEF PickBucket, OwnedAttempts, Owns, Buckets
<1>3. CASE OwnedAttempts(f) = {}
  <2>1. Unowned(f)
    BY <1>3 DEF Unowned, Hashed, OwnedAttempts
  <2>2. CASE ExpiredAttempts(f) # {}
    <3>1. First(ExpiredAttempts(f)) \in ExpiredAttempts(f)
      BY <1>1, <2>2, FirstExists DEF ExpiredAttempts
    <3> QED BY <1>1, <1>3, <2>1, <2>2, <3>1 DEF PickBucket, ExpiredAttempts, Buckets
  <2>3. CASE ExpiredAttempts(f) = {}
    BY <1>3, <2>1, <2>3, FlowAssumption DEF PickBucket, Buckets
  <2> QED BY <2>2, <2>3
<1> QED BY <1>2, <1>3

\* Isolation as one inductive invariant.
Isolation ==
  /\ ProtectionTypeOK /\ Hashed
  /\ OneBucketPerFlow /\ NotBlamedForOthers /\ ScoreIsKept
  /\ SanctionIsEarned

\* With empty buckets nobody is blamed.
LEMMA IsolationInit == ProtectionInit => Isolation
<1> SUFFICES ASSUME ProtectionInit PROVE Isolation
  OBVIOUS
<1> USE DEF ProtectionInit
<1>1. ProtectionTypeOK
  BY ScoreAssumption DEF ProtectionTypeOK, NoOutcome, Buckets
<1>2. Hashed /\ OneBucketPerFlow /\ NotBlamedForOthers
  BY FlowAssumption DEF Hashed, OneBucketPerFlow, NotBlamedForOthers, Owns, Buckets
<1>3. ScoreIsKept /\ SanctionIsEarned
  BY DEF ScoreIsKept, SanctionIsEarned, NoOutcome
<1> QED BY <1>1, <1>2, <1>3 DEF Isolation

\* Draining keeps isolation: all scores drain alike.
LEMMA DrainKeepsIsolation ==
  ASSUME Isolation, NEW d \in Pauses, Drain(d)
  PROVE  Isolation'
<1> USE DEF Isolation
<1>1. d \in Nat
  BY ScoreAssumption
<1>2. /\ \A b \in Buckets : score[b] \in Nat /\ score'[b] = LeftAfter(score[b], d)
      /\ \A f \in Flows : ownScore[f] \in Nat /\ ownScore'[f] = LeftAfter(ownScore[f], d)
      /\ owner' = owner
      /\ \A b \in Dedicated : b \in Buckets
  BY ScoreAssumption DEF Drain, ProtectionTypeOK, Buckets
<1>3. ProtectionTypeOK'
  <2>1. /\ \A b \in Buckets : LeftAfter(score[b], d) \in 0..MaxQlScore
        /\ \A f \in Flows : LeftAfter(ownScore[f], d) \in 0..MaxQlScore
    BY <1>1, ScoreAssumption DEF ProtectionTypeOK, LeftAfter
  <2> QED BY <2>1 DEF Drain, ProtectionTypeOK, NoOutcome, Buckets
<1>4. Hashed' /\ OneBucketPerFlow'
  BY <1>2 DEF Hashed, OneBucketPerFlow, Owns
<1>5. NotBlamedForOthers'
  BY <1>1, <1>2, OrderIsKept DEF NotBlamedForOthers, Owns
<1>6. ScoreIsKept'
  <2> SUFFICES ASSUME NEW f \in Flows, f \notin spilled', ownScore'[f] > 0
               PROVE  \E b \in Dedicated : (Owns(f, b) /\ score[b] = ownScore[f])'
    BY DEF ScoreIsKept
  <2>1. ownScore[f] > d
    BY <1>1, <1>2 DEF LeftAfter
  <2>2. f \notin spilled
    BY <2>1 DEF Drain
  <2>3. PICK b \in Dedicated : Owns(f, b) /\ score[b] = ownScore[f]
    BY <1>1, <1>2, <2>1, <2>2 DEF ScoreIsKept
  <2> QED BY <1>2, <2>3 DEF Owns
<1>7. SanctionIsEarned'
  BY DEF Drain, SanctionIsEarned, NoOutcome
<1> QED BY <1>3, <1>4, <1>5, <1>6, <1>7

\* A packet changes only the bucket that is picked, and the score of its flow.
LEMMA PacketEffect ==
  ASSUME Isolation, NEW f \in Flows, NEW added \in CongestionScores,
         NEW delay \in QueueDelays, QueueProtect(f, added, delay)
  PROVE  /\ owner' \in [Buckets -> Flows \cup {NoFlow}]
         /\ owner'[PickBucket(f)] = f
         /\ score'[PickBucket(f)] = Filled(score[PickBucket(f)], added)
         /\ \A b \in Buckets : b # PickBucket(f) => owner'[b] = owner[b] /\ score'[b] = score[b]
         /\ ownScore'[f] = Filled(ownScore[f], added)
         /\ \A g \in Flows : g # f => ownScore'[g] = ownScore[g]
         /\ ProtectionTypeOK'
<1> DEFINE b == PickBucket(f)
<1>1. b \in Buckets
  BY PickBucketFacts DEF Isolation
<1> HIDE DEF b
<1>2. added \in Nat /\ delay \in Nat
  BY ScoreAssumption
<1>3. Filled(score[b], added) \in 0..MaxQlScore /\ Filled(ownScore[f], added) \in 0..MaxQlScore
  <2>1. score[b] \in Nat /\ ownScore[f] \in Nat
    BY <1>1, ScoreAssumption DEF Isolation, ProtectionTypeOK
  <2> QED BY <1>2, <2>1, ArithmeticFacts
<1>4. /\ owner' = [owner EXCEPT ![b] = f]
      /\ score' = [score EXCEPT ![b] = Filled(score[b], added)]
      /\ ownScore' = [ownScore EXCEPT ![f] = Filled(ownScore[f], added)]
      /\ outcome' = [flow |-> f, bucket |-> b, delay |-> delay,
                     sanctioned |-> Sanctions(delay, Filled(score[b], added))]
      /\ spilled' \subseteq spilled \cup {f}
  BY DEF QueueProtect, b
<1>5. Sanctions(delay, Filled(score[b], added)) \in BOOLEAN
  BY DEF Sanctions
<1>6. ProtectionTypeOK'
  BY <1>1, <1>3, <1>4, <1>5 DEF Isolation, ProtectionTypeOK
<1>7. /\ owner' \in [Buckets -> Flows \cup {NoFlow}]
      /\ owner'[b] = f
      /\ score'[b] = Filled(score[b], added)
      /\ \A c \in Buckets : c # b => owner'[c] = owner[c] /\ score'[c] = score[c]
      /\ ownScore'[f] = Filled(ownScore[f], added)
      /\ \A g \in Flows : g # f => ownScore'[g] = ownScore[g]
  BY <1>1, <1>4 DEF Isolation, ProtectionTypeOK
<1> QED BY <1>6, <1>7 DEF b

\* Where the flow of a packet owns buckets afterwards: only where it was picked.
LEMMA PickedIsOnly ==
  ASSUME Isolation, NEW f \in Flows, NEW added \in CongestionScores,
         NEW delay \in QueueDelays, QueueProtect(f, added, delay),
         NEW c \in Dedicated, Owns(f, c)'
  PROVE  c = PickBucket(f)
<1>1. \/ Owns(f, PickBucket(f))
      \/ Unowned(f)
  BY PickBucketFacts DEF Isolation
<1>2. c # PickBucket(f) => owner[c] = f
  BY PacketEffect DEF Owns, Buckets
<1>3. CASE Owns(f, PickBucket(f))
  BY <1>2, <1>3 DEF Isolation, OneBucketPerFlow, Owns
<1>4. CASE Unowned(f)
  BY <1>2, <1>4 DEF Unowned
<1> QED BY <1>1, <1>3, <1>4

\* A packet keeps isolation: its flow's bucket is its own, or was empty.
LEMMA PacketKeepsIsolation ==
  ASSUME Isolation, NEW f \in Flows, NEW added \in CongestionScores,
         NEW delay \in QueueDelays, QueueProtect(f, added, delay)
  PROVE  Isolation'
<1> DEFINE b == PickBucket(f)
<1>1. /\ ProtectionTypeOK'
      /\ owner'[b] = f
      /\ score'[b] = Filled(score[b], added)
      /\ \A c \in Buckets : c # b => owner'[c] = owner[c] /\ score'[c] = score[c]
      /\ ownScore'[f] = Filled(ownScore[f], added)
      /\ \A g \in Flows : g # f => ownScore'[g] = ownScore[g]
  BY PacketEffect
<1>2. /\ b \in Buckets
      /\ b \in Dedicated => \E j \in DOMAIN Attempted[f] : Attempted[f][j] = b
      /\ \/ Owns(f, b)
         \/ b \in Dedicated /\ score[b] = 0 /\ Unowned(f)
         \/ b = Default /\ Unowned(f)
  BY PickBucketFacts DEF Isolation
<1>3. \A c \in Dedicated : Owns(f, c)' => c = b
  BY PickedIsOnly
<1> HIDE DEF b
<1>4. added \in Nat /\ score[b] \in Nat /\ ownScore[f] \in Nat
  BY <1>2, ScoreAssumption DEF Isolation, ProtectionTypeOK
<1>5. \A c \in Dedicated : c \in Buckets /\ c # Default
  BY FlowAssumption DEF Buckets
<1>6. b \in Dedicated => score[b] <= ownScore[f]
  <2>1. Owns(f, b) => score[b] <= ownScore[f]
    BY DEF Isolation, NotBlamedForOthers, Owns
  <2> QED BY <1>2, <1>4, <1>5, <2>1
<1>7. b \in Dedicated => score'[b] <= ownScore'[f]
  BY <1>1, <1>4, <1>6, OrderIsKept
<1>8. Hashed'
  BY <1>1, <1>2, <1>5 DEF Isolation, Hashed
<1>9. OneBucketPerFlow'
  <2> SUFFICES ASSUME NEW g \in Flows, NEW c \in Dedicated, NEW e \in Dedicated,
                      Owns(g, c)', Owns(g, e)'
               PROVE  c = e
    BY DEF OneBucketPerFlow
  <2>1. CASE g = f
    BY <1>3, <2>1
  <2>2. CASE g # f
    <3>1. owner[c] = g /\ owner[e] = g
      BY <1>1, <1>5, <2>2 DEF Owns
    <3> QED BY <3>1 DEF Isolation, OneBucketPerFlow, Owns
  <2> QED BY <2>1, <2>2
<1>10. NotBlamedForOthers'
  <2> SUFFICES ASSUME NEW g \in Flows, NEW c \in Dedicated, Owns(g, c)'
               PROVE  score'[c] <= ownScore'[g]
    BY DEF NotBlamedForOthers
  <2>1. CASE c = b
    BY <1>1, <1>7, <2>1 DEF Owns
  <2>2. CASE c # b
    <3>1. g # f
      BY <1>3, <2>2
    <3>2. owner[c] = g /\ score'[c] = score[c] /\ ownScore'[g] = ownScore[g]
      BY <1>1, <1>5, <2>2, <3>1 DEF Owns
    <3> QED BY <3>2 DEF Isolation, NotBlamedForOthers, Owns
  <2> QED BY <2>1, <2>2
<1>11. ScoreIsKept'
  <2> SUFFICES ASSUME NEW g \in Flows, g \notin spilled', ownScore'[g] > 0
               PROVE  \E c \in Dedicated : (Owns(g, c) /\ score[c] = ownScore[g])'
    BY DEF ScoreIsKept
  <2>1. g \notin spilled
    BY DEF QueueProtect
  <2>2. CASE g # f
    <3>1. PICK c \in Dedicated : Owns(g, c) /\ score[c] = ownScore[g]
      BY <1>1, <2>1, <2>2 DEF Isolation, ScoreIsKept
    <3>2. score[c] > 0
      BY <1>1, <2>2, <3>1
    <3>3. c # b
      BY <1>2, <1>5, <2>2, <3>1, <3>2 DEF Owns
    <3> QED BY <1>1, <1>5, <2>2, <3>1, <3>3 DEF Owns
  <2>3. CASE g = f
    <3>1. b # Default
      BY <2>3, <1>1 DEF QueueProtect, b
    <3>2. b \in Dedicated
      BY <1>2, <3>1 DEF Buckets
    <3>3. score[b] = ownScore[f]
      <4>1. CASE ownScore[f] > 0
        <5>1. PICK c \in Dedicated : Owns(f, c) /\ score[c] = ownScore[f]
          BY <2>1, <2>3, <4>1 DEF Isolation, ScoreIsKept
        <5>2. Owns(f, b)
          BY <1>2, <3>1, <5>1 DEF Unowned, Owns
        <5> QED BY <5>1, <5>2 DEF Isolation, OneBucketPerFlow, Owns
      <4>2. CASE ~ (ownScore[f] > 0)
        BY <1>4, <1>6, <3>2, <4>2
      <4> QED BY <4>1, <4>2
    <3> QED BY <1>1, <2>3, <3>2, <3>3 DEF Owns
  <2> QED BY <2>2, <2>3
<1>12. SanctionIsEarned'
  <2> SUFFICES ASSUME outcome'.sanctioned, outcome'.bucket # Default
               PROVE  Sanctions(outcome'.delay, ownScore'[outcome'.flow])
    BY DEF SanctionIsEarned, Sanctions
  <2>1. /\ outcome'.flow = f /\ outcome'.bucket = b /\ outcome'.delay = delay
        /\ outcome'.sanctioned = Sanctions(delay, Filled(score[b], added))
    BY DEF QueueProtect, b
  <2>2. b \in Dedicated
    BY <1>2, <2>1 DEF Buckets
  <2>3. score'[b] \in Nat /\ ownScore'[f] \in Nat /\ delay \in Nat
    <3>1. Filled(score[b], added) \in 0..MaxQlScore /\ Filled(ownScore[f], added) \in 0..MaxQlScore
      BY <1>4, ArithmeticFacts
    <3>2. MaxQlScore \in Nat /\ delay \in Nat
      BY ScoreAssumption
    <3> QED BY <1>1, <3>1, <3>2
  <2>4. Sanctions(delay, score'[b])
    BY <1>1, <2>1
  <2>5. Sanctions(delay, ownScore'[f])
    BY <1>7, <2>2, <2>3, <2>4, HigherIsSanctioned
  <2> QED BY <2>1, <2>5
<1> QED BY <1>1, <1>8, <1>9, <1>10, <1>11, <1>12 DEF Isolation

\* No order of packets, and no pause between them, breaks isolation.
THEOREM IsolationInvariant == ProtectionSpec => []Isolation
<1>1. Isolation /\ [ProtectionNext]_protectionVars => Isolation'
  <2> SUFFICES ASSUME Isolation, [ProtectionNext]_protectionVars PROVE Isolation'
    OBVIOUS
  <2>1. CASE UNCHANGED protectionVars
    BY <2>1 DEF protectionVars, Isolation, ProtectionTypeOK, Hashed, OneBucketPerFlow, NotBlamedForOthers,
                ScoreIsKept, SanctionIsEarned, Owns, Sanctions
  <2>2. CASE ProtectionNext
    BY <2>2, DrainKeepsIsolation, PacketKeepsIsolation DEF ProtectionNext
  <2> QED BY <2>1, <2>2
<1> QED BY IsolationInit, <1>1, PTL DEF ProtectionSpec

\* Buckets and histories keep their types: in particular no score exceeds
\* MaxQlScore, however many packets fill a bucket before it drains.
THEOREM ProtectionTypeCorrect == ProtectionSpec => []ProtectionTypeOK
BY IsolationInvariant, PTL DEF Isolation

\* PickBucket never lets a flow own two dedicated buckets.
THEOREM NeverTwoBuckets == ProtectionSpec => []OneBucketPerFlow
BY IsolationInvariant, PTL DEF Isolation

\* Recycling a bucket never hands a flow the score of another.
THEOREM NeverBlamed == ProtectionSpec => []NotBlamedForOthers
BY IsolationInvariant, PTL DEF Isolation

\* A flow that has not met the default bucket cannot shed its score.
THEOREM NeverShed == ProtectionSpec => []ScoreIsKept
BY IsolationInvariant, PTL DEF Isolation

\* QueueProtect sanctions a flow with a bucket of its own for its own packets.
THEOREM SanctionedFairly == ProtectionSpec => []SanctionIsEarned
BY IsolationInvariant, PTL DEF Isolation
=============================================================================
