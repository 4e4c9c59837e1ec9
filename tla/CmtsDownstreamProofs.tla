------------------------ MODULE CmtsDownstreamProofs ------------------------
(***************************************************************************)
(* Proofs about the downstream device, for every symbol, header and packet *)
(* size, every rate and burst, and every width of the counters.            *)
(***************************************************************************)
EXTENDS CmtsDownstream, EventListProofs

\* The least a refilled bucket and a symbol leave of what may be scheduled.
Budget == Min({SymbolCapacity, MaxTrafficBurst, MaxPdu})

-----------------------------------------------------------------------------
(* The inductive invariant.                                                *)

Fragments == {NoFragment} \cup
             {f \in [pdu : PduSizes, sent : Nat] : f.sent \in 1 .. f.pdu + Header - 1}
Boundaries == [in : Nat, event : {"HandleSymbolBoundary"}, arg : {NoSymbol}]
SymbolArgs == {symbol \in [bytes : 0..Budget, symbolState : Nat] :
                 symbol.bytes + symbol.symbolState <= SymbolCapacity}
Symbols == [in : Nat, event : {"SendSymbol"}, arg : SymbolArgs]
Events == Boundaries \cup Symbols

DownstreamTyped ==
  /\ queue \in Seq(PduSizes) /\ device \in Seq(PduSizes) /\ frag \in Fragments
  /\ req \in [0..PipelineFactor -> 0..Word - 1]
  /\ msrTokens \in 0..Word - 1 /\ peakTokens \in 0..Word - 1
  /\ agenda \in Seq(Events) /\ Sorted(agenda)
  /\ lost \in Nat

\* With a pipeline of one symbol: nothing is scheduled, ...
Idle ==
  /\ Len(agenda) = 1 /\ agenda[1].event = "HandleSymbolBoundary" /\ agenda[1].in \in 0..1
  /\ req[0] = 0 /\ req[1] = 0
\* ... a symbol is, behind the boundary of the same time, ...
Ahead ==
  /\ Len(agenda) = 2 /\ agenda[1].event = "HandleSymbolBoundary" /\ agenda[1].in \in 0..1
  /\ agenda[2].event = "SendSymbol" /\ agenda[2].in = agenda[1].in
  /\ req[0] = 0 /\ req[1] = agenda[2].arg.bytes
\* ... or that boundary has run, and has scheduled the next symbol, or has not.
Meeting ==
  /\ Len(agenda) \in 2..3
  /\ agenda[1].event = "SendSymbol" /\ agenda[1].in = 0
  /\ agenda[2].event = "HandleSymbolBoundary" /\ agenda[2].in = 1
  /\ Len(agenda) = 3 => agenda[3].event = "SendSymbol" /\ agenda[3].in = 1
  /\ req[0] = agenda[1].arg.bytes
  /\ req[1] = IF Len(agenda) = 3 THEN agenda[3].arg.bytes ELSE 0

PipelineInv == DownstreamTyped /\ (Idle \/ Ahead \/ Meeting)

DeviceInv == PipelineInv /\ lost = 0 /\ FrameBytes(device) <= DeviceQueueSize

\* The device queue holds two symbols' worth of the smallest packets with
\* their headers, and one packet more.  In the code the smallest data PDU is
\* 64 bytes, and Word is 2^32.
DeviceQueueSuffices ==
  /\ \E k \in Nat \ {0} : \A pdu \in PduSizes :
       /\ DeviceQueueSize + pdu < Word /\ k * Header <= pdu
       /\ (k + 1) * (2 * Budget + Header) + k * (pdu + Header) <= k * DeviceQueueSize

-----------------------------------------------------------------------------
(* Numbers.                                                                *)

\* What is assumed of the constants.
LEMMA ConstantFacts ==
  /\ PipelineFactor \in Nat /\ PipelineFactor >= 1
  /\ SymbolCapacity \in Nat /\ SymbolCapacity > 0
  /\ \A free \in FreeCapacities : free \in 0..SymbolCapacity
  /\ Header \in Nat /\ Header > 0
  /\ \A pdu \in PduSizes : pdu \in Nat /\ pdu > 0
  /\ MsrIncrement \in Nat /\ PeakIncrement \in Nat
  /\ MaxTrafficBurst \in Nat /\ MaxTrafficBurst < Word /\ MaxPdu \in Nat /\ MaxPdu < Word
  /\ Word \in Nat /\ Word > 0
BY DownstreamAssumption

\* The budget is in every bound.
LEMMA BudgetFacts ==
  /\ Budget \in Nat /\ Budget < Word
  /\ \A n \in Int : n <= SymbolCapacity /\ n <= MaxTrafficBurst /\ n <= MaxPdu => n <= Budget
<1>1. SymbolCapacity \in Int /\ MaxTrafficBurst \in Int /\ MaxPdu \in Int
  BY ConstantFacts
<1>2. /\ Budget \in {SymbolCapacity, MaxTrafficBurst, MaxPdu}
      /\ Budget <= MaxTrafficBurst
  BY <1>1, MinOfThree DEF Budget
<1> QED BY <1>2, ConstantFacts

\* Counters of Word values.
LEMMA WordFacts ==
  ASSUME NEW n \in Int
  PROVE  /\ n % Word \in 0..Word - 1
         /\ n \in 0..Word - 1 => n % Word = n
         /\ n \in -Word .. -1 => n % Word = n + Word
         /\ n \in Nat => n % Word <= n
<1>1. Word \in Nat /\ Word > 0
  BY ConstantFacts
<1> DEFINE q == n \div Word
           r == n % Word
<1>2. q \in Int /\ r \in 0..Word - 1 /\ n = Word * q + r
  BY <1>1, Z3
<1> HIDE DEF q, r
<1>3. ASSUME q >= 1 PROVE Word * q >= Word
  BY <1>1, <1>2, <1>3, Z3
<1>4. ASSUME q <= -1 PROVE Word * q <= -Word
  BY <1>1, <1>2, <1>4, Z3
<1>5. ASSUME q <= -2 PROVE Word * q <= -2 * Word
  BY <1>1, <1>2, <1>5, Z3
<1>6. Word * 0 = 0 /\ Word * (-1) = -Word /\ Word * q \in Int
  BY <1>1, <1>2, Z3
<1>7. ASSUME n \in 0..Word - 1 PROVE r = n
  <2>1. q = 0
    BY <1>1, <1>2, <1>3, <1>4, <1>6, <1>7
  <2> QED BY <2>1, <1>2, <1>6
<1>8. ASSUME n \in -Word .. -1 PROVE r = n + Word
  <2>1. q = -1
    <3>1. ~ (q >= 0)
      BY <1>1, <1>2, <1>3, <1>6, <1>8
    <3>2. ~ (q <= -2)
      BY <1>1, <1>2, <1>5, <1>6, <1>8
    <3> QED BY <1>2, <3>1, <3>2
  <2> QED BY <2>1, <1>1, <1>2, <1>6
<1>9. ASSUME n \in Nat PROVE r <= n
  <2>1. ~ (q <= -1)
    BY <1>1, <1>2, <1>4, <1>6, <1>9
  <2>2. Word * q \in Nat
    BY <1>1, <1>2, <2>1, Z3
  <2> QED BY <2>2, <1>2, <1>9
<1> QED BY <1>2, <1>7, <1>8, <1>9 DEF r

\* GetPipelineData adds up the slots.
LEMMA TotalFacts ==
  ASSUME NEW p \in [0..PipelineFactor -> 0..Word - 1]
  PROVE  /\ Total(p) \in 0..Word - 1
         /\ PipelineFactor = 1 => Total(p) <= p[0] + p[1]
<1> DEFINE S == 0..PipelineFactor
           V == 0..Word - 1
           Sum(g) == [s \in SUBSET S |->
                        IF s = {} THEN 0
                        ELSE (p[CHOOSE x \in s : TRUE] + g[s \ {CHOOSE x \in s : TRUE}]) % Word]
           sum == CHOOSE g : g = Sum(g)
           pick == [s \in SUBSET S |-> CHOOSE x \in s : TRUE]
           step == [e \in S \X V |-> (p[e[1]] + e[2]) % Word]
<1>1. Total(p) = sum[S]
  <2>1. DOMAIN p = S
    OBVIOUS
  <2>2. Total(p) = LET iter[s \in SUBSET DOMAIN p] ==
                         IF s = {} THEN 0
                         ELSE (p[CHOOSE x \in s : TRUE] + iter[s \ {CHOOSE x \in s : TRUE}]) % Word
                   IN  iter[DOMAIN p]
    BY Zenon DEF Total, FoldFunction, FoldFunctionOnSet, MapThenFoldSet
  <2> QED BY <2>1, <2>2, Zenon
<1>2. IsFiniteSet(S) /\ S # {}
  <2>1. 0 \in Int /\ PipelineFactor \in Int /\ 0 \in S
    BY ConstantFacts
  <2>2. IsFiniteSet(0..PipelineFactor)
    BY <2>1, FS_Interval
  <2> QED BY <2>1, <2>2
<1>3. 0 \in V /\ \A i \in S : p[i] \in V
  BY ConstantFacts
<1> HIDE DEF S
<1>4. \A s \in SUBSET S : s # {} => pick[s] \in s
  OBVIOUS
<1>5. \A x \in S : \A v \in V : step[<<x, v>>] = (p[x] + v) % Word /\ step[<<x, v>>] \in V
  BY <1>3, WordFacts
<1> HIDE DEF V, pick, step
<1>6. PICK g : Folded(S, V, 0, pick, step, g)
  BY <1>2, <1>3, <1>4, <1>5, FoldExists
<1>7. g = Sum(g)
  <2>1. ASSUME NEW s \in SUBSET S, s # {}
        PROVE  g[s] = (p[CHOOSE x \in s : TRUE] + g[s \ {CHOOSE x \in s : TRUE}]) % Word
    <3>1. pick[s] \in S /\ g[s \ {pick[s]}] \in V
      BY <1>4, <1>6, <2>1 DEF Folded
    <3>2. g[s] = (p[pick[s]] + g[s \ {pick[s]}]) % Word
      BY <1>5, <1>6, <2>1, <3>1 DEF Folded
    <3> QED BY <3>2 DEF pick
  <2>2. DOMAIN g = SUBSET S /\ g[{}] = 0 /\ g = [s \in SUBSET S |-> g[s]]
    BY <1>6 DEF Folded
  <2> QED BY <2>1, <2>2
<1>8. sum = Sum(sum)
  <2> HIDE DEF Sum
  <2> QED BY <1>7
<1> HIDE DEF sum
<1>9. /\ sum[{}] = 0
      /\ \A s \in SUBSET S : s # {} => sum[s] = (p[pick[s]] + sum[s \ {pick[s]}]) % Word
  BY <1>8 DEF pick
<1> HIDE DEF Sum
<1>10. \A s \in SUBSET S : sum[s] \in V
  <2>1. ASSUME NEW s \in SUBSET S, s # {}, sum[s \ {pick[s]}] \in V PROVE sum[s] \in V
    <3>1. pick[s] \in S
      BY <2>1, <1>4
    <3>2. p[pick[s]] + sum[s \ {pick[s]}] \in Int
      BY <3>1, <2>1, <1>3 DEF V
    <3>3. sum[s] = (p[pick[s]] + sum[s \ {pick[s]}]) % Word
      BY <2>1, <1>9
    <3> QED BY <3>2, <3>3, WordFacts DEF V
  <2>2. sum[{}] \in V
    BY <1>3, <1>9
  <2> QED BY <1>2, <1>4, <2>1, <2>2, FoldTyped
<1>11. ASSUME NEW s \in SUBSET S, s # {} PROVE sum[s] <= p[pick[s]] + sum[s \ {pick[s]}]
  <2>1. pick[s] \in S /\ s \ {pick[s]} \in SUBSET S
    BY <1>4, <1>11
  <2>2. p[pick[s]] \in Nat /\ sum[s \ {pick[s]}] \in Nat
    BY <1>3, <1>10, <2>1 DEF V
  <2> DEFINE n == p[pick[s]] + sum[s \ {pick[s]}]
  <2>3. n \in Nat
    BY <2>2
  <2>4. sum[s] = n % Word
    BY <1>9, <1>11
  <2> HIDE DEF n
  <2> QED BY <2>3, <2>4, WordFacts DEF n
<1>12. ASSUME PipelineFactor = 1 PROVE sum[S] <= p[0] + p[1]
  <2>1. S = {0, 1}
    BY <1>12 DEF S
  <2> DEFINE x == pick[S]
             y == 1 - x
  <2>2. x \in {0, 1} /\ y \in {0, 1} /\ x # y /\ S \ {x} = {y}
    BY <1>2, <1>4, <2>1
  <2>3. sum[S] <= p[x] + sum[{y}]
    BY <1>2, <1>11, <2>2
  <2> HIDE DEF y
  <2>4. pick[{y}] = y /\ {y} \in SUBSET S /\ {y} # {} /\ {y} \ {y} = {}
    BY <1>4, <2>1, <2>2
  <2>5. sum[{y}] <= p[y] + sum[{}]
    BY <1>11, <2>4
  <2> HIDE DEF x
  <2>6. p[x] \in Nat /\ p[y] \in Nat /\ sum[S] \in Nat /\ sum[{y}] \in Nat
    BY <1>3, <1>10, <2>1, <2>2, <2>4 DEF V
  <2>7. sum[S] <= p[x] + p[y]
    BY <1>9, <2>3, <2>5, <2>6
  <2> QED BY <2>2, <2>6, <2>7
<1>13. sum[S] \in V
  BY <1>10
<1> QED BY <1>1, <1>12, <1>13 DEF V

-----------------------------------------------------------------------------
(* Bytes of packets.                                                       *)

\* Packet sizes are naturals, and not zero.
LEMMA PduFacts ==
  ASSUME NEW s \in Seq(PduSizes)
  PROVE  /\ s \in Seq(Nat) /\ Len(s) \in Nat /\ DOMAIN s = 1 .. Len(s)
         /\ \A k \in 1 .. Len(s) : s[k] \in PduSizes /\ s[k] \in Nat /\ s[k] > 0
<1>1. Len(s) \in Nat /\ DOMAIN s = 1 .. Len(s) /\ \A k \in 1 .. Len(s) : s[k] \in PduSizes
  BY LenProperties, ElementOfSeq
<1>2. PduSizes \subseteq Nat
  BY ConstantFacts
<1>3. s \in Seq(Nat)
  BY <1>2, SeqMonotonic
<1> QED BY <1>1, <1>3, ConstantFacts

\* Frames are as long as their packets and headers.
LEMMA FrameBytesFacts ==
  ASSUME NEW s \in Seq(PduSizes)
  PROVE  /\ SumSeq(s) \in Nat /\ Len(s) * Header \in Nat
         /\ FrameBytes(s) \in Nat /\ FrameBytes(s) = SumSeq(s) + Len(s) * Header
<1>1. SumSeq(s) \in Nat
  BY PduFacts, SumIsNat
<1>2. Len(s) * Header \in Nat
  BY PduFacts, ConstantFacts, Z3
<1> QED BY <1>1, <1>2 DEF FrameBytes

\* A frame more.
LEMMA FrameBytesOneMore ==
  ASSUME NEW s \in Seq(PduSizes), NEW t \in Seq(PduSizes), Len(t) = Len(s) + 1,
         \A k \in 1 .. Len(s) : s[k] = t[k]
  PROVE  FrameBytes(t) = FrameBytes(s) + t[Len(t)] + Header
<1>1. SumSeq(t) = SumSeq(s) + t[Len(t)]
  BY PduFacts, SumOneMore
<1>2. Len(t) * Header = Len(s) * Header + Header
  BY PduFacts, ConstantFacts, Z3
<1>3. t[Len(t)] \in Nat /\ Header \in Nat
  BY PduFacts, ConstantFacts
<1>4. SumSeq(s) \in Nat /\ Len(s) * Header \in Nat
  BY FrameBytesFacts
<1> DEFINE old == Len(s) * Header
           new == Len(t) * Header
<1>5. FrameBytes(s) = SumSeq(s) + old /\ FrameBytes(t) = SumSeq(t) + new
  BY DEF FrameBytes
<1>6. new = old + Header /\ old \in Nat
  BY <1>2, <1>4
<1> HIDE DEF old, new
<1> QED BY <1>1, <1>3, <1>4, <1>5, <1>6

\* No frame, and the frames up to a packet.
LEMMA FrameBytesPrefix ==
  ASSUME NEW s \in Seq(PduSizes)
  PROVE  /\ FrameBytes(<<>>) = 0
         /\ SubSeq(s, 1, 0) = <<>>
         /\ \A k \in 0 .. Len(s) : SubSeq(s, 1, k) \in Seq(PduSizes)
         /\ \A k \in 0 .. Len(s) - 1 :
              FrameBytes(SubSeq(s, 1, k + 1)) = FrameBytes(SubSeq(s, 1, k)) + s[k + 1] + Header
<1>1. FrameBytes(<<>>) = 0
  <2>1. Len(<<>>) * Header = 0
    BY ConstantFacts, Z3
  <2> QED BY <2>1, SumEmpty DEF FrameBytes
<1>2. ASSUME NEW k \in 0 .. Len(s)
      PROVE  /\ SubSeq(s, 1, k) \in Seq(PduSizes) /\ Len(SubSeq(s, 1, k)) = k
             /\ \A i \in 1..k : SubSeq(s, 1, k)[i] = s[i]
  <2>1. k \in Nat /\ \A i \in 1..k : s[i] \in PduSizes
    BY PduFacts
  <2>2. /\ SubSeq(s, 1, k) \in Seq(PduSizes)
        /\ Len(SubSeq(s, 1, k)) = IF 1 <= k THEN k - 1 + 1 ELSE 0
        /\ \A i \in 1 .. k - 1 + 1 : SubSeq(s, 1, k)[i] = s[1 + i - 1]
    BY <2>1, SubSeqProperties
  <2> QED BY <2>1, <2>2
<1>3. SubSeq(s, 1, 0) = <<>>
  <2>1. SubSeq(s, 1, 0) \in Seq(PduSizes) /\ Len(SubSeq(s, 1, 0)) = 0
    BY <1>2, PduFacts
  <2> QED BY <2>1, EmptySeq
<1>4. ASSUME NEW k \in 0 .. Len(s) - 1
      PROVE  FrameBytes(SubSeq(s, 1, k + 1)) = FrameBytes(SubSeq(s, 1, k)) + s[k + 1] + Header
  <2> DEFINE a == SubSeq(s, 1, k)
             b == SubSeq(s, 1, k + 1)
  <2>1. k \in 0 .. Len(s) /\ k + 1 \in 0 .. Len(s) /\ k + 1 \in 1 .. k + 1
    BY PduFacts
  <2>2. /\ a \in Seq(PduSizes) /\ Len(a) = k /\ \A i \in 1..k : a[i] = s[i]
        /\ b \in Seq(PduSizes) /\ Len(b) = k + 1 /\ \A i \in 1 .. k + 1 : b[i] = s[i]
    BY <1>2, <2>1
  <2> HIDE DEF a, b
  <2>3. \A i \in 1..k : a[i] = b[i]
    BY <2>1, <2>2
  <2>4. FrameBytes(b) = FrameBytes(a) + b[Len(b)] + Header
    BY <2>2, <2>3, FrameBytesOneMore
  <2> QED BY <2>1, <2>2, <2>4 DEF a, b
<1> QED BY <1>1, <1>2, <1>3, <1>4

\* What remains when the first packets are gone.
LEMMA FrameBytesSuffix ==
  ASSUME NEW s \in Seq(PduSizes), NEW m \in 1 .. Len(s) + 1
  PROVE  /\ SubSeq(s, m, Len(s)) \in Seq(PduSizes)
         /\ FrameBytes(SubSeq(s, m, Len(s))) <= FrameBytes(s)
<1> DEFINE t == SubSeq(s, m, Len(s))
<1>1. m \in Int /\ m >= 1 /\ Len(s) \in Int /\ \A i \in m .. Len(s) : s[i] \in PduSizes
  BY PduFacts
<1>2. t \in Seq(PduSizes) /\ Len(t) = IF m <= Len(s) THEN Len(s) - m + 1 ELSE 0
  BY <1>1, SubSeqProperties
<1>3. SumSeq(t) <= SumSeq(s)
  BY PduFacts, SumSuffix
<1> HIDE DEF t
<1>4. Len(t) <= Len(s) /\ Len(t) \in Nat /\ Len(s) \in Nat
  BY <1>1, <1>2, PduFacts
<1>5. Len(t) * Header <= Len(s) * Header
  BY <1>4, ConstantFacts, Z3
<1>6. /\ SumSeq(s) \in Nat /\ SumSeq(t) \in Nat
      /\ Len(s) * Header \in Nat /\ Len(t) * Header \in Nat
  BY <1>2, FrameBytesFacts
<1> DEFINE old == Len(s) * Header
           new == Len(t) * Header
<1>7. FrameBytes(s) = SumSeq(s) + old /\ FrameBytes(t) = SumSeq(t) + new
  BY DEF FrameBytes
<1>8. new <= old /\ old \in Nat /\ new \in Nat
  BY <1>5, <1>6
<1>9. SumSeq(t) <= SumSeq(s)
  BY <1>3 DEF t
<1> HIDE DEF old, new
<1>10. FrameBytes(t) <= FrameBytes(s)
  BY <1>6, <1>7, <1>8, <1>9
<1> QED BY <1>2, <1>10 DEF t

\* The bytes that the device believes to hold.
LEMMA InternallyQueuedFacts ==
  ASSUME NEW s \in Seq(PduSizes), frag \in Fragments
  PROVE  /\ SumSeq(s) + frag.pdu - frag.sent \in Int
         /\ InternallyQueued(s) = (SumSeq(s) + frag.pdu - frag.sent) % Word
         /\ InternallyQueued(s) \in 0..Word - 1
         /\ frag.pdu \in Nat /\ frag.sent \in Nat
         /\ frag.sent < frag.pdu + Header
<1>1. frag.pdu \in Nat /\ frag.sent \in Nat /\ frag.sent < frag.pdu + Header
  BY ConstantFacts DEF Fragments, NoFragment
<1>2. SumSeq(s) + frag.pdu - frag.sent \in Int
  BY <1>1, FrameBytesFacts
<1> QED BY <1>1, <1>2, WordFacts DEF InternallyQueued

-----------------------------------------------------------------------------
(* What a boundary moves.                                                  *)

StageStates == [device : Seq(PduSizes), rest : Seq(PduSizes), lost : Nat]

\* A packet more goes to one of three places.
LEMMA StagePacketFacts ==
  ASSUME NEW pipeline \in Int, NEW acc \in StageStates, NEW pdu \in PduSizes, frag \in Fragments
  PROVE  LET next == StagePacket(pipeline, acc, pdu) IN
         /\ next \in StageStates
         /\ \/ next.device = acc.device /\ next.lost = acc.lost
            \/ /\ next.device = Append(acc.device, pdu) /\ next.lost = acc.lost
               /\ FrameBytes(next.device) <= DeviceQueueSize
            \/ /\ next.device = acc.device
               /\ InternallyQueued(acc.device) < pipeline
               /\ ~ (FrameBytes(Append(acc.device, pdu)) <= DeviceQueueSize)
<1>1. Append(acc.device, pdu) \in Seq(PduSizes) /\ Append(acc.rest, pdu) \in Seq(PduSizes)
  BY AppendProperties DEF StageStates
<1>2. InternallyQueued(acc.device) \in Int
  BY InternallyQueuedFacts DEF StageStates
<1>3. acc.lost \in Nat /\ acc.lost + 1 \in Nat
  BY DEF StageStates
<1>4. CASE InternallyQueued(acc.device) >= pipeline
  <2>1. StagePacket(pipeline, acc, pdu) = [acc EXCEPT !.rest = Append(@, pdu)]
    BY <1>4 DEF StagePacket
  <2> QED BY <1>1, <2>1 DEF StageStates
<1>5. CASE /\ ~ (InternallyQueued(acc.device) >= pipeline)
           /\ FrameBytes(Append(acc.device, pdu)) <= DeviceQueueSize
  <2>1. StagePacket(pipeline, acc, pdu) = [acc EXCEPT !.device = Append(@, pdu)]
    BY <1>5 DEF StagePacket
  <2> QED BY <1>1, <1>5, <2>1 DEF StageStates
<1>6. CASE /\ ~ (InternallyQueued(acc.device) >= pipeline)
           /\ ~ (FrameBytes(Append(acc.device, pdu)) <= DeviceQueueSize)
  <2>1. StagePacket(pipeline, acc, pdu) = [acc EXCEPT !.lost = @ + 1]
    BY <1>6 DEF StagePacket
  <2>2. InternallyQueued(acc.device) < pipeline
    BY <1>2, <1>6
  <2> QED BY <1>3, <1>6, <2>1, <2>2 DEF StageStates
<1> QED BY <1>4, <1>5, <1>6

\* The packets are moved one after another, from the head of the queue.
Stages(pipeline, acc) ==
  /\ acc \in [0 .. Len(queue) -> StageStates]
  /\ acc[0] = [device |-> device, rest |-> <<>>, lost |-> lost]
  /\ \A k \in 1 .. Len(queue) : acc[k] = StagePacket(pipeline, acc[k - 1], queue[k])

\* The fold of Stage is the last of these stages.
LEMMA StageFacts ==
  ASSUME DownstreamTyped, NEW pipeline \in Int
  PROVE  \E acc : Stages(pipeline, acc) /\ Stage(pipeline) = acc[Len(queue)]
<1> DEFINE n == Len(queue)
           S == 1..n
           base == [device |-> device, rest |-> <<>>, lost |-> lost]
           Moved(g) == [s \in SUBSET S |->
                          IF s = {} THEN base
                          ELSE StagePacket(pipeline, g[s \ {Max(s)}], queue[Max(s)])]
           moved == CHOOSE g : g = Moved(g)
           pick == [s \in SUBSET S |-> Max(s)]
           step == [e \in S \X StageStates |-> StagePacket(pipeline, e[2], queue[e[1]])]
<1>1. Stage(pipeline) = moved[S]
  <2>1. DOMAIN queue = S
    BY LenProperties DEF DownstreamTyped
  <2>2. Stage(pipeline) =
          LET iter[s \in SUBSET DOMAIN queue] ==
                IF s = {} THEN base
                ELSE StagePacket(pipeline, iter[s \ {Max(s)}], queue[Max(s)])
          IN  iter[DOMAIN queue]
    BY Zenon DEF Stage, FoldLeft, MapThenFoldSet
  <2> QED BY <2>1, <2>2, Zenon
<1>2. n \in Nat /\ \A i \in S : queue[i] \in PduSizes
  BY PduFacts DEF DownstreamTyped
<1>0. IsFiniteSet(S)
  <2>1. 1 \in Int /\ n \in Int
    BY <1>2
  <2> QED BY <2>1, FS_Interval
<1>3. base \in StageStates
  BY DEF StageStates, DownstreamTyped
<1> HIDE DEF base, n
<1>4. ASSUME NEW s \in SUBSET S, s # {} PROVE Max(s) \in s /\ \A y \in s : Max(s) >= y
  <2>1. s \in SUBSET (0..n)
    BY <1>2 DEF S
  <2> QED BY <2>1, <1>2, <1>4, MaxOfNumbers
<1>5. \A s \in SUBSET S : s # {} => pick[s] \in s
  BY <1>4
<1> HIDE DEF S
<1>6. \A x \in S : \A v \in StageStates :
        /\ step[<<x, v>>] = StagePacket(pipeline, v, queue[x])
        /\ step[<<x, v>>] \in StageStates
  <2> SUFFICES ASSUME NEW x \in S, NEW v \in StageStates
               PROVE  StagePacket(pipeline, v, queue[x]) \in StageStates
    OBVIOUS
  <2> QED BY <1>2, StagePacketFacts DEF DownstreamTyped
<1> HIDE DEF pick, step
<1>7. PICK g : Folded(S, StageStates, base, pick, step, g)
  BY <1>0, <1>3, <1>5, <1>6, FoldExists
<1>8. g = Moved(g)
  <2>1. ASSUME NEW s \in SUBSET S, s # {}
        PROVE  g[s] = StagePacket(pipeline, g[s \ {Max(s)}], queue[Max(s)])
    <3>1. pick[s] \in S /\ g[s \ {pick[s]}] \in StageStates
      BY <1>5, <1>7, <2>1 DEF Folded
    <3>2. g[s] = StagePacket(pipeline, g[s \ {pick[s]}], queue[pick[s]])
      BY <1>6, <1>7, <2>1, <3>1 DEF Folded
    <3> QED BY <3>2 DEF pick
  <2>2. DOMAIN g = SUBSET S /\ g[{}] = base /\ g = [s \in SUBSET S |-> g[s]]
    BY <1>7 DEF Folded
  <2> QED BY <2>1, <2>2
<1>9. moved = Moved(moved)
  <2> HIDE DEF Moved
  <2> QED BY <1>8
<1> HIDE DEF moved
<1>10. /\ moved[{}] = base
       /\ \A s \in SUBSET S : s # {} =>
            moved[s] = StagePacket(pipeline, moved[s \ {Max(s)}], queue[Max(s)])
  BY <1>9
<1> HIDE DEF Moved
<1>11. \A s \in SUBSET S : moved[s] \in StageStates
  <2>1. ASSUME NEW s \in SUBSET S, s # {}, moved[s \ {pick[s]}] \in StageStates
        PROVE  moved[s] \in StageStates
    <3>1. pick[s] \in S /\ pick[s] = Max(s)
      BY <2>1, <1>5 DEF pick
    <3>2. queue[Max(s)] \in PduSizes
      BY <3>1, <1>2
    <3>3. moved[s] = StagePacket(pipeline, moved[s \ {pick[s]}], queue[Max(s)])
      BY <2>1, <3>1, <1>10
    <3> HIDE DEF Max
    <3>4. frag \in Fragments
      BY DEF DownstreamTyped
    <3>5. StagePacket(pipeline, moved[s \ {pick[s]}], queue[Max(s)]) \in StageStates
      BY <2>1, <3>2, <3>4, StagePacketFacts
    <3> QED BY <3>3, <3>5
  <2>2. moved[{}] \in StageStates
    BY <1>3, <1>10
  <2> QED BY <1>0, <1>5, <2>1, <2>2, FoldTyped
<1> DEFINE acc == [k \in 0..n |-> moved[1..k]]
<1>12. \A k \in 0..n : 1..k \in SUBSET S
  BY <1>2 DEF S
<1>13. acc \in [0..n -> StageStates]
  BY <1>11, <1>12
<1>14. acc[0] = base
  <2>1. 1..0 = {} /\ 0 \in 0..n
    BY <1>2
  <2> QED BY <1>10, <2>1
<1>15. ASSUME NEW k \in 1..n PROVE acc[k] = StagePacket(pipeline, acc[k - 1], queue[k])
  <2>1. k \in 0..n /\ k - 1 \in 0..n /\ k \in 1..k /\ (1..k) \ {k} = 1 .. k - 1
    BY <1>2
  <2>2. Max(1..k) = k
    <3>1. Max(1..k) \in 1..k /\ \A y \in 1..k : Max(1..k) >= y
      BY <1>4, <1>12, <2>1 DEF S
    <3> QED BY <3>1, <2>1
  <2>3. moved[1..k] = StagePacket(pipeline, moved[1 .. k - 1], queue[k])
    <3>1. 1..k \in SUBSET S /\ 1..k # {}
      BY <1>12, <2>1
    <3>2. moved[1..k] = StagePacket(pipeline, moved[(1..k) \ {Max(1..k)}], queue[Max(1..k)])
      BY <1>10, <3>1
    <3> QED BY <3>2, <2>1, <2>2
  <2> QED BY <2>1, <2>3
<1>16. acc[n] = moved[S]
  BY <1>2 DEF S
<1>17. Stages(pipeline, acc)
  <2> HIDE DEF acc
  <2> QED BY <1>13, <1>14, <1>15 DEF Stages, n, base
<1> QED BY <1>1, <1>16, <1>17 DEF n

-----------------------------------------------------------------------------
(* Parts of the steps.                                                     *)

\* Staged packets are packets.
LEMMA StageTyped ==
  ASSUME DownstreamTyped, NEW pipeline \in Int
  PROVE  Stage(pipeline) \in StageStates
<1>1. PICK acc : Stages(pipeline, acc) /\ Stage(pipeline) = acc[Len(queue)]
  BY StageFacts
<1>2. Len(queue) \in Nat /\ Len(queue) \in 0 .. Len(queue)
  BY LenProperties DEF DownstreamTyped
<1> QED BY <1>1, <1>2 DEF Stages

\* What an event of the list is.
LEMMA EventFacts ==
  ASSUME NEW list \in Seq(Events)
  PROVE  /\ Timed(list)
         /\ Len(list) \in Nat /\ DOMAIN list = 1 .. Len(list)
         /\ \A i \in 1 .. Len(list) :
              /\ list[i] \in Events /\ list[i].in \in Nat
              /\ list[i].event = "HandleSymbolBoundary" => list[i] \in Boundaries
              /\ list[i].event = "SendSymbol" => list[i] \in Symbols
<1>1. Len(list) \in Nat /\ DOMAIN list = 1 .. Len(list)
      /\ \A i \in 1 .. Len(list) : list[i] \in Events
  BY LenProperties, ElementOfSeq
<1>2. ASSUME NEW i \in 1 .. Len(list)
      PROVE  /\ list[i].in \in Nat
             /\ list[i].event = "HandleSymbolBoundary" => list[i] \in Boundaries
             /\ list[i].event = "SendSymbol" => list[i] \in Symbols
  BY <1>1 DEF Events, Boundaries, Symbols
<1> QED BY <1>1, <1>2 DEF Timed

\* The list without its head.
LEMMA TailFacts ==
  ASSUME NEW list \in Seq(Events), Sorted(list), list # <<>>
  PROVE  /\ Head(list) = list[1] /\ 1 \in DOMAIN list /\ Len(list) \in Nat \ {0}
         /\ Tail(list) \in Seq(Events) /\ Sorted(Tail(list))
         /\ Len(Tail(list)) = Len(list) - 1
         /\ \A i \in 1 .. Len(list) - 1 : Tail(list)[i] = list[i + 1]
<1>1. /\ Head(list) = list[1] /\ Len(list) \in Nat \ {0}
      /\ Tail(list) \in Seq(Events) /\ Len(Tail(list)) = Len(list) - 1
      /\ \A i \in 1 .. Len(list) - 1 : Tail(list)[i] = list[i + 1]
  BY HeadTailProperties, EmptySeq, LenProperties
<1>2. DOMAIN list = 1 .. Len(list) /\ DOMAIN Tail(list) = 1 .. Len(list) - 1
  BY <1>1, LenProperties
<1>3. Sorted(Tail(list))
  <2> SUFFICES ASSUME NEW i \in 1 .. Len(list) - 1, NEW j \in 1 .. Len(list) - 1, i <= j
               PROVE  Tail(list)[i].in <= Tail(list)[j].in
    BY <1>2 DEF Sorted
  <2>1. i + 1 \in DOMAIN list /\ j + 1 \in DOMAIN list /\ i + 1 <= j + 1
    BY <1>1, <1>2
  <2>2. list[i + 1].in <= list[j + 1].in
    BY <2>1 DEF Sorted
  <2> QED BY <1>1, <2>2
<1> QED BY <1>1, <1>2, <1>3

\* Scheduling keeps the list.
LEMMA ScheduleFacts ==
  ASSUME NEW list \in Seq(Events), Sorted(list), NEW event \in Events
  PROVE  /\ Schedule(list, event) \in Seq(Events) /\ Sorted(Schedule(list, event))
         /\ \E k \in Nat : Inserted(Schedule(list, event), list, k, event)
<1>1. Timed(list) /\ event.in \in Nat
  BY EventFacts DEF Events, Boundaries, Symbols
<1>2. /\ Schedule(list, event) \in Seq(Events)
      /\ \E k \in Nat : Inserted(Schedule(list, event), list, k, event)
  BY <1>1, ScheduleInserts
<1>3. PICK k \in Nat : Inserted(Schedule(list, event), list, k, event)
  BY <1>2
<1>4. Sorted(Schedule(list, event))
  BY <1>1, <1>2, <1>3, InsertInOrder
<1> QED BY <1>2, <1>4

\* The next boundary is an event.
LEMMA BoundaryFacts ==
  /\ Event(1, "HandleSymbolBoundary", NoSymbol) \in Events
  /\ Event(1, "HandleSymbolBoundary", NoSymbol).in = 1
  /\ Event(1, "HandleSymbolBoundary", NoSymbol).event = "HandleSymbolBoundary"
BY DEF Event, Events, Boundaries

\* A refilled bucket holds at most its size.
LEMMA RefilledFacts ==
  ASSUME NEW bucket \in 0..Word - 1, NEW increment \in Nat, NEW size \in Nat, size < Word,
         NEW filled \in Refilled(bucket, increment, size)
  PROVE  filled \in 0..Word - 1 /\ filled <= size
<1>1. PICK sum \in AddTokens(bucket, increment) : filled = Min({sum, size})
  BY DEF Refilled
<1>2. Word \in Nat /\ Word > 0
  BY ConstantFacts
<1>3. (bucket + increment) % Word \in 0..Word - 1
  BY <1>2, WordFacts
<1>4. sum \in 0..Word - 1
  <2>1. CASE bucket + increment < Word
    BY <1>1, <1>2, <2>1 DEF AddTokens
  <2>2. CASE ~ (bucket + increment < Word)
    <3> DEFINE wrapped == (bucket + increment) % Word
    <3>1. sum \in {wrapped, Word - 1}
      BY <1>1, <2>2 DEF AddTokens
    <3>2. wrapped \in 0..Word - 1
      BY <1>3
    <3> HIDE DEF wrapped
    <3> QED BY <3>1, <3>2, <1>2
  <2> QED BY <2>1, <2>2
<1>5. filled \in {sum, size} /\ filled <= sum /\ filled <= size
  BY <1>1, <1>4, <1>2, MinOfTwo
<1> QED BY <1>2, <1>4, <1>5

\* The pipeline keeps its slots, ...
LEMMA PushFacts ==
  ASSUME req \in [0..PipelineFactor -> 0..Word - 1], NEW bytes \in Int
  PROVE  PushToPipeline(bytes) \in [0..PipelineFactor -> 0..Word - 1]
<1>1. PipelineFactor \in Nat /\ Word \in Nat
  BY ConstantFacts
<1> DEFINE slot(i) == (IF i = 0 THEN req[0] ELSE 0)
                        + (IF i = PipelineFactor THEN bytes ELSE req[i + 1])
<1>2. ASSUME NEW i \in 0..PipelineFactor PROVE slot(i) \in Int
  <2>1. i = PipelineFactor \/ i + 1 \in 0..PipelineFactor
    BY <1>1
  <2>2. 0 \in 0..PipelineFactor
    BY <1>1
  <2> QED BY <2>1, <2>2, <1>1
<1> HIDE DEF slot
<1>3. \A i \in 0..PipelineFactor : slot(i) % Word \in 0..Word - 1
  BY <1>2, WordFacts
<1> QED BY <1>3 DEF PushToPipeline, slot

\* ... and with one symbol ahead there are two of them.
LEMMA PushOneSymbol ==
  ASSUME req \in [0..PipelineFactor -> 0..Word - 1], PipelineFactor = 1, NEW bytes \in 0..Word - 1
  PROVE  /\ PushToPipeline(bytes)[1] = bytes
         /\ req[0] = 0 => PushToPipeline(bytes)[0] = req[1]
<1>1. req[0] \in 0..Word - 1 /\ req[1] \in 0..Word - 1 /\ Word \in Nat
  BY ConstantFacts
<1>2. /\ PushToPipeline(bytes)[1] = (0 + bytes) % Word
      /\ PushToPipeline(bytes)[0] = (req[0] + req[1]) % Word
  BY DEF PushToPipeline
<1>3. bytes % Word = bytes /\ req[1] % Word = req[1]
  BY <1>1, WordFacts
<1>4. 0 + bytes = bytes /\ (req[0] = 0 => req[0] + req[1] = req[1])
  BY <1>1
<1> QED BY <1>2, <1>3, <1>4

\* What a boundary schedules is in the budget and fits in the symbol.
LEMMA ScheduledBytesFacts ==
  ASSUME DownstreamTyped, NEW free \in FreeCapacities,
         msrTokens' \in 0..Word - 1, peakTokens' \in 0..Word - 1,
         msrTokens' <= MaxTrafficBurst, peakTokens' <= MaxPdu,
         GetEligibleTokens > 0, Pending > PipelineData
  PROVE  LET bytes == Min({GetEligibleTokens, Pending - PipelineData, free}) IN
         /\ bytes \in 0..Budget
         /\ Event(PipelineFactor, "SendSymbol",
                  [bytes |-> bytes, symbolState |-> SymbolCapacity - free]) \in Symbols
<1> DEFINE eligible == GetEligibleTokens
           new == Pending - PipelineData
           bytes == Min({eligible, new, free})
<1>1. free \in 0..SymbolCapacity /\ SymbolCapacity \in Nat /\ PipelineFactor \in Nat /\ Word \in Nat
      /\ MaxTrafficBurst \in Nat /\ MaxPdu \in Nat
  BY ConstantFacts
<1>2. eligible \in Nat /\ eligible > 0 /\ eligible <= MaxTrafficBurst /\ eligible <= MaxPdu
  <2>1. msrTokens' \in Int /\ peakTokens' \in Int
    BY <1>1
  <2>2. /\ GetEligibleTokens \in {msrTokens', peakTokens'}
        /\ GetEligibleTokens <= msrTokens' /\ GetEligibleTokens <= peakTokens'
    BY <2>1, MinOfTwo DEF GetEligibleTokens
  <2> HIDE DEF bytes, new
  <2> QED BY <2>1, <2>2, <1>1
<1>3. new \in Int /\ new > 0
  <2>1. PipelineData \in Int
    BY TotalFacts, <1>1 DEF PipelineData, DownstreamTyped
  <2>2. Pending \in Int
    <3>1. FrameBytes(queue) \in Int /\ InternallyQueued(device) \in Int
      BY FrameBytesFacts, InternallyQueuedFacts, <1>1 DEF DownstreamTyped
    <3>2. FrameBytes(queue) + InternallyQueued(device) \in Int
      BY <3>1
    <3>3. (FrameBytes(queue) + InternallyQueued(device)) % Word \in 0..Word - 1
      BY <3>2, WordFacts
    <3> QED BY <3>3, <1>1 DEF Pending
  <2> QED BY <2>1, <2>2
<1> HIDE DEF eligible, new
<1>4. /\ bytes \in {eligible, new, free}
      /\ bytes <= eligible /\ bytes <= new /\ bytes <= free
  <2>1. eligible \in Int /\ new \in Int /\ free \in Int
    BY <1>1, <1>2, <1>3
  <2> QED BY <2>1, MinOfThree
<1> HIDE DEF bytes
<1>5. bytes \in Nat /\ bytes <= SymbolCapacity /\ bytes <= MaxTrafficBurst /\ bytes <= MaxPdu
  BY <1>1, <1>2, <1>3, <1>4
<1>6. bytes \in 0..Budget
  BY <1>5, BudgetFacts
<1>7. Event(PipelineFactor, "SendSymbol", [bytes |-> bytes, symbolState |-> SymbolCapacity - free])
        \in Symbols
  <2>1. SymbolCapacity - free \in Nat /\ bytes + (SymbolCapacity - free) <= SymbolCapacity
    BY <1>1, <1>4, <1>5
  <2>2. [bytes |-> bytes, symbolState |-> SymbolCapacity - free] \in SymbolArgs
    BY <1>6, <2>1 DEF SymbolArgs
  <2> QED BY <2>2, <1>1 DEF Symbols, Event
<1> QED BY <1>6, <1>7 DEF bytes, eligible, new

\* SendSymbol sends what was scheduled.
LEMMA SymbolBytesFacts ==
  ASSUME NEW event \in Symbols
  PROVE  /\ SymbolBytes(event.arg) = event.arg.bytes
         /\ event.arg.bytes \in 0..Budget /\ event.arg.bytes \in 0..Word - 1
<1>1. /\ event.arg.bytes \in 0..Budget /\ event.arg.symbolState \in Nat
      /\ event.arg.bytes + event.arg.symbolState <= SymbolCapacity
  BY DEF Symbols, SymbolArgs
<1> DEFINE b == event.arg.bytes
           room == SymbolCapacity - event.arg.symbolState
<1>2. b \in Int /\ room \in Int /\ b <= room
  BY <1>1, BudgetFacts, ConstantFacts
<1>3. SymbolBytes(event.arg) = Min({b, room})
  BY DEF SymbolBytes
<1> HIDE DEF b, room
<1>4. Min({b, room}) = b
  <2>1. Min({b, room}) \in {b, room} /\ Min({b, room}) <= b
    BY <1>2, MinOfTwo
  <2> QED BY <1>2, <2>1
<1> QED BY <1>1, <1>3, <1>4, BudgetFacts, ConstantFacts DEF b

-----------------------------------------------------------------------------
(* Types.                                                                  *)

\* The first state.
LEMMA StartTyped ==
  ASSUME Init
  PROVE  DownstreamTyped
<1>1. Word \in Nat /\ Word > 0
  BY ConstantFacts
<1>2. queue \in Seq(PduSizes) /\ device \in Seq(PduSizes) /\ frag \in Fragments /\ lost \in Nat
  BY DEF Init, Fragments
<1>3. req \in [0..PipelineFactor -> 0..Word - 1]
  BY <1>1 DEF Init
<1>4. msrTokens \in 0..Word - 1 /\ peakTokens \in 0..Word - 1
  BY <1>1, ConstantFacts DEF Init
<1>5. agenda \in Seq(Events) /\ Sorted(agenda)
  <2> DEFINE first == Event(1, "HandleSymbolBoundary", NoSymbol)
  <2>1. agenda = <<first>> /\ first \in Events /\ first.in = 1
    BY BoundaryFacts DEF Init
  <2> HIDE DEF first
  <2>2. agenda \in Seq(Events) /\ DOMAIN agenda = {1} /\ agenda[1].in = 1
    BY <2>1
  <2> QED BY <2>2 DEF Sorted
<1> QED BY <1>2, <1>3, <1>4, <1>5 DEF DownstreamTyped

\* Time passes: the list stays in order, and nothing else changes.
LEMMA TimePasses ==
  ASSUME DownstreamTyped, AdvanceTime
  PROVE  /\ DownstreamTyped'
         /\ agenda # <<>> =>
              /\ Len(agenda') = Len(agenda)
              /\ agenda[1].in > 0
              /\ \A i \in 1 .. Len(agenda) :
                   /\ agenda'[i].in = agenda[i].in - agenda[1].in
                   /\ agenda'[i].event = agenda[i].event /\ agenda'[i].arg = agenda[i].arg
<1>1. agenda \in Seq(Events) /\ Sorted(agenda)
  BY DEF DownstreamTyped
<1>2. CASE agenda = <<>>
  <2>1. agenda' = <<>>
    BY <1>2 DEF AdvanceTime, Later
  <2> QED BY <1>2, <2>1 DEF AdvanceTime, tokens, DownstreamTyped, Sorted
<1>3. CASE agenda # <<>>
  <2>1. Timed(agenda) /\ DOMAIN agenda = 1 .. Len(agenda) /\ Len(agenda) \in Nat
        /\ \A i \in 1 .. Len(agenda) : agenda[i] \in Events
    BY <1>1, EventFacts
  <2>2. /\ agenda' = [i \in 1 .. Len(agenda) |-> [agenda[i] EXCEPT !.in = @ - Head(agenda).in]]
        /\ Head(agenda).in \in Nat
        /\ \A i \in 1 .. Len(agenda) : agenda[i].in - Head(agenda).in \in Nat
    BY <1>1, <1>3, <2>1, LaterInOrder DEF AdvanceTime
  <2>3. Head(agenda) = agenda[1] /\ 1 \in 1 .. Len(agenda)
    BY <1>1, <1>3, <2>1, HeadTailProperties, EmptySeq
  <2>4. ASSUME NEW i \in 1 .. Len(agenda)
        PROVE  /\ agenda'[i] \in Events
               /\ agenda'[i].in = agenda[i].in - agenda[1].in
               /\ agenda'[i].event = agenda[i].event /\ agenda'[i].arg = agenda[i].arg
    <3>1. agenda[i] \in Events
      BY <2>1
    <3>2. agenda'[i] = [agenda[i] EXCEPT !.in = @ - Head(agenda).in]
      BY <2>2
    <3> DEFINE d == agenda[i].in - Head(agenda).in
    <3>3. d \in Nat
      BY <2>2
    <3>4. agenda'[i] = [agenda[i] EXCEPT !.in = d]
      BY <3>2
    <3>5. d = agenda[i].in - agenda[1].in
      BY <2>3
    <3> HIDE DEF d
    <3> QED BY <3>1, <3>3, <3>4, <3>5 DEF Events, Boundaries, Symbols
  <2>5. DOMAIN agenda' = 1 .. Len(agenda) /\ Len(agenda') = Len(agenda)
    BY <2>1, <2>2
  <2>6. agenda' \in Seq(Events)
    <3>1. agenda' \in [1 .. Len(agenda) -> Events]
      BY <2>2, <2>4
    <3> QED BY <3>1, <2>1
  <2>7. Sorted(agenda')
    <3> SUFFICES ASSUME NEW i \in 1 .. Len(agenda), NEW j \in 1 .. Len(agenda), i <= j
                 PROVE  agenda'[i].in <= agenda'[j].in
      BY <2>5 DEF Sorted
    <3>1. /\ agenda[i].in <= agenda[j].in
          /\ agenda[i].in \in Nat /\ agenda[j].in \in Nat /\ agenda[1].in \in Nat
      BY <1>1, <2>1, <2>3 DEF Sorted, Timed
    <3> DEFINE a == agenda[i].in
               b == agenda[j].in
               c == agenda[1].in
    <3>2. agenda'[i].in = a - c /\ agenda'[j].in = b - c
      BY <2>4
    <3>3. a <= b /\ a \in Nat /\ b \in Nat /\ c \in Nat
      BY <3>1
    <3> HIDE DEF a, b, c
    <3> QED BY <3>2, <3>3
  <2>8. agenda[1].in > 0
    BY <2>3 DEF AdvanceTime
  <2> QED BY <2>4, <2>5, <2>6, <2>7, <2>8 DEF AdvanceTime, tokens, DownstreamTyped
<1> QED BY <1>2, <1>3

\* A packet arrives.
LEMMA PacketArrives ==
  ASSUME DownstreamTyped, NEW pdu \in PduSizes, SendFrom(pdu)
  PROVE  DownstreamTyped'
<1>1. Append(queue, pdu) \in Seq(PduSizes)
  BY AppendProperties DEF DownstreamTyped
<1> QED BY <1>1 DEF SendFrom, tokens, DownstreamTyped

\* The head of the list is due.
LEMMA DueFacts ==
  ASSUME DownstreamTyped, NEW name, Due(name)
  PROVE  /\ agenda # <<>> /\ agenda[1].event = name /\ agenda[1].in = 0
         /\ Head(agenda) = agenda[1] /\ Len(agenda) \in Nat \ {0}
         /\ Tail(agenda) \in Seq(Events) /\ Sorted(Tail(agenda))
         /\ Len(Tail(agenda)) = Len(agenda) - 1
         /\ \A i \in 1 .. Len(agenda) - 1 : Tail(agenda)[i] = agenda[i + 1]
<1>1. agenda # <<>> /\ Head(agenda).event = name /\ Head(agenda).in = 0
  BY DEF Due, HeadIsDue
<1>2. agenda \in Seq(Events) /\ Sorted(agenda)
  BY DEF DownstreamTyped
<1> QED BY <1>1, <1>2, TailFacts

\* A symbol boundary.
LEMMA BoundaryTyped ==
  ASSUME DownstreamTyped, NEW free \in FreeCapacities, HandleSymbolBoundary(free)
  PROVE  DownstreamTyped'
<1>1. /\ msrTokens' \in 0..Word - 1 /\ msrTokens' <= MaxTrafficBurst
      /\ peakTokens' \in 0..Word - 1 /\ peakTokens' <= MaxPdu
  BY ConstantFacts, RefilledFacts DEF HandleSymbolBoundary, DownstreamTyped
<1>2. Tail(agenda) \in Seq(Events) /\ Sorted(Tail(agenda))
  BY DueFacts DEF HandleSymbolBoundary
<1>3. NextBoundary \in Seq(Events) /\ Sorted(NextBoundary)
  BY <1>2, BoundaryFacts, ScheduleFacts DEF NextBoundary
<1>4. req \in [0..PipelineFactor -> 0..Word - 1]
  BY DEF DownstreamTyped
<1>5. CASE SkipSymbol
  <2>1. PushToPipeline(0) \in [0..PipelineFactor -> 0..Word - 1]
    BY <1>4, PushFacts
  <2> QED BY <1>1, <1>3, <1>5, <2>1 DEF HandleSymbolBoundary, SkipSymbol, DownstreamTyped
<1>6. CASE GetEligibleTokens > 0 /\ Pending > PipelineData /\ FillSymbol(free)
  <2> DEFINE bytes == Min({GetEligibleTokens, Pending - PipelineData, free})
             symbol == Event(PipelineFactor, "SendSymbol",
                             [bytes |-> bytes, symbolState |-> SymbolCapacity - free])
             pushed == PushToPipeline(bytes)
             staged == Stage(Total(pushed))
  <2>1. /\ req' = pushed /\ agenda' = Schedule(NextBoundary, symbol)
        /\ queue' = staged.rest /\ device' = staged.device /\ lost' = staged.lost
    BY <1>6 DEF FillSymbol
  <2>2. bytes \in 0..Budget /\ symbol \in Symbols
    BY <1>1, <1>6, ScheduledBytesFacts
  <2> HIDE DEF bytes
  <2>3. bytes \in Int /\ symbol \in Events
    BY <2>2, BudgetFacts DEF Events
  <2> HIDE DEF symbol
  <2>4. pushed \in [0..PipelineFactor -> 0..Word - 1]
    BY <1>4, <2>3, PushFacts
  <2>5. Total(pushed) \in Int
    <3> HIDE DEF pushed
    <3> QED BY <2>4, TotalFacts, ConstantFacts
  <2>6. staged \in StageStates
    BY <2>5, StageTyped
  <2>7. Schedule(NextBoundary, symbol) \in Seq(Events) /\ Sorted(Schedule(NextBoundary, symbol))
    BY <1>3, <2>3, ScheduleFacts
  <2> HIDE DEF staged, pushed
  <2>8. queue' \in Seq(PduSizes) /\ device' \in Seq(PduSizes) /\ lost' \in Nat
    BY <2>1, <2>6 DEF StageStates
  <2> QED BY <1>1, <2>1, <2>4, <2>7, <2>8 DEF HandleSymbolBoundary, DownstreamTyped
<1> QED BY <1>5, <1>6 DEF HandleSymbolBoundary

\* The packets that a symbol sends whole, and the part of the next.
LEMMA PacketsSent ==
  ASSUME DownstreamTyped, NEW bytes \in Nat, SendPackets(bytes)
  PROVE  /\ frag' \in Fragments /\ device' \in Seq(PduSizes)
         /\ FrameBytes(device') <= FrameBytes(device)
<1> DEFINE n == Len(device)
           Fits == {k \in 0..n : FrameBytes(SubSeq(device, 1, k)) <= bytes}
           whole == Max(Fits)
           part == PartSent(bytes, whole)
<1>1. device \in Seq(PduSizes) /\ n \in Nat
  BY PduFacts DEF DownstreamTyped
<1>2. Fits \in SUBSET (0..n) /\ 0 \in Fits
  <2>1. SubSeq(device, 1, 0) = <<>> /\ FrameBytes(<<>>) = 0
    BY <1>1, FrameBytesPrefix
  <2>2. FrameBytes(SubSeq(device, 1, 0)) = 0
    BY <2>1, Zenon
  <2> QED BY <1>1, <2>2
<1>3. whole \in Fits /\ \A k \in Fits : whole >= k
  <2> HIDE DEF Fits, n
  <2> QED BY <1>1, <1>2, MaxOfNumbers
<1>4. SendPackets(bytes) <=>
        \/ /\ part > 0 /\ whole < n
           /\ frag' = [pdu |-> device[whole + 1], sent |-> part]
           /\ device' = SubSeq(device, whole + 2, n)
        \/ /\ part = 0 \/ whole = n
           /\ frag' = NoFragment
           /\ device' = SubSeq(device, whole + 1, n)
  BY DEF SendPackets
<1> HIDE DEF whole
<1>5. whole \in 0..n /\ FrameBytes(SubSeq(device, 1, whole)) <= bytes
  BY <1>3
<1>6. whole < n => ~ (FrameBytes(SubSeq(device, 1, whole + 1)) <= bytes)
  <2> SUFFICES ASSUME whole < n PROVE whole + 1 \notin Fits
    BY <1>1, <1>5
  <2> HIDE DEF Fits
  <2> QED BY <1>1, <1>3, <1>5
<1>7. /\ SubSeq(device, 1, whole) \in Seq(PduSizes)
      /\ whole < n => FrameBytes(SubSeq(device, 1, whole + 1))
                        = FrameBytes(SubSeq(device, 1, whole)) + device[whole + 1] + Header
  BY <1>1, <1>5, FrameBytesPrefix
<1>8. FrameBytes(SubSeq(device, 1, whole)) \in Nat
  BY <1>7, FrameBytesFacts
<1>9. part = bytes - FrameBytes(SubSeq(device, 1, whole))
  BY DEF PartSent
<1>10. part \in Nat
  <2> DEFINE used == FrameBytes(SubSeq(device, 1, whole))
  <2>1. used \in Nat /\ used <= bytes /\ part = bytes - used
    BY <1>5, <1>8, <1>9
  <2> HIDE DEF used, part
  <2> QED BY <2>1
<1>11. ASSUME whole < n
       PROVE  device[whole + 1] \in PduSizes /\ part < device[whole + 1] + Header
  <2>1. whole + 1 \in 1..n
    BY <1>1, <1>5, <1>11
  <2>2. device[whole + 1] \in PduSizes /\ device[whole + 1] \in Nat /\ Header \in Nat
    BY <1>1, <2>1, PduFacts, ConstantFacts
  <2> DEFINE used == FrameBytes(SubSeq(device, 1, whole))
             next == device[whole + 1]
  <2>3. ~ (used + next + Header <= bytes)
    BY <1>6, <1>7, <1>11
  <2>4. used \in Nat /\ next \in Nat /\ part = bytes - used
    BY <1>8, <1>9, <2>2
  <2> HIDE DEF used, part
  <2>5. part < next + Header
    BY <2>2, <2>3, <2>4
  <2> QED BY <2>2, <2>5
<1> HIDE DEF part, Fits
<1>12. CASE /\ part > 0 /\ whole < n
            /\ frag' = [pdu |-> device[whole + 1], sent |-> part]
            /\ device' = SubSeq(device, whole + 2, n)
  <2>1. whole + 2 \in 1 .. n + 1
    BY <1>1, <1>5, <1>12
  <2>2. device' \in Seq(PduSizes) /\ FrameBytes(device') <= FrameBytes(device)
    BY <1>1, <1>12, <2>1, FrameBytesSuffix
  <2>3. frag' \in Fragments
    <3>1. device[whole + 1] \in PduSizes /\ device[whole + 1] \in Nat /\ Header \in Nat
          /\ part < device[whole + 1] + Header
      BY <1>11, <1>12, ConstantFacts
    <3>2. part \in 1 .. device[whole + 1] + Header - 1
      BY <1>10, <1>12, <3>1
    <3> QED BY <1>10, <1>12, <3>1, <3>2 DEF Fragments
  <2> QED BY <2>2, <2>3
<1>13. CASE frag' = NoFragment /\ device' = SubSeq(device, whole + 1, n)
  <2>1. whole + 1 \in 1 .. n + 1
    BY <1>1, <1>5
  <2>2. device' \in Seq(PduSizes) /\ FrameBytes(device') <= FrameBytes(device)
    BY <1>1, <1>13, <2>1, FrameBytesSuffix
  <2> QED BY <1>13, <2>2 DEF Fragments
<1> QED BY <1>4, <1>12, <1>13

\* A symbol is sent: slot 0 loses the bytes of the symbol.
LEMMA SymbolTyped ==
  ASSUME DownstreamTyped, SendSymbol
  PROVE  /\ DownstreamTyped'
         /\ FrameBytes(device') <= FrameBytes(device)
         /\ agenda[1].arg.bytes \in 0..Budget
         /\ req' = [req EXCEPT ![0] = (req[0] - agenda[1].arg.bytes) % Word]
<1>1. /\ agenda # <<>> /\ agenda[1].event = "SendSymbol" /\ Head(agenda) = agenda[1]
      /\ Len(agenda) \in Nat \ {0}
      /\ Tail(agenda) \in Seq(Events) /\ Sorted(Tail(agenda))
  BY DueFacts DEF SendSymbol
<1>2. agenda[1] \in Symbols
  <2>1. agenda \in Seq(Events) /\ 1 \in 1 .. Len(agenda)
    BY <1>1 DEF DownstreamTyped
  <2> QED BY <1>1, <2>1, EventFacts
<1> DEFINE bytes == agenda[1].arg.bytes
<1>3. SymbolBytes(Head(agenda).arg) = bytes /\ bytes \in 0..Budget /\ bytes \in 0..Word - 1
  BY <1>1, <1>2, SymbolBytesFacts
<1>4. /\ \/ ContinueFragment(bytes)
         \/ bytes >= FragmentLeft /\ SendPackets(bytes - FragmentLeft)
      /\ msrTokens' = Drained(msrTokens, Sent(bytes))
      /\ peakTokens' = Drained(peakTokens, Sent(bytes))
      /\ req' = [req EXCEPT ![0] = (@ - Popped(bytes)) % Word]
      /\ agenda' = Tail(agenda) /\ queue' = queue /\ lost' = lost
  <2> HIDE DEF bytes
  <2> QED BY <1>3 DEF SendSymbol
<1> HIDE DEF bytes
<1>5. bytes \in Nat /\ Word \in Nat /\ Word > 0 /\ Header \in Nat /\ Header > 0
  BY <1>3, ConstantFacts
<1>6. frag.pdu \in Nat /\ frag.sent \in Nat /\ frag.sent < frag.pdu + Header /\ frag \in Fragments
  BY InternallyQueuedFacts DEF DownstreamTyped
<1>7. FragmentLeft \in Nat /\ (frag # NoFragment => FragmentLeft = frag.pdu + Header - frag.sent)
      /\ (frag = NoFragment => FragmentLeft = 0)
  BY <1>5, <1>6 DEF FragmentLeft
<1>8. FrameBytes(device) \in Nat /\ device \in Seq(PduSizes)
  BY FrameBytesFacts DEF DownstreamTyped
<1>9. Sent(bytes) \in Int
  <2> DEFINE held == FragmentLeft + FrameBytes(device)
  <2>1. held \in Nat
    BY <1>7, <1>8
  <2>2. Sent(bytes) = Min({bytes, held})
    BY DEF Sent
  <2> HIDE DEF held
  <2> QED BY <1>5, <2>1, <2>2, MinOfTwo
<1>10. msrTokens' \in 0..Word - 1 /\ peakTokens' \in 0..Word - 1
  <2> DEFINE sent == Sent(bytes)
             msr == msrTokens - sent
             peak == peakTokens - sent
  <2>1. msr \in Int /\ peak \in Int
    BY <1>5, <1>9 DEF DownstreamTyped
  <2>2. msrTokens' = msr % Word /\ peakTokens' = peak % Word
    BY <1>4 DEF Drained
  <2> HIDE DEF msr, peak
  <2> QED BY <2>1, <2>2, WordFacts
<1>11. req' = [req EXCEPT ![0] = (req[0] - bytes) % Word] /\ req' \in [0..PipelineFactor -> 0..Word - 1]
  <2>1. req \in [0..PipelineFactor -> 0..Word - 1] /\ 0 \in 0..PipelineFactor
    BY ConstantFacts DEF DownstreamTyped
  <2>2. req[0] - bytes \in Int
    BY <2>1, <1>5
  <2>3. (req[0] - bytes) % Word \in 0..Word - 1
    BY <2>2, WordFacts
  <2>4. req' = [req EXCEPT ![0] = (req[0] - bytes) % Word]
    BY <1>4 DEF Popped
  <2> QED BY <2>1, <2>3, <2>4
<1>12. /\ frag' \in Fragments /\ device' \in Seq(PduSizes)
       /\ FrameBytes(device') <= FrameBytes(device)
  <2>1. CASE ContinueFragment(bytes)
    <3>1. bytes < FragmentLeft /\ device' = device /\ frag' = [frag EXCEPT !.sent = frag.sent + bytes]
      BY <2>1 DEF ContinueFragment
    <3>2. frag # NoFragment /\ FragmentLeft = frag.pdu + Header - frag.sent
      BY <1>5, <1>7, <3>1
    <3>3. frag \in [pdu : PduSizes, sent : Nat] /\ frag.sent \in 1 .. frag.pdu + Header - 1
      BY <1>6, <3>2 DEF Fragments
    <3>4. frag.sent + bytes \in 1 .. frag.pdu + Header - 1 /\ frag.sent + bytes \in Nat
      BY <1>5, <1>6, <3>1, <3>2, <3>3
    <3>5. frag' \in Fragments
      BY <3>1, <3>3, <3>4 DEF Fragments
    <3> QED BY <1>8, <3>1, <3>5
  <2>2. CASE bytes >= FragmentLeft /\ SendPackets(bytes - FragmentLeft)
    <3>1. bytes - FragmentLeft \in Nat
      BY <1>5, <1>7, <2>2
    <3> QED BY <2>2, <3>1, PacketsSent
  <2> QED BY <1>4, <2>1, <2>2
<1>13. DownstreamTyped'
  BY <1>1, <1>4, <1>10, <1>11, <1>12 DEF DownstreamTyped
<1> QED BY <1>3, <1>11, <1>12, <1>13 DEF bytes

\* Every step keeps the types.
LEMMA DownstreamStep ==
  ASSUME DownstreamTyped, [Next]_vars
  PROVE  DownstreamTyped'
<1>1. CASE AdvanceTime
  BY <1>1, TimePasses
<1>2. CASE \E free \in FreeCapacities : HandleSymbolBoundary(free)
  BY <1>2, BoundaryTyped
<1>3. CASE SendSymbol
  BY <1>3, SymbolTyped
<1>4. CASE \E pdu \in PduSizes : SendFrom(pdu)
  BY <1>4, PacketArrives
<1>5. CASE UNCHANGED vars
  BY <1>5 DEF vars, tokens, DownstreamTyped, Sorted
<1> QED BY <1>1, <1>2, <1>3, <1>4, <1>5 DEF Next, Simulate

\* The device's state has its types in every reachable state: a fragment is
\* never sent whole and never started with nothing, and the buckets and slots,
\* which the code subtracts from without a check, stay counters of their width.
THEOREM DownstreamTypes == Spec => []TypeOK
<1>1. Init => DownstreamTyped
  BY StartTyped
<1>2. DownstreamTyped /\ [Next]_vars => DownstreamTyped'
  BY DownstreamStep
<1>3. DownstreamTyped => TypeOK
  <2> SUFFICES ASSUME DownstreamTyped PROVE TypeOK
    OBVIOUS
  <2>1. frag = NoFragment \/ (frag.pdu \in PduSizes /\ frag.sent \in 1..frag.pdu + Header - 1)
    BY DEF DownstreamTyped, Fragments
  <2>2. InTimeOrder(agenda)
    <3>1. DOMAIN agenda = 1 .. Len(agenda) /\ Len(agenda) \in Nat
          /\ \A i \in 1 .. Len(agenda) : agenda[i].in \in Nat
      BY EventFacts DEF DownstreamTyped
    <3>2. ASSUME NEW i \in 1 .. Len(agenda), i > 1 PROVE agenda[i - 1].in <= agenda[i].in
      <4>1. i - 1 \in 1 .. Len(agenda) /\ i - 1 <= i
        BY <3>1, <3>2
      <4> QED BY <3>1, <4>1 DEF DownstreamTyped, Sorted
    <3> QED BY <3>1, <3>2 DEF InTimeOrder
  <2> QED BY <2>1, <2>2 DEF TypeOK, DownstreamTyped
<1> QED BY <1>1, <1>2, <1>3, PTL DEF Spec

-----------------------------------------------------------------------------
(* The pipeline.                                                           *)

\* An event that is not before any of the list goes to its end.
LEMMA ScheduleAtEnd ==
  ASSUME NEW list \in Seq(Events), Sorted(list), NEW event \in Events,
         \A i \in 1 .. Len(list) : list[i].in <= event.in
  PROVE  /\ Schedule(list, event) \in Seq(Events) /\ Sorted(Schedule(list, event))
         /\ Len(Schedule(list, event)) = Len(list) + 1
         /\ Schedule(list, event)[Len(list) + 1] = event
         /\ \A i \in 1 .. Len(list) : Schedule(list, event)[i] = list[i]
<1> DEFINE new == Schedule(list, event)
<1>1. new \in Seq(Events) /\ Sorted(new)
  BY ScheduleFacts
<1>2. PICK k \in Nat : Inserted(new, list, k, event)
  BY ScheduleFacts
<1> HIDE DEF new
<1>3. Len(list) \in Nat
  BY EventFacts
<1>4. k \in 1 .. Len(list) + 1 /\ \A i \in 1 .. Len(list) : i < k
  BY <1>2 DEF Inserted
<1>5. k = Len(list) + 1
  <2> SUFFICES ASSUME k # Len(list) + 1 PROVE FALSE
    OBVIOUS
  <2>1. k \in 1 .. Len(list)
    BY <1>3, <1>4
  <2> QED BY <2>1, <1>4
<1>6. new[k] = event /\ Len(new) = Len(list) + 1
  BY <1>2 DEF Inserted
<1>7. ASSUME NEW i \in 1 .. Len(list) PROVE new[i] = list[i]
  <2>1. i \in 1 .. Len(list) + 1 /\ i < k /\ i # k
    BY <1>3, <1>5
  <2>2. new[i] = list[Before(i, k)]
    BY <1>2, <2>1 DEF Inserted
  <2> QED BY <2>1, <2>2 DEF Before
<1> QED BY <1>1, <1>5, <1>6, <1>7 DEF new

\* Time passes for the boundary, and for the symbol behind it.
LEMMA TimeKeepsPipeline ==
  ASSUME PipelineFactor = 1, PipelineInv, AdvanceTime
  PROVE  PipelineInv'
<1>1. DownstreamTyped /\ req' = req
  BY DEF PipelineInv, AdvanceTime
<1>2. agenda \in Seq(Events) /\ Len(agenda) \in Nat
  BY <1>1, EventFacts DEF DownstreamTyped
<1>3. agenda # <<>>
  <2>1. Len(agenda) # 0
    BY DEF PipelineInv, Idle, Ahead, Meeting
  <2> QED BY <1>2, <2>1
<1>4. /\ DownstreamTyped' /\ Len(agenda') = Len(agenda) /\ agenda[1].in > 0
      /\ \A i \in 1 .. Len(agenda) :
           /\ agenda'[i].in = agenda[i].in - agenda[1].in
           /\ agenda'[i].event = agenda[i].event /\ agenda'[i].arg = agenda[i].arg
  BY <1>1, <1>3, TimePasses
<1>5. CASE Idle
  <2>1. 1 \in 1 .. Len(agenda)
    BY <1>5 DEF Idle
  <2>2. Idle'
    BY <1>1, <1>4, <1>5, <2>1 DEF Idle
  <2> QED BY <1>4, <2>2 DEF PipelineInv
<1>6. CASE Ahead
  <2>1. 1 \in 1 .. Len(agenda) /\ 2 \in 1 .. Len(agenda)
    BY <1>6 DEF Ahead
  <2>2. Ahead'
    BY <1>1, <1>4, <1>6, <2>1 DEF Ahead
  <2> QED BY <1>4, <2>2 DEF PipelineInv
<1>7. CASE Meeting
  BY <1>4, <1>7 DEF Meeting
<1> QED BY <1>5, <1>6, <1>7 DEF PipelineInv

\* The next boundary is put behind the symbol of this one.
LEMMA NextBoundaryFacts ==
  ASSUME PipelineInv, Due("HandleSymbolBoundary")
  PROVE  /\ NextBoundary \in Seq(Events) /\ Sorted(NextBoundary)
         /\ \/ /\ Idle /\ Len(NextBoundary) = 1
               /\ NextBoundary[1] = Event(1, "HandleSymbolBoundary", NoSymbol)
            \/ /\ Ahead /\ Len(NextBoundary) = 2
               /\ NextBoundary[1] = agenda[2] /\ agenda[2].in = 0
               /\ NextBoundary[2] = Event(1, "HandleSymbolBoundary", NoSymbol)
<1> DEFINE rest == Tail(agenda)
           boundary == Event(1, "HandleSymbolBoundary", NoSymbol)
<1>1. /\ agenda[1].event = "HandleSymbolBoundary" /\ agenda[1].in = 0
      /\ Len(agenda) \in Nat \ {0}
      /\ rest \in Seq(Events) /\ Sorted(rest) /\ Len(rest) = Len(agenda) - 1
      /\ \A i \in 1 .. Len(agenda) - 1 : rest[i] = agenda[i + 1]
  BY DueFacts DEF PipelineInv
<1>2. Idle \/ Ahead
  BY <1>1 DEF PipelineInv, Meeting
<1>3. boundary \in Events /\ boundary.in = 1
  BY BoundaryFacts
<1> HIDE DEF rest, boundary
<1>4. Idle => Len(rest) = 0
  BY <1>1 DEF Idle
<1>5. Ahead => Len(rest) = 1 /\ rest[1] = agenda[2] /\ agenda[2].in = 0
  BY <1>1 DEF Ahead
<1>6. \A i \in 1 .. Len(rest) : rest[i].in <= boundary.in
  BY <1>2, <1>3, <1>4, <1>5
<1>7. /\ Schedule(rest, boundary) \in Seq(Events) /\ Sorted(Schedule(rest, boundary))
      /\ Len(Schedule(rest, boundary)) = Len(rest) + 1
      /\ Schedule(rest, boundary)[Len(rest) + 1] = boundary
      /\ \A i \in 1 .. Len(rest) : Schedule(rest, boundary)[i] = rest[i]
  BY <1>1, <1>3, <1>6, ScheduleAtEnd
<1>8. NextBoundary = Schedule(rest, boundary)
  BY DEF NextBoundary, rest, boundary
<1>9. CASE Idle
  BY <1>4, <1>7, <1>8, <1>9 DEF boundary
<1>10. CASE Ahead
  <2>1. Len(rest) = 1 /\ 1 \in 1 .. Len(rest)
    BY <1>5, <1>10
  <2> QED BY <1>5, <1>7, <1>8, <1>10, <2>1 DEF boundary
<1> QED BY <1>2, <1>7, <1>8, <1>9, <1>10

\* A boundary that schedules nothing.
LEMMA SkipKeepsPipeline ==
  ASSUME PipelineFactor = 1, PipelineInv, NEW free \in FreeCapacities,
         HandleSymbolBoundary(free), SkipSymbol
  PROVE  PipelineInv'
<1>1. DownstreamTyped'
  BY BoundaryTyped DEF PipelineInv
<1>2. req \in [0..PipelineFactor -> 0..Word - 1] /\ 0 \in 0..Word - 1
  BY ConstantFacts DEF PipelineInv, DownstreamTyped
<1>3. req'[1] = 0 /\ (req[0] = 0 => req'[0] = req[1])
  BY <1>2, PushOneSymbol DEF SkipSymbol
<1>4. agenda' = NextBoundary
  BY DEF SkipSymbol
<1>5. CASE /\ Idle /\ Len(agenda') = 1
           /\ agenda'[1] = Event(1, "HandleSymbolBoundary", NoSymbol)
  BY <1>1, <1>3, <1>5, BoundaryFacts DEF PipelineInv, Idle
<1>6. CASE /\ Ahead /\ Len(agenda') = 2
           /\ agenda'[1] = agenda[2] /\ agenda[2].in = 0
           /\ agenda'[2] = Event(1, "HandleSymbolBoundary", NoSymbol)
  <2>1. Meeting'
    BY <1>3, <1>6, BoundaryFacts DEF Ahead, Meeting
  <2> QED BY <1>1, <2>1 DEF PipelineInv
<1> QED BY <1>4, <1>5, <1>6, NextBoundaryFacts DEF HandleSymbolBoundary

\* A boundary that schedules a symbol.
LEMMA FillKeepsPipeline ==
  ASSUME PipelineFactor = 1, PipelineInv, NEW free \in FreeCapacities,
         HandleSymbolBoundary(free),
         GetEligibleTokens > 0, Pending > PipelineData, FillSymbol(free)
  PROVE  PipelineInv'
<1>1. DownstreamTyped' /\ DownstreamTyped
  BY BoundaryTyped DEF PipelineInv
<1>2. /\ msrTokens' \in 0..Word - 1 /\ msrTokens' <= MaxTrafficBurst
      /\ peakTokens' \in 0..Word - 1 /\ peakTokens' <= MaxPdu
  BY <1>1, ConstantFacts, RefilledFacts DEF HandleSymbolBoundary, DownstreamTyped
<1> DEFINE bytes == Min({GetEligibleTokens, Pending - PipelineData, free})
           symbol == Event(PipelineFactor, "SendSymbol",
                           [bytes |-> bytes, symbolState |-> SymbolCapacity - free])
<1>3. bytes \in 0..Budget /\ symbol \in Symbols
  BY <1>1, <1>2, ScheduledBytesFacts
<1>4. symbol.in = 1 /\ symbol.event = "SendSymbol" /\ symbol.arg.bytes = bytes
  BY DEF Event
<1>5. req' = PushToPipeline(bytes) /\ agenda' = Schedule(NextBoundary, symbol)
  BY DEF FillSymbol
<1> HIDE DEF bytes, symbol
<1>6. req'[1] = bytes /\ (req[0] = 0 => req'[0] = req[1])
  <2>1. bytes \in 0..Word - 1
    BY <1>3, BudgetFacts, ConstantFacts
  <2> QED BY <1>1, <1>5, <2>1, PushOneSymbol DEF DownstreamTyped
<1>7. NextBoundary \in Seq(Events) /\ Sorted(NextBoundary)
  BY NextBoundaryFacts DEF HandleSymbolBoundary
<1>8. ASSUME \A i \in 1 .. Len(NextBoundary) : NextBoundary[i].in <= 1
      PROVE  /\ Len(agenda') = Len(NextBoundary) + 1
             /\ agenda'[Len(NextBoundary) + 1] = symbol
             /\ \A i \in 1 .. Len(NextBoundary) : agenda'[i] = NextBoundary[i]
  <2>1. symbol \in Events /\ \A i \in 1 .. Len(NextBoundary) : NextBoundary[i].in <= symbol.in
    BY <1>3, <1>4, <1>8 DEF Events
  <2> QED BY <1>5, <1>7, <2>1, ScheduleAtEnd
<1>9. CASE /\ Idle /\ Len(NextBoundary) = 1
           /\ NextBoundary[1] = Event(1, "HandleSymbolBoundary", NoSymbol)
  <2>1. \A i \in 1 .. Len(NextBoundary) : NextBoundary[i].in <= 1
    BY <1>9, BoundaryFacts
  <2>2. /\ Len(agenda') = 2 /\ agenda'[2] = symbol
        /\ agenda'[1] = Event(1, "HandleSymbolBoundary", NoSymbol)
    BY <1>8, <1>9, <2>1
  <2>3. Ahead'
    BY <1>4, <1>6, <1>9, <2>2, BoundaryFacts DEF Idle, Ahead
  <2> QED BY <1>1, <2>3 DEF PipelineInv
<1>10. CASE /\ Ahead /\ Len(NextBoundary) = 2
            /\ NextBoundary[1] = agenda[2] /\ agenda[2].in = 0
            /\ NextBoundary[2] = Event(1, "HandleSymbolBoundary", NoSymbol)
  <2>1. \A i \in 1 .. Len(NextBoundary) : NextBoundary[i].in <= 1
    BY <1>10, BoundaryFacts
  <2>2. /\ Len(agenda') = 3 /\ agenda'[3] = symbol
        /\ agenda'[1] = agenda[2]
        /\ agenda'[2] = Event(1, "HandleSymbolBoundary", NoSymbol)
    BY <1>8, <1>10, <2>1
  <2>3. Meeting'
    BY <1>4, <1>6, <1>10, <2>2, BoundaryFacts DEF Ahead, Meeting
  <2> QED BY <1>1, <2>3 DEF PipelineInv
<1> QED BY <1>9, <1>10, NextBoundaryFacts DEF HandleSymbolBoundary

\* A symbol is sent, and its slot is empty.
LEMMA SendKeepsPipeline ==
  ASSUME PipelineFactor = 1, PipelineInv, SendSymbol
  PROVE  PipelineInv'
<1>1. /\ DownstreamTyped' /\ DownstreamTyped
      /\ agenda[1].arg.bytes \in 0..Budget
      /\ req' = [req EXCEPT ![0] = (req[0] - agenda[1].arg.bytes) % Word]
  BY SymbolTyped DEF PipelineInv
<1>2. /\ agenda[1].event = "SendSymbol" /\ agenda' = Tail(agenda)
      /\ Len(agenda') = Len(agenda) - 1
      /\ \A i \in 1 .. Len(agenda) - 1 : agenda'[i] = agenda[i + 1]
  BY <1>1, DueFacts DEF SendSymbol
<1>3. Meeting
  BY <1>2 DEF PipelineInv, Idle, Ahead
<1>4. req'[0] = 0 /\ req'[1] = req[1]
  <2>1. req \in [0..1 -> 0..Word - 1]
    BY <1>1 DEF DownstreamTyped
  <2>2. req[0] = agenda[1].arg.bytes /\ req[0] \in Nat
    BY <1>3, <2>1, ConstantFacts DEF Meeting
  <2>3. req[0] - agenda[1].arg.bytes = 0
    BY <2>2
  <2>4. 0 % Word = 0
    BY WordFacts, ConstantFacts
  <2> QED BY <1>1, <2>1, <2>3, <2>4
<1>5. CASE Len(agenda) = 2
  <2>1. Len(agenda') = 1 /\ agenda'[1] = agenda[2]
    BY <1>2, <1>5
  <2>2. agenda[2].event = "HandleSymbolBoundary" /\ agenda[2].in = 1 /\ req[1] = 0
    BY <1>3, <1>5 DEF Meeting
  <2>3. Idle'
    BY <1>4, <2>1, <2>2 DEF Idle
  <2> QED BY <1>1, <2>3 DEF PipelineInv
<1>6. CASE Len(agenda) = 3
  <2>1. Len(agenda') = 2 /\ agenda'[1] = agenda[2] /\ agenda'[2] = agenda[3]
    <3>1. 1 \in 1 .. Len(agenda) - 1 /\ 2 \in 1 .. Len(agenda) - 1
      BY <1>6
    <3>2. agenda'[1] = agenda[2] /\ agenda'[2] = agenda[3]
      BY <1>2, <3>1
    <3>3. Len(agenda') = 2
      BY <1>2, <1>6
    <3> QED BY <3>2, <3>3
  <2>2. /\ agenda[2].event = "HandleSymbolBoundary" /\ agenda[2].in = 1
        /\ agenda[3].event = "SendSymbol" /\ agenda[3].in = 1 /\ req[1] = agenda[3].arg.bytes
    BY <1>3, <1>6 DEF Meeting
  <2>3. Ahead'
    BY <1>4, <2>1, <2>2 DEF Ahead
  <2> QED BY <1>1, <2>3 DEF PipelineInv
<1> QED BY <1>3, <1>5, <1>6 DEF Meeting

\* Every step keeps the pipeline in one of its three phases.
LEMMA PipelineStep ==
  ASSUME PipelineFactor = 1, PipelineInv, [Next]_vars
  PROVE  PipelineInv'
<1>1. CASE AdvanceTime
  BY <1>1, TimeKeepsPipeline
<1>2. CASE \E free \in FreeCapacities : HandleSymbolBoundary(free)
  BY <1>2, SkipKeepsPipeline, FillKeepsPipeline DEF HandleSymbolBoundary
<1>3. CASE SendSymbol
  BY <1>3, SendKeepsPipeline
<1>4. CASE \E pdu \in PduSizes : SendFrom(pdu)
  <2>1. DownstreamTyped' /\ agenda' = agenda /\ req' = req
    BY <1>4, PacketArrives DEF PipelineInv, SendFrom
  <2> QED BY <2>1 DEF PipelineInv, Idle, Ahead, Meeting
<1>5. CASE UNCHANGED vars
  <2>1. DownstreamTyped' /\ agenda' = agenda /\ req' = req
    BY <1>5, DownstreamStep DEF PipelineInv, vars
  <2> QED BY <2>1 DEF PipelineInv, Idle, Ahead, Meeting
<1> QED BY <1>1, <1>2, <1>3, <1>4, <1>5 DEF Next, Simulate

\* The first boundary finds an empty pipeline.
LEMMA PipelineStart ==
  ASSUME PipelineFactor = 1, Init
  PROVE  PipelineInv
<1>1. DownstreamTyped
  BY StartTyped
<1>2. Len(agenda) = 1 /\ agenda[1] = Event(1, "HandleSymbolBoundary", NoSymbol)
  BY DEF Init
<1>3. req[0] = 0 /\ req[1] = 0
  BY DEF Init
<1>4. Idle
  BY <1>2, <1>3, BoundaryFacts DEF Idle
<1> QED BY <1>1, <1>4 DEF PipelineInv

\* With the code's default of one symbol, slot 0 of the pipeline holds exactly
\* the bytes of the symbol that is sent, although the boundary that fills slot 1
\* and the symbol that empties slot 0 fall on the same time: PopFromPipeline
\* never goes below zero, and no bytes stay behind when nothing is scheduled.
THEOREM SlotAlwaysHoldsSymbol == PipelineFactor = 1 => (Spec => []SlotHoldsSymbol)
<1> SUFFICES ASSUME PipelineFactor = 1 PROVE Spec => []SlotHoldsSymbol
  OBVIOUS
<1>1. Init => PipelineInv
  BY PipelineStart
<1>2. PipelineInv /\ [Next]_vars => PipelineInv'
  BY PipelineStep
<1>3. PipelineInv => SlotHoldsSymbol
  <2> SUFFICES ASSUME PipelineInv PROVE SlotHoldsSymbol
    OBVIOUS
  <2>1. ASSUME Due("SendSymbol") PROVE req[0] = Head(agenda).arg.bytes
    <3>1. Head(agenda) = agenda[1] /\ agenda[1].event = "SendSymbol"
      BY <2>1, DueFacts DEF PipelineInv
    <3> QED BY <3>1 DEF PipelineInv, Idle, Ahead, Meeting
  <2>2. ASSUME \A i \in DOMAIN agenda : agenda[i].event # "SendSymbol"
        PROVE  \A i \in DOMAIN req : req[i] = 0
    <3>1. DOMAIN agenda = 1 .. Len(agenda) /\ DOMAIN req = 0..1
      BY EventFacts DEF PipelineInv, DownstreamTyped
    <3>2. ~ Ahead
      BY <2>2, <3>1 DEF Ahead
    <3>3. ~ Meeting
      BY <2>2, <3>1 DEF Meeting
    <3> QED BY <3>1, <3>2, <3>3 DEF PipelineInv, Idle
  <2> QED BY <2>1, <2>2 DEF SlotHoldsSymbol
<1> QED BY <1>1, <1>2, <1>3, PTL DEF Spec

-----------------------------------------------------------------------------
(* The device queue.                                                       *)

\* The size of the device queue is a number of bytes.
LEMMA DeviceQueueSizeFacts == DeviceQueueSize \in Nat
<1>1. 3 * SymbolCapacity \in Nat /\ 3 * MaxFrame \in Nat
  BY DownstreamAssumption
<1> DEFINE a == 3 * SymbolCapacity
           b == 3 * MaxFrame
<1>2. a \in Nat /\ b \in Nat /\ DeviceQueueSize = Max({a, b})
  BY <1>1 DEF DeviceQueueSize
<1> HIDE DEF a, b
<1> QED BY <1>2, MaxOfTwo

\* A device that believes to hold less than two budgets has room for a packet.
LEMMA RoomForPacket ==
  ASSUME DeviceQueueSuffices, frag \in Fragments,
         NEW s \in Seq(PduSizes), FrameBytes(s) <= DeviceQueueSize,
         InternallyQueued(s) < 2 * Budget, NEW pdu \in PduSizes
  PROVE  FrameBytes(Append(s, pdu)) <= DeviceQueueSize
<1>1. PICK k \in Nat \ {0} : \A p \in PduSizes :
        /\ DeviceQueueSize + p < Word /\ k * Header <= p
        /\ (k + 1) * (2 * Budget + Header) + k * (p + Header) <= k * DeviceQueueSize
  BY DEF DeviceQueueSuffices
<1>2. /\ Header \in Nat /\ Header > 0 /\ Word \in Nat /\ Word > 0
      /\ Budget \in Nat /\ DeviceQueueSize \in Nat /\ pdu \in Nat
  BY ConstantFacts, BudgetFacts, DeviceQueueSizeFacts
<1>3. /\ s \in Seq(Nat) /\ Len(s) \in Nat
      /\ SumSeq(s) \in Nat /\ Len(s) * Header \in Nat
      /\ FrameBytes(s) = SumSeq(s) + Len(s) * Header
  BY PduFacts, FrameBytesFacts
<1> DEFINE sum == SumSeq(s)
           size == FrameBytes(s)
           x == sum + frag.pdu - frag.sent
<1>4. /\ x \in Int /\ InternallyQueued(s) = x % Word
      /\ frag.pdu \in Nat /\ frag.sent \in Nat /\ frag.sent < frag.pdu + Header
      /\ frag.pdu = 0 \/ frag.pdu \in PduSizes
  BY InternallyQueuedFacts DEF Fragments, NoFragment
<1>5. sum \in Nat /\ size \in Nat /\ sum <= size /\ size <= DeviceQueueSize
      /\ size = sum + Len(s) * Header
  BY <1>3
<1>6. x > sum - Header /\ x <= sum + frag.pdu
  <2> DEFINE held == frag.pdu
             gone == frag.sent
  <2>1. held \in Nat /\ gone \in Nat /\ gone < held + Header /\ x = sum + held - gone
    BY <1>4
  <2> HIDE DEF x, sum, held, gone
  <2>2. x > sum - Header /\ x <= sum + held
    BY <2>1, <1>2, <1>5
  <2> QED BY <2>2 DEF held
<1>7. sum < 2 * Budget + Header
  <2>1. x < Word
    <3>1. DeviceQueueSize + frag.pdu < Word
      BY <1>1, <1>2, <1>4
    <3> DEFINE held == frag.pdu
    <3>2. held \in Nat /\ DeviceQueueSize + held < Word /\ x <= sum + held
      BY <1>4, <1>6, <3>1
    <3> HIDE DEF x, sum, size, held
    <3> QED BY <1>2, <1>4, <1>5, <3>2
  <2> HIDE DEF x, sum, size
  <2>2. CASE x < 0
    BY <1>2, <1>4, <1>5, <1>6, <2>2
  <2>3. CASE x >= 0
    <3>1. x \in 0..Word - 1
      BY <1>2, <1>4, <2>1, <2>3
    <3>2. x % Word = x
      BY <1>4, <3>1, WordFacts
    <3>3. x < 2 * Budget
      BY <1>4, <3>2
    <3> QED BY <1>2, <1>4, <1>5, <1>6, <3>3
  <2> QED BY <1>4, <2>2, <2>3
<1>8. k * size <= (k + 1) * sum
  <2> DEFINE b == k * Header
             n == Len(s)
  <2>1. b \in Nat /\ \A i \in 1..n : b <= s[i]
    <3>1. k * Header \in Nat
      BY <1>2, Z3
    <3> QED BY <1>1, <3>1, PduFacts
  <2>2. b * n <= sum
    <3> HIDE DEF b
    <3> QED BY <1>3, <2>1, SumAtLeast
  <2>3. n \in Nat /\ size = sum + n * Header
    BY <1>3, <1>5
  <2>4. k * (n * Header) = b * n
    BY <1>2, <2>3, Z3
  <2> HIDE DEF n, sum, size, b
  <2>5. k * size = k * sum + k * (n * Header)
    BY <1>2, <1>5, <2>3, Z3
  <2>6. (k + 1) * sum = k * sum + sum
    BY <1>5, Z3
  <2>7. k * sum \in Int /\ b * n \in Int
    BY <1>5, <2>1, <2>3, Z3
  <2> QED BY <1>5, <2>2, <2>4, <2>5, <2>6, <2>7
<1>9. FrameBytes(Append(s, pdu)) = size + pdu + Header
  <2> DEFINE t == Append(s, pdu)
  <2>1. /\ t \in Seq(PduSizes) /\ Len(t) = Len(s) + 1
        /\ \A i \in 1 .. Len(s) : t[i] = s[i]
        /\ t[Len(t)] = pdu
    BY AppendProperties
  <2> HIDE DEF t
  <2>2. FrameBytes(t) = FrameBytes(s) + t[Len(t)] + Header
    BY <2>1, FrameBytesOneMore
  <2> QED BY <2>1, <2>2 DEF t
<1> HIDE DEF x, sum, size
<1> DEFINE bound == 2 * Budget + Header
           more == pdu + Header
<1>10. bound \in Nat /\ more \in Nat /\ sum <= bound
  BY <1>2, <1>5, <1>7
<1>11. (k + 1) * bound + k * more <= k * DeviceQueueSize
  BY <1>1
<1> HIDE DEF bound, more
<1>12. (k + 1) * sum <= (k + 1) * bound
  BY <1>5, <1>10, Z3
<1>13. k * (size + more) = k * size + k * more
  BY <1>5, <1>10, Z3
<1>14. k * (size + more) <= k * DeviceQueueSize
  <2>1. /\ k * size \in Int /\ k * more \in Int /\ k * (size + more) \in Int
        /\ (k + 1) * sum \in Int /\ (k + 1) * bound \in Int /\ k * DeviceQueueSize \in Int
    BY <1>2, <1>5, <1>10, Z3
  <2> QED BY <2>1, <1>8, <1>11, <1>12, <1>13
<1>15. size + more <= DeviceQueueSize
  <2> DEFINE y == size + more
  <2>1. y \in Nat /\ k * y <= k * DeviceQueueSize
    BY <1>5, <1>10, <1>14
  <2> HIDE DEF y
  <2>2. y <= DeviceQueueSize
    BY <2>1, <1>2, Z3
  <2> QED BY <2>2 DEF y
<1>16. FrameBytes(Append(s, pdu)) = size + more
  BY <1>9, <1>5, <1>2 DEF more
<1> QED BY <1>15, <1>16

\* No packet that a boundary moves is lost.
LEMMA StageLosesNothing ==
  ASSUME DeviceQueueSuffices, DeviceInv, NEW pipeline \in Int, pipeline <= 2 * Budget
  PROVE  /\ Stage(pipeline).lost = 0
         /\ FrameBytes(Stage(pipeline).device) <= DeviceQueueSize
<1> DEFINE n == Len(queue)
           Good(acc) == acc.lost = 0 /\ FrameBytes(acc.device) <= DeviceQueueSize
<1>1. DownstreamTyped /\ lost = 0 /\ FrameBytes(device) <= DeviceQueueSize
  BY DEF DeviceInv, PipelineInv
<1>2. PICK acc : Stages(pipeline, acc) /\ Stage(pipeline) = acc[n]
  BY <1>1, StageFacts
<1>3. n \in Nat /\ \A i \in 1..n : queue[i] \in PduSizes
  BY <1>1, PduFacts DEF DownstreamTyped
<1>4. /\ acc \in [0..n -> StageStates]
      /\ acc[0] = [device |-> device, rest |-> <<>>, lost |-> lost]
      /\ \A k \in 1..n : acc[k] = StagePacket(pipeline, acc[k - 1], queue[k])
  BY <1>2 DEF Stages
<1>5. Good(acc[0])
  BY <1>1, <1>4
<1>6. ASSUME NEW k \in 1..n, Good(acc[k - 1]) PROVE Good(acc[k])
  <2> DEFINE old == acc[k - 1]
             pdu == queue[k]
             new == StagePacket(pipeline, old, pdu)
  <2>1. old \in StageStates /\ pdu \in PduSizes /\ acc[k] = new
    BY <1>3, <1>4
  <2>2. frag \in Fragments
    BY <1>1 DEF DownstreamTyped
  <2> HIDE DEF old, pdu
  <2>3. \/ new.device = old.device /\ new.lost = old.lost
        \/ /\ new.device = Append(old.device, pdu) /\ new.lost = old.lost
           /\ FrameBytes(new.device) <= DeviceQueueSize
        \/ /\ new.device = old.device
           /\ InternallyQueued(old.device) < pipeline
           /\ ~ (FrameBytes(Append(old.device, pdu)) <= DeviceQueueSize)
    BY <2>1, <2>2, StagePacketFacts
  <2>4. old.device \in Seq(PduSizes) /\ old.lost = 0 /\ FrameBytes(old.device) <= DeviceQueueSize
    BY <2>1, <1>6 DEF StageStates, old
  <2>5. InternallyQueued(old.device) < pipeline => InternallyQueued(old.device) < 2 * Budget
    BY <2>2, <2>4, InternallyQueuedFacts, BudgetFacts, ConstantFacts
  <2>6. ~ /\ InternallyQueued(old.device) < pipeline
          /\ ~ (FrameBytes(Append(old.device, pdu)) <= DeviceQueueSize)
    BY <2>1, <2>2, <2>4, <2>5, RoomForPacket
  <2> HIDE DEF new
  <2>7. new.lost = 0 /\ FrameBytes(new.device) <= DeviceQueueSize
    BY <2>3, <2>4, <2>6
  <2> QED BY <2>1, <2>7
<1> HIDE DEF Good, n
<1> DEFINE Bad == {k \in 0..n : ~ Good(acc[k])}
<1>7. Bad = {}
  <2> SUFFICES ASSUME Bad # {} PROVE FALSE
    OBVIOUS
  <2>1. PICK k \in Bad : \A j \in Bad : k <= j
    <3>1. Bad \in SUBSET Nat
      OBVIOUS
    <3> HIDE DEF Bad
    <3> QED BY <3>1, LeastNumber
  <2>2. k \in 0..n /\ k # 0 /\ ~ Good(acc[k])
    BY <1>5
  <2>3. k \in 1..n /\ k - 1 \in 0..n /\ ~ (k <= k - 1)
    BY <1>3, <2>2
  <2>4. Good(acc[k - 1])
    BY <2>1, <2>3
  <2> QED BY <2>2, <2>3, <2>4, <1>6
<1>8. Good(acc[n])
  BY <1>3, <1>7
<1> QED BY <1>2, <1>8 DEF Good

\* Every step keeps the device queue within its size.
LEMMA DeviceStep ==
  ASSUME PipelineFactor = 1, DeviceQueueSuffices, DeviceInv, [Next]_vars
  PROVE  DeviceInv'
<1>1. PipelineInv' /\ DownstreamTyped /\ PipelineInv
  BY PipelineStep DEF DeviceInv, PipelineInv
<1>2. ASSUME lost' = lost, device' = device PROVE DeviceInv'
  BY <1>1, <1>2 DEF DeviceInv, FrameBytes, DeviceQueueSize
<1>3. CASE AdvanceTime \/ UNCHANGED vars \/ \E pdu \in PduSizes : SendFrom(pdu)
  BY <1>2, <1>3 DEF AdvanceTime, vars, SendFrom
<1>4. CASE SendSymbol
  <2>1. FrameBytes(device') <= FrameBytes(device) /\ device' \in Seq(PduSizes)
    BY <1>1, <1>4, SymbolTyped DEF DownstreamTyped
  <2>2. FrameBytes(device') \in Nat /\ FrameBytes(device) \in Nat /\ DeviceQueueSize \in Nat
    BY <1>1, <2>1, FrameBytesFacts, DeviceQueueSizeFacts DEF DownstreamTyped
  <2>3. FrameBytes(device') <= DeviceQueueSize
    BY <2>1, <2>2 DEF DeviceInv
  <2>4. lost' = 0
    BY <1>4 DEF SendSymbol, DeviceInv
  <2> QED BY <1>1, <2>3, <2>4 DEF DeviceInv
<1>5. ASSUME NEW free \in FreeCapacities, HandleSymbolBoundary(free)
      PROVE  DeviceInv'
  <2>1. CASE SkipSymbol
    BY <1>2, <2>1 DEF SkipSymbol
  <2>2. CASE GetEligibleTokens > 0 /\ Pending > PipelineData /\ FillSymbol(free)
    <3> DEFINE bytes == Min({GetEligibleTokens, Pending - PipelineData, free})
               pushed == PushToPipeline(bytes)
               pipeline == Total(pushed)
    <3>1. /\ device' = Stage(pipeline).device /\ lost' = Stage(pipeline).lost
      BY <2>2 DEF FillSymbol
    <3>2. bytes \in 0..Budget
      <4>1. /\ msrTokens' \in 0..Word - 1 /\ msrTokens' <= MaxTrafficBurst
            /\ peakTokens' \in 0..Word - 1 /\ peakTokens' <= MaxPdu
        BY <1>1, <1>5, ConstantFacts, RefilledFacts DEF HandleSymbolBoundary, DownstreamTyped
      <4> QED BY <1>1, <2>2, <4>1, ScheduledBytesFacts
    <3> HIDE DEF bytes
    <3>3. bytes \in 0..Word - 1 /\ bytes \in Int /\ Budget \in Nat
      BY <3>2, BudgetFacts, ConstantFacts
    <3>4. req \in [0..PipelineFactor -> 0..Word - 1]
      BY <1>1 DEF DownstreamTyped
    <3>5. pushed \in [0..PipelineFactor -> 0..Word - 1]
      BY <3>3, <3>4, PushFacts
    <3>6. pushed[1] = bytes /\ (req[0] = 0 => pushed[0] = req[1])
      BY <3>3, <3>4, PushOneSymbol
    <3>7. req[0] = 0 /\ req[1] \in 0..Budget
      <4>1. agenda[1].event = "HandleSymbolBoundary"
        BY <1>1, <1>5, DueFacts DEF HandleSymbolBoundary
      <4>2. CASE Idle
        BY <4>2, <3>3 DEF Idle
      <4>3. CASE Ahead
        <5>1. agenda \in Seq(Events) /\ 2 \in 1 .. Len(agenda) /\ agenda[2].event = "SendSymbol"
          BY <4>3, <1>1 DEF Ahead, DownstreamTyped
        <5>2. agenda[2] \in Symbols
          BY <5>1, EventFacts
        <5>3. agenda[2].arg.bytes \in 0..Budget
          BY <5>2, SymbolBytesFacts
        <5> QED BY <4>3, <5>3 DEF Ahead
      <4> QED BY <1>1, <4>1, <4>2, <4>3 DEF PipelineInv, Meeting
    <3> HIDE DEF pushed
    <3>8. pipeline \in 0..Word - 1 /\ pipeline <= pushed[0] + pushed[1]
      BY <3>5, TotalFacts
    <3> HIDE DEF pipeline
    <3>9. pipeline \in Int /\ pipeline <= 2 * Budget
      BY <3>2, <3>3, <3>6, <3>7, <3>8, ConstantFacts
    <3>10. lost' = 0 /\ FrameBytes(device') <= DeviceQueueSize
      BY <3>1, <3>9, StageLosesNothing
    <3> QED BY <1>1, <3>10 DEF DeviceInv
  <2> QED BY <1>5, <2>1, <2>2 DEF HandleSymbolBoundary
<1> QED BY <1>3, <1>4, <1>5 DEF Next, Simulate

\* With the code's default of one symbol, and a device queue that suffices for
\* the smallest packets, every packet that a boundary takes from the dual queue
\* is accepted by the device queue, whose Enqueue has no one to report to: nothing
\* is lost between the two, although the boundary counts data without headers
\* and the device queue counts frames.
THEOREM NothingEverLost ==
  PipelineFactor = 1 /\ DeviceQueueSuffices => (Spec => []NothingLost)
<1> SUFFICES ASSUME PipelineFactor = 1, DeviceQueueSuffices PROVE Spec => []NothingLost
  OBVIOUS
<1>1. Init => DeviceInv
  <2> SUFFICES ASSUME Init PROVE DeviceInv
    OBVIOUS
  <2>1. device = <<>> /\ lost = 0
    BY DEF Init
  <2>2. FrameBytes(device) = 0
    <3>1. <<>> \in Seq(PduSizes)
      OBVIOUS
    <3> QED BY <2>1, <3>1, FrameBytesPrefix
  <2> QED BY <2>1, <2>2, PipelineStart, DeviceQueueSizeFacts DEF DeviceInv
<1>2. DeviceInv /\ [Next]_vars => DeviceInv'
  BY DeviceStep
<1>3. DeviceInv => NothingLost
  BY DEF DeviceInv, NothingLost
<1> QED BY <1>1, <1>2, <1>3, PTL DEF Spec

=============================================================================
