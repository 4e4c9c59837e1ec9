------------------------- MODULE ConfigurationProofs -------------------------
(***************************************************************************)
(* Proofs about every configuration the devices accept, in whatever order  *)
(* they are configured and initialised: the MAP schedule meets its         *)
(* deadlines, the congestion model stays within a MAP, and sizes are       *)
(* accounted as they travel (the arithmetic of Timing, carried along the   *)
(* calls that may still move a device); the thresholds of the queues are a *)
(* ramp, and the parties that share a service flow derive the same from it.*)
(***************************************************************************)
EXTENDS Configuration, FiniteSetTheorems, TLAPS

\* Attributes for which StartScheduler ends: a minislot per frame, a frame
\* per MAP interval.
Legal(c) ==
  /\ AttributesChecked(c)
  /\ MinislotsPerFrame(c) > 0
  /\ FramesPerMap(c) > 0

-----------------------------------------------------------------------------
(* Integer division.                                                       *)

\* What division leaves.
LEMMA DivFacts ==
  ASSUME NEW a \in Nat, NEW b \in Nat, b > 0
  PROVE  /\ a \div b \in Nat
         /\ (a \div b) * b <= a
         /\ a < (a \div b) * b + b
BY Z3

\* Products of natural numbers are natural.
LEMMA ProductIsNat ==
  ASSUME NEW a \in Nat, NEW b \in Nat
  PROVE  a * b \in Nat
BY Z3

\* Products of positive numbers are positive.
LEMMA PositiveProduct ==
  ASSUME NEW a \in Nat, NEW b \in Nat, a > 0, b > 0
  PROVE  a * b \in Nat /\ a * b > 0
BY Z3

\* Factors keep the order of what they multiply.
LEMMA ProductOrder ==
  ASSUME NEW a \in Int, NEW b \in Int, NEW d \in Nat, a <= b
  PROVE  a * d <= b * d
BY Z3

\* Division undoes multiplication.
LEMMA DivOfProduct ==
  ASSUME NEW a \in Nat, NEW b \in Nat, b > 0
  PROVE  (a * b) \div b = a
<1>1. a * b \in Nat
  BY ProductIsNat
<1> DEFINE q == (a * b) \div b
<1>2. q \in Nat /\ q * b <= a * b /\ a * b < q * b + b
  BY <1>1, DivFacts
<1>3. q <= a
  BY <1>2, Z3
<1>4. q >= a
  BY <1>2, Z3
<1> QED BY <1>2, <1>3, <1>4

\* CeilDiv is the smallest multiple that covers.
LEMMA CeilDivFacts ==
  ASSUME NEW a \in Nat, NEW b \in Nat, b > 0
  PROVE  /\ CeilDiv(a, b) \in Nat
         /\ a <= CeilDiv(a, b) * b
<1>1. a + b - 1 \in Nat
  OBVIOUS
<1>2. CeilDiv(a, b) = (a + b - 1) \div b
  BY DEF CeilDiv
<1> QED BY <1>1, <1>2, DivFacts, Z3

-----------------------------------------------------------------------------
(* Derived attributes.                                                     *)

\* The attribute checkers bound every attribute.
LEMMA AttributeTypes ==
  ASSUME NEW c, Legal(c)
  PROVE  /\ c.usScSpacing \in {25000, 50000} /\ c.dsScSpacing \in {25000, 50000}
         /\ c.symbolsPerFrame \in 6..36 /\ c.usCpLen \in Nat /\ c.usCpLen >= 96
         /\ c.dsCpLen \in Nat /\ c.dsCpLen <= 1024 /\ c.dsIntlvM \in 1..32
         /\ c.cmtsMapProcTime \in Nat /\ c.mapInterval \in Nat
         /\ c.cmtsUsPipelineFactor \in Nat /\ c.cmUsPipelineFactor \in Nat
         /\ c.cmtsDsPipelineFactor \in Nat /\ c.cmDsPipelineFactor \in Nat
         /\ c.maximumDistance \in Nat /\ c.numUsSc \in Nat
         /\ c.usSpectralEfficiency \in Nat /\ c.usSpectralEfficiency >= 1
<1>1. AttributesChecked(c)
  BY DEF Legal
<1>2. /\ c.usScSpacing \in SymbolSpacings /\ c.dsScSpacing \in SymbolSpacings
      /\ c.usCpLen \in UsCpLens /\ c.dsCpLen \in DsCpLens
      /\ c.numUsSc \in UsSubcarriers /\ c.usSpectralEfficiency \in 1..12
      /\ c.maximumDistance \in ChannelLengths
      /\ c.symbolsPerFrame \in 6..36 /\ c.dsIntlvM \in 1..32
      /\ c.cmtsMapProcTime \in Nat /\ c.mapInterval \in Nat
      /\ c.cmtsUsPipelineFactor \in Nat /\ c.cmUsPipelineFactor \in Nat
      /\ c.cmtsDsPipelineFactor \in Nat /\ c.cmDsPipelineFactor \in Nat
  BY <1>1, Zenon DEF AttributesChecked
<1>3. c.usScSpacing \in {25000, 50000} /\ c.dsScSpacing \in {25000, 50000}
  BY <1>2, SMT DEF SymbolSpacings
<1>4. c.usCpLen \in Nat /\ c.usCpLen >= 96
  BY <1>2, SMT DEF UsCpLens
<1>5. c.dsCpLen \in Nat /\ c.dsCpLen <= 1024
  BY <1>2, SMT DEF DsCpLens
<1>6. /\ c.maximumDistance \in Nat /\ c.numUsSc \in Nat
      /\ c.usSpectralEfficiency \in Nat /\ c.usSpectralEfficiency >= 1
  BY <1>2, SMT DEF ChannelLengths, UsSubcarriers
<1> QED BY <1>2, <1>3, <1>4, <1>5, <1>6, SMT

\* A frame lasts at least six symbols of a 50 kHz subcarrier.
LEMMA FrameDurationFacts ==
  ASSUME NEW c, Legal(c)
  PROVE  FrameDuration(c) \in Nat /\ FrameDuration(c) >= 120000
<1> DEFINE symbol == 1000000000 \div c.usScSpacing
           prefix == (c.symbolsPerFrame * c.usCpLen * 625) \div 64
<1>1. symbol \in {20000, 40000}
  BY AttributeTypes, Z3
<1>2. c.symbolsPerFrame * c.usCpLen \in Nat
  BY AttributeTypes, ProductIsNat
<1>3. prefix \in Nat
  BY <1>2, DivFacts
<1>4. c.symbolsPerFrame * symbol \in Nat /\ c.symbolsPerFrame * symbol >= 120000
  <2>1. CASE symbol = 20000
    BY <2>1, AttributeTypes
  <2>2. CASE symbol = 40000
    BY <2>2, AttributeTypes
  <2> QED BY <1>1, <2>1, <2>2
<1>5. FrameDuration(c) = c.symbolsPerFrame * symbol + prefix
  BY DEF FrameDuration
<1> QED BY <1>3, <1>4, <1>5

\* The counts that Legal makes positive are natural numbers.
LEMMA CountTypes ==
  ASSUME NEW c, Legal(c)
  PROVE  /\ MinislotsPerFrame(c) \in Nat /\ MinislotsPerFrame(c) > 0
         /\ FramesPerMap(c) \in Nat /\ FramesPerMap(c) > 0
         /\ MinislotCapacity(c) \in Nat /\ MinislotCapacity(c) > 0
         /\ MinislotsPerMap(c) \in Nat
<1>1. MinislotsPerFrame(c) \in Nat
  <2>1. c.usScSpacing \div 1000 \in {25, 50}
    BY AttributeTypes, Z3
  <2>2. c.numUsSc * (c.usScSpacing \div 1000) \in Nat
    BY <2>1, AttributeTypes
  <2> QED BY <2>2, DivFacts DEF MinislotsPerFrame
<1>2. FramesPerMap(c) \in Nat
  <2>1. 2 * c.mapInterval + FrameDuration(c) \in Nat /\ 2 * FrameDuration(c) \in Nat
        /\ 2 * FrameDuration(c) > 0
    BY AttributeTypes, FrameDurationFacts
  <2> QED BY <2>1, DivFacts DEF FramesPerMap, RoundDiv
<1>3. MinislotCapacity(c) \in Nat /\ MinislotCapacity(c) > 0
  <2> DEFINE bits == ScPerMinislot(c) * c.symbolsPerFrame * c.usSpectralEfficiency
  <2>1. ScPerMinislot(c) \in {8, 16}
    BY AttributeTypes, Z3 DEF ScPerMinislot
  <2>2. ScPerMinislot(c) * c.symbolsPerFrame \in Nat
        /\ ScPerMinislot(c) * c.symbolsPerFrame >= 48
    <3>1. CASE ScPerMinislot(c) = 8
      BY <3>1, AttributeTypes
    <3>2. CASE ScPerMinislot(c) = 16
      BY <3>2, AttributeTypes
    <3> QED BY <2>1, <3>1, <3>2
  <2>3. c.usSpectralEfficiency \in Nat /\ c.usSpectralEfficiency >= 1
    BY AttributeTypes
  <2>4. bits \in Nat /\ bits >= 48
    BY <2>2, <2>3, Z3
  <2>5. MinislotCapacity(c) = bits \div 10
    BY DEF MinislotCapacity
  <2> HIDE DEF bits
  <2> QED BY <2>4, <2>5, Z3
<1>4. MinislotsPerMap(c) \in Nat
  BY <1>1, <1>2, ProductIsNat DEF MinislotsPerMap
<1> QED BY <1>1, <1>2, <1>3, <1>4 DEF Legal

\* A symbol lasts at most 45 us, and three of them no longer than a frame
\* and one symbol without its prefix.
LEMMA DelayTypes ==
  ASSUME NEW c, Legal(c)
  PROVE  /\ CmMapProcTime(c) \in Nat
         /\ DsSymbolTime(c) \in Nat
         /\ DsIntlvDelay(c) \in Nat
         /\ Rtt(c) \in Nat /\ Rtt(c) \div 2 \in Nat /\ 2 * (Rtt(c) \div 2) <= Rtt(c)
         /\ UsPipeline(c) \in Nat /\ UsPipeline(c) >= 1
         /\ DsPipeline(c) \in Nat
         /\ 3 * DsSymbolTime(c) <= FrameDuration(c) + DsPipeline(c)
<1>1. CmMapProcTime(c) \in Nat
  <2>1. FrameDuration(c) \div c.symbolsPerFrame \in Nat
    BY AttributeTypes, FrameDurationFacts, DivFacts
  <2> QED BY <2>1, FrameDurationFacts DEF CmMapProcTime
<1> DEFINE symbol == 1000000000 \div c.dsScSpacing
           prefix == (c.dsCpLen * 625) \div 128
<1>2. symbol \in {20000, 40000}
  BY AttributeTypes, Z3
<1>3. prefix \in Nat /\ prefix <= 5000
  <2>1. c.dsCpLen * 625 \in Nat /\ c.dsCpLen * 625 <= 640000
    BY AttributeTypes
  <2>2. prefix \in Nat /\ prefix * 128 <= c.dsCpLen * 625
    BY <2>1, DivFacts
  <2> QED BY <2>1, <2>2
<1>4. DsSymbolTime(c) = symbol + prefix
  BY DEF DsSymbolTime
<1>5. DsIntlvDelay(c) \in Nat
  BY <1>2, <1>3, <1>4, AttributeTypes, ProductIsNat DEF DsIntlvDelay
<1>6. Rtt(c) \in Nat /\ Rtt(c) \div 2 \in Nat /\ 2 * (Rtt(c) \div 2) <= Rtt(c)
  <2>1. Rtt(c) \in Nat
    BY AttributeTypes DEF Rtt
  <2> QED BY <2>1, DivFacts
<1>7. UsPipeline(c) \in Nat /\ UsPipeline(c) >= 1
  BY AttributeTypes DEF UsPipeline
<1> DEFINE k == c.cmtsDsPipelineFactor + c.cmDsPipelineFactor + 1
<1>8. k \in Nat /\ k >= 1 /\ DsPipeline(c) = k * symbol
  BY AttributeTypes DEF DsPipeline
<1>9. DsPipeline(c) \in Nat /\ DsPipeline(c) >= symbol
  <2>1. CASE symbol = 20000
    BY <2>1, <1>8
  <2>2. CASE symbol = 40000
    BY <2>2, <1>8
  <2> QED BY <1>2, <2>1, <2>2
<1> QED BY <1>1, <1>2, <1>3, <1>4, <1>5, <1>6, <1>7, <1>9, FrameDurationFacts

\* The request-to-grant delay in frames covers its parts in time.
LEMMA MinReqGntDelayFacts ==
  ASSUME NEW c, Legal(c)
  PROVE  /\ MinReqGntDelay(c) \in Nat
         /\ CmMapProcTime(c) + Rtt(c) + DsIntlvDelay(c) + c.cmtsMapProcTime + DsPipeline(c)
              + UsPipeline(c) * FrameDuration(c) <= MinReqGntDelay(c) * FrameDuration(c)
<1> DEFINE delay == CmMapProcTime(c) + Rtt(c) + DsIntlvDelay(c) + c.cmtsMapProcTime
                      + DsPipeline(c)
           frames == CeilDiv(delay, FrameDuration(c))
<1>1. delay \in Nat
  BY DelayTypes, AttributeTypes
<1>2. frames \in Nat /\ delay <= frames * FrameDuration(c)
  BY <1>1, FrameDurationFacts, CeilDivFacts
<1>3. MinReqGntDelay(c) = frames + UsPipeline(c)
  BY DEF MinReqGntDelay
<1>4. (frames + UsPipeline(c)) * FrameDuration(c)
        = frames * FrameDuration(c) + UsPipeline(c) * FrameDuration(c)
  BY <1>2, DelayTypes, FrameDurationFacts, Z3
<1>5. /\ frames * FrameDuration(c) \in Nat
      /\ UsPipeline(c) * FrameDuration(c) \in Nat
  BY <1>2, DelayTypes, FrameDurationFacts, ProductIsNat
<1> HIDE DEF delay, frames
<1>6. MinReqGntDelay(c) \in Nat
  BY <1>2, <1>3, DelayTypes
<1>7. delay + UsPipeline(c) * FrameDuration(c) <= MinReqGntDelay(c) * FrameDuration(c)
  BY <1>1, <1>2, <1>3, <1>4, <1>5
<1> QED BY <1>6, <1>7 DEF delay

-----------------------------------------------------------------------------
(* The MAP schedule.                                                       *)

\* The n-th allocation in frames: all schedules are whole numbers of them.
FirstFrame(c, n) == (FirstMapInterval(c) + n) * FramesPerMap(c)

\* The first allocation starts a request-to-grant delay after the start.
LEMMA FirstMapIntervalFacts ==
  ASSUME NEW c, Legal(c)
  PROVE  /\ FirstMapInterval(c) \in Nat /\ FirstMapInterval(c) >= 1
         /\ MinReqGntDelay(c) <= FirstMapInterval(c) * FramesPerMap(c)
<1> DEFINE k == CeilDiv(MinReqGntDelay(c), FramesPerMap(c))
<1>1. k \in Nat /\ MinReqGntDelay(c) <= k * FramesPerMap(c)
  BY MinReqGntDelayFacts, CountTypes, CeilDivFacts
<1>2. FirstMapInterval(c) = Larger(1, k)
  BY DEF FirstMapInterval
<1> HIDE DEF k
<1>3. FirstMapInterval(c) \in Nat /\ FirstMapInterval(c) >= 1 /\ k <= FirstMapInterval(c)
  BY <1>1, <1>2 DEF Larger
<1>4. k * FramesPerMap(c) <= FirstMapInterval(c) * FramesPerMap(c)
  BY <1>1, <1>3, CountTypes, ProductOrder
<1>5. k * FramesPerMap(c) \in Nat /\ FirstMapInterval(c) * FramesPerMap(c) \in Nat
  BY <1>1, <1>3, CountTypes, ProductIsNat
<1> QED BY <1>1, <1>3, <1>4, <1>5, MinReqGntDelayFacts

\* A MAP interval is a whole number of frames, and its minislots theirs.
LEMMA MapIntervalFacts ==
  ASSUME NEW c, Legal(c)
  PROVE  /\ ActualMapInterval(c) \in Nat /\ ActualMapInterval(c) > 0
         /\ TimeToMinislots(c, ActualMapInterval(c)) = MinislotsPerMap(c)
<1>1. ActualMapInterval(c) = FramesPerMap(c) * FrameDuration(c)
  BY DEF ActualMapInterval
<1>2. FramesPerMap(c) * FrameDuration(c) \in Nat /\ FramesPerMap(c) * FrameDuration(c) > 0
  BY CountTypes, FrameDurationFacts, PositiveProduct
<1>3. ActualMapInterval(c) \div FrameDuration(c) = FramesPerMap(c)
  BY <1>1, CountTypes, FrameDurationFacts, DivOfProduct
<1>4. MinislotsPerFrame(c) * FramesPerMap(c) = FramesPerMap(c) * MinislotsPerFrame(c)
  BY CountTypes, Z3
<1> QED BY <1>1, <1>2, <1>3, <1>4 DEF TimeToMinislots, MinislotsPerMap

\* Allocations and Ack Times are at the edges of frames.
LEMMA AllocStartFacts ==
  ASSUME NEW c, Legal(c), NEW n \in Nat
  PROVE  /\ FirstFrame(c, n) \in Nat
         /\ MinReqGntDelay(c) <= FirstFrame(c, n)
         /\ AllocStartTime(c, n) = FirstFrame(c, n) * MinislotsPerFrame(c)
         /\ AckTime(c, n) = (FirstFrame(c, n) - MinReqGntDelay(c)) * MinislotsPerFrame(c)
<1> DEFINE k == FirstMapInterval(c)
           f == FramesPerMap(c)
           m == MinislotsPerFrame(c)
           r == MinReqGntDelay(c)
<1>1. k \in Nat /\ f \in Nat /\ m \in Nat /\ r \in Nat /\ r <= k * f
  BY FirstMapIntervalFacts, CountTypes, MinReqGntDelayFacts
<1>2. FirstFrame(c, n) = (k + n) * f
  BY DEF FirstFrame
<1>3. AllocStartTime(c, n) = k * (f * m) + n * (f * m)
  BY MapIntervalFacts DEF AllocStartTime, FirstAllocStartTime, MinislotsPerMap
<1>4. AckTime(c, n) = AllocStartTime(c, n) - r * m
  BY DEF AckTime, MinReqGntDelaySlots
<1> HIDE DEF k, f, m, r
<1>5. (k + n) * f = k * f + n * f /\ k * f \in Nat /\ n * f \in Nat
  BY <1>1, Z3
<1>6. k * (f * m) + n * (f * m) = ((k + n) * f) * m
  BY <1>1, Z3
<1>7. ((k + n) * f) * m - r * m = ((k + n) * f - r) * m
  BY <1>1, <1>5, Z3
<1>8. r <= (k + n) * f /\ (k + n) * f \in Nat
  BY <1>1, <1>5
<1> QED BY <1>2, <1>3, <1>4, <1>6, <1>7, <1>8 DEF m, r

\* Minislots that are whole frames last as long as these.
LEMMA FramesToTime ==
  ASSUME NEW c, Legal(c), NEW x \in Nat
  PROVE  MinislotsToTime(c, x * MinislotsPerFrame(c)) = x * FrameDuration(c)
<1>1. (x * MinislotsPerFrame(c)) \div MinislotsPerFrame(c) = x
  BY CountTypes, DivOfProduct
<1>2. FrameDuration(c) * x = x * FrameDuration(c)
  BY FrameDurationFacts, Z3
<1> QED BY <1>1, <1>2 DEF MinislotsToTime

\* A MAP is made ahead of its allocation by its way to the cable modem.
LEMMA GenerateMapTimeFacts ==
  ASSUME NEW c, Legal(c), NEW n \in Nat
  PROVE  GenerateMapTime(c, n) = FirstFrame(c, n) * FrameDuration(c)
                                   - CmMapProcTime(c) - MapMessageArrivalDelay(c)
<1> DEFINE k == FirstMapInterval(c)
           f == FramesPerMap(c)
           d == FrameDuration(c)
<1>1. k \in Nat /\ f \in Nat /\ d \in Nat
  BY FirstMapIntervalFacts, CountTypes, FrameDurationFacts
<1>2. MapMessageArrivalDelay(c) \in Nat
  BY DelayTypes, AttributeTypes DEF MapMessageArrivalDelay
<1>3. GenerateMapTime(c, n)
        = k * (f * d) - CmMapProcTime(c) - MapMessageArrivalDelay(c) + n * (f * d)
  BY DEF GenerateMapTime, FirstGenerateMapTime, ActualMapInterval
<1>4. FirstFrame(c, n) * FrameDuration(c) = ((k + n) * f) * d
  BY DEF FirstFrame
<1> HIDE DEF k, f, d
<1>5. ((k + n) * f) * d = k * (f * d) + n * (f * d)
  BY <1>1, Z3
<1>6. k * (f * d) \in Nat /\ n * (f * d) \in Nat
  BY <1>1, ProductIsNat
<1> QED BY <1>2, <1>3, <1>4, <1>5, <1>6, DelayTypes

\* The allocations and Ack Times as times.
LEMMA AllocationTimes ==
  ASSUME NEW c, Legal(c), NEW n \in Nat
  PROVE  /\ MinislotsToTime(c, AllocStartTime(c, n)) = FirstFrame(c, n) * FrameDuration(c)
         /\ MinislotsToTime(c, AckTime(c, n))
              = FirstFrame(c, n) * FrameDuration(c) - MinReqGntDelay(c) * FrameDuration(c)
<1> DEFINE x == FirstFrame(c, n)
           r == MinReqGntDelay(c)
           d == FrameDuration(c)
<1>1. x \in Nat /\ r \in Nat /\ d \in Nat /\ x - r \in Nat
  BY AllocStartFacts, MinReqGntDelayFacts, FrameDurationFacts
<1>2. MinislotsToTime(c, AllocStartTime(c, n)) = x * d
  BY <1>1, AllocStartFacts, FramesToTime
<1>3. MinislotsToTime(c, AckTime(c, n)) = (x - r) * d
  BY <1>1, AllocStartFacts, FramesToTime
<1> HIDE DEF x, r, d
<1>4. (x - r) * d = x * d - r * d
  BY <1>1, Z3
<1> QED BY <1>2, <1>3, <1>4 DEF x, r, d

\* What the minimum request-grant delay, in time, leaves room for.
LEMMA DelayBudget ==
  ASSUME NEW c, Legal(c)
  PROVE  LET budget == MinReqGntDelay(c) * FrameDuration(c) IN
         /\ budget \in Nat
         /\ MapMessageArrivalDelay(c) \in Nat
         /\ RequestDelay(c) \in Nat
         /\ CmMapProcTime(c) < budget
         /\ CmMapProcTime(c) + MapMessageArrivalDelay(c) <= budget
         /\ RequestDelay(c) + CmMapProcTime(c) + MapMessageArrivalDelay(c)
              <= budget + Lateness(c)
<1> DEFINE budget == MinReqGntDelay(c) * FrameDuration(c)
           up == UsPipeline(c) * FrameDuration(c)
           half == Rtt(c) \div 2
           late == 3 * DsSymbolTime(c) - DsPipeline(c)
<1>1. budget \in Nat
  BY MinReqGntDelayFacts, FrameDurationFacts, ProductIsNat
<1>2. up \in Nat /\ up >= FrameDuration(c)
  <2>1. up \in Nat
    BY DelayTypes, FrameDurationFacts, ProductIsNat
  <2>2. 1 * FrameDuration(c) <= up
    BY DelayTypes, FrameDurationFacts, ProductOrder
  <2> QED BY <2>1, <2>2, FrameDurationFacts
<1>3. FrameDuration(c) * UsPipeline(c) = up
  BY DelayTypes, FrameDurationFacts, Z3
<1>4. CmMapProcTime(c) + Rtt(c) + DsIntlvDelay(c) + c.cmtsMapProcTime + DsPipeline(c) + up
        <= budget
  BY MinReqGntDelayFacts
<1>5. MapMessageArrivalDelay(c)
        = DsIntlvDelay(c) + 3 * DsSymbolTime(c) + half + c.cmtsMapProcTime
  BY DEF MapMessageArrivalDelay
<1>6. RequestDelay(c) = half + up
  BY <1>3 DEF RequestDelay
<1>7. half \in Nat /\ 2 * half <= Rtt(c)
  BY DelayTypes
<1>8. Lateness(c) = Larger(0, late)
  BY DEF Lateness
<1> HIDE DEF budget, up, half
<1>9. Lateness(c) \in Nat /\ late <= Lateness(c)
  BY <1>8, DelayTypes DEF Larger
<1>10. MapMessageArrivalDelay(c) \in Nat /\ RequestDelay(c) \in Nat
  BY <1>2, <1>5, <1>6, <1>7, DelayTypes, AttributeTypes
<1>11. CmMapProcTime(c) < budget
  BY <1>1, <1>2, <1>4, DelayTypes, AttributeTypes, FrameDurationFacts
<1>12. CmMapProcTime(c) + MapMessageArrivalDelay(c) <= budget
  BY <1>1, <1>2, <1>4, <1>5, <1>7, DelayTypes, AttributeTypes, FrameDurationFacts
<1>13. RequestDelay(c) + CmMapProcTime(c) + MapMessageArrivalDelay(c)
         <= budget + Lateness(c)
  BY <1>1, <1>2, <1>4, <1>5, <1>6, <1>7, <1>9, DelayTypes, AttributeTypes
<1> QED BY <1>1, <1>10, <1>11, <1>12, <1>13 DEF budget

\* StartScheduler schedules the first GenerateMap in the future, and no MAP
\* acknowledges requests of a time before the simulation.
THEOREM ScheduleStarts ==
  ASSUME NEW c, Legal(c), NEW n \in Nat
  PROVE  FirstGenerateMapTime(c) >= 0 /\ AckTime(c, n) >= 0
<1>1. AckTime(c, n) >= 0
  <2>1. FirstFrame(c, n) - MinReqGntDelay(c) \in Nat
    BY AllocStartFacts, MinReqGntDelayFacts
  <2>2. AckTime(c, n) \in Nat
    BY <2>1, AllocStartFacts, CountTypes, ProductIsNat
  <2> QED BY <2>2
<1>2. FirstGenerateMapTime(c) >= 0
  <2> DEFINE x == FirstFrame(c, 0)
             budget == MinReqGntDelay(c) * FrameDuration(c)
  <2>1. x \in Nat /\ MinReqGntDelay(c) <= x
    BY AllocStartFacts
  <2>2. budget <= x * FrameDuration(c)
    BY <2>1, MinReqGntDelayFacts, FrameDurationFacts, ProductOrder
  <2>3. x * FrameDuration(c) \in Nat
    BY <2>1, FrameDurationFacts, ProductIsNat
  <2>4. GenerateMapTime(c, 0)
          = x * FrameDuration(c) - CmMapProcTime(c) - MapMessageArrivalDelay(c)
    BY GenerateMapTimeFacts
  <2>5. budget \in Nat /\ MapMessageArrivalDelay(c) \in Nat
        /\ CmMapProcTime(c) + MapMessageArrivalDelay(c) <= budget
    BY DelayBudget
  <2>6. CmMapProcTime(c) \in Nat
    BY DelayTypes
  <2> HIDE DEF x, budget
  <2>7. GenerateMapTime(c, 0) \in Int /\ GenerateMapTime(c, 0) >= 0
    BY <2>2, <2>3, <2>4, <2>5, <2>6
  <2>8. GenerateMapTime(c, 0) = FirstGenerateMapTime(c) + 0 * ActualMapInterval(c)
    BY DEF GenerateMapTime
  <2>9. 0 * ActualMapInterval(c) = 0
    BY MapIntervalFacts
  <2>10. FirstGenerateMapTime(c) \in Int
    <3>1. FirstMapInterval(c) * ActualMapInterval(c) \in Nat
      BY FirstMapIntervalFacts, MapIntervalFacts, ProductIsNat
    <3> QED BY <2>5, <2>6, <3>1 DEF FirstGenerateMapTime
  <2> QED BY <2>7, <2>8, <2>9, <2>10
<1> QED BY <1>1, <1>2

\* Every MAP reaches the cable modem its processing time before the allocation
\* it describes, and after its Ack Time.
THEOREM MapsArriveInTime ==
  ASSUME NEW c, Legal(c), NEW n \in Nat
  PROVE  /\ MapArrivalTime(c, n)
              = MinislotsToTime(c, AllocStartTime(c, n)) - CmMapProcTime(c)
         /\ MapArrivalTime(c, n) > MinislotsToTime(c, AckTime(c, n))
<1> DEFINE start == FirstFrame(c, n) * FrameDuration(c)
           budget == MinReqGntDelay(c) * FrameDuration(c)
<1>1. start \in Nat
  BY AllocStartFacts, FrameDurationFacts, ProductIsNat
<1>2. GenerateMapTime(c, n) = start - CmMapProcTime(c) - MapMessageArrivalDelay(c)
  BY GenerateMapTimeFacts
<1>3. MapArrivalTime(c, n) = GenerateMapTime(c, n) + MapMessageArrivalDelay(c)
  BY DEF MapArrivalTime
<1>4. /\ MinislotsToTime(c, AllocStartTime(c, n)) = start
      /\ MinislotsToTime(c, AckTime(c, n)) = start - budget
  BY AllocationTimes
<1>5. budget \in Nat /\ MapMessageArrivalDelay(c) \in Nat /\ CmMapProcTime(c) < budget
  BY DelayBudget
<1>6. CmMapProcTime(c) \in Nat
  BY DelayTypes
<1> HIDE DEF start, budget
<1>7. MapArrivalTime(c, n) = start - CmMapProcTime(c)
  BY <1>1, <1>2, <1>3, <1>5, <1>6
<1>8. MapArrivalTime(c, n) > start - budget
  BY <1>1, <1>5, <1>6, <1>7
<1> QED BY <1>4, <1>7, <1>8

\* "The closest a request can be generated in order to be taken into account
\* in a MAP": one made by the Ack Time is known when the scheduler makes that
\* MAP, but for the downstream symbols' cyclic prefixes.
THEOREM RequestsAreKnown ==
  ASSUME NEW c, Legal(c), NEW n \in Nat
  PROVE  MinislotsToTime(c, AckTime(c, n)) + RequestDelay(c)
           <= GenerateMapTime(c, n) + Lateness(c)
<1> DEFINE start == FirstFrame(c, n) * FrameDuration(c)
           budget == MinReqGntDelay(c) * FrameDuration(c)
<1>1. start \in Nat
  BY AllocStartFacts, FrameDurationFacts, ProductIsNat
<1>2. GenerateMapTime(c, n) = start - CmMapProcTime(c) - MapMessageArrivalDelay(c)
  BY GenerateMapTimeFacts
<1>3. MinislotsToTime(c, AckTime(c, n)) = start - budget
  BY AllocationTimes
<1>4. /\ budget \in Nat /\ MapMessageArrivalDelay(c) \in Nat /\ RequestDelay(c) \in Nat
      /\ RequestDelay(c) + CmMapProcTime(c) + MapMessageArrivalDelay(c)
           <= budget + Lateness(c)
  BY DelayBudget
<1>5. Lateness(c) \in Int
  BY DelayTypes DEF Lateness, Larger
<1>6. CmMapProcTime(c) \in Nat
  BY DelayTypes
<1> HIDE DEF start, budget
<1> QED BY <1>1, <1>2, <1>3, <1>4, <1>5, <1>6

-----------------------------------------------------------------------------
(* The congestion model and the sizes.                                     *)

\* A rounded quotient is natural.
LEMMA RoundDivType ==
  ASSUME NEW a \in Nat, NEW b \in Nat, b > 0
  PROVE  RoundDiv(a, b) \in Nat
<1>1. 2 * a + b \in Nat /\ 2 * b \in Nat /\ 2 * b > 0
  OBVIOUS
<1>2. RoundDiv(a, b) = (2 * a + b) \div (2 * b)
  BY DEF RoundDiv
<1> QED BY <1>1, <1>2, DivFacts

\* A variation of more than the whole mean leaves nothing, never less.
LEMMA FreeAroundType ==
  ASSUME NEW mean \in Nat, NEW variation \in Nat
  PROVE  FreeAround(mean, variation) \subseteq Nat
<1> DEFINE w == (variation * mean) \div 100
<1>1. w \in Nat
  BY ProductIsNat, DivFacts
<1>2. CASE variation = 0 \/ w = 0
  BY <1>2 DEF FreeAround
<1>3. CASE ~(variation = 0 \/ w = 0)
  <2>1. FreeAround(mean, variation) = {Larger(mean + r, 0) : r \in -w .. w - 1}
    BY <1>3 DEF FreeAround
  <2> HIDE DEF w
  <2>2. \A r \in -w .. w - 1 : Larger(mean + r, 0) \in Nat
    BY <1>1 DEF Larger
  <2> QED BY <2>1, <2>2
<1> QED BY <1>2, <1>3

\* However the mean varies, the free capacity of a MAP is a part of it.
THEOREM FreeCapacityFits ==
  ASSUME NEW c, Legal(c), NEW mean \in Nat, NEW variation \in Nat
  PROVE  FreeMinislots(c, mean, variation) \subseteq 0..MinislotsPerMap(c)
<1>1. CASE mean = 0
  <2>1. FreeMinislots(c, mean, variation) = {MinislotsPerMap(c)}
    BY <1>1, SMT DEF FreeMinislots
  <2> QED BY <2>1, CountTypes
<1>2. CASE mean # 0
  <2> DEFINE total == RoundDiv(mean * ActualMapInterval(c), 8000)
  <2>1. total \in Nat
    <3>1. mean * ActualMapInterval(c) \in Nat
      BY MapIntervalFacts, ProductIsNat
    <3> QED BY <3>1, RoundDivType, SMT
  <2>2. FreeMinislots(c, mean, variation)
          = {Smaller(MinislotRound(c, bytes), MinislotsPerMap(c)) :
               bytes \in FreeAround(total, variation)}
    BY <1>2, SMT DEF FreeMinislots
  <2> HIDE DEF total
  <2>3. ASSUME NEW bytes \in FreeAround(total, variation)
        PROVE  Smaller(MinislotRound(c, bytes), MinislotsPerMap(c)) \in 0..MinislotsPerMap(c)
    <3>1. bytes \in Nat
      BY <2>1, FreeAroundType
    <3>2. MinislotRound(c, bytes) \in Nat
      BY <3>1, CountTypes, RoundDivType DEF MinislotRound
    <3> QED BY <3>2, CountTypes, SMT DEF Smaller
  <2> QED BY <2>2, <2>3
<1> QED BY <1>1, <1>2

\* Likewise of a downstream symbol.
THEOREM FreeBytesFit ==
  ASSUME NEW capacity \in Nat, NEW mean \in Nat, NEW variation \in Nat
  PROVE  FreeSymbolBytes(capacity, mean, variation) \subseteq 0..capacity
<1>1. FreeAround(mean, variation) \subseteq Nat
  BY FreeAroundType
<1>2. \A bytes \in Nat : Smaller(bytes, capacity) \in 0..capacity
  BY DEF Smaller
<1> QED BY <1>1, <1>2 DEF FreeSymbolBytes

\* What the scheduler, the queues and the counters call the size of a packet
\* is what AddHeaderTrailer, AddDocsisHeader and the padding make of it, for
\* every header size that the attribute's checker admits.
THEOREM SizesAreAccountedAsSent ==
  ASSUME NEW sdu \in Nat, NEW macHdrSize \in Nat, macHdrSize >= 6, macHdrSize <= 246
  PROVE  WireSize(sdu, macHdrSize) = GetMacFrameSize(sdu, macHdrSize)
<1>1. macHdrSize - 6 \in Nat /\ macHdrSize - 6 < 65536
  BY SMT
<1>2. (macHdrSize - 6) % 65536 = macHdrSize - 6
  BY <1>1, Z3
<1>3. DocsisHeaderSize(macHdrSize) = macHdrSize
  BY <1>2, SMT DEF DocsisHeaderSize
<1>4. WireSize(sdu, macHdrSize)
        = sdu + (IF sdu < 46 THEN 46 - sdu ELSE 0) + 14 + 4 + macHdrSize
  BY <1>3, SMT DEF WireSize
<1>5. GetMacFrameSize(sdu, macHdrSize) = Larger(sdu, 46) + 18 + macHdrSize
  BY SMT DEF GetMacFrameSize, GetDataPduSize, FramingSize
<1> QED BY <1>4, <1>5, SMT DEF Larger

-----------------------------------------------------------------------------
(* The calls that configure and initialise.                                *)

\* Attributes stay legal, and the startup requests of an initialised cable
\* modem are those of its present attributes.
ScheduleInv ==
  /\ DOMAIN phy = Devices /\ DOMAIN ready = Devices /\ DOMAIN device = Devices
  /\ \A d \in Devices : Legal(phy[d])
  /\ ready[Cm] => device[Cm].startupRequests = StartupRequests(phy[Cm])

\* The distance is no part of the frames and minislots.
LEMMA LegalAtAnyDistance ==
  ASSUME NEW c, Legal(c), NEW distance \in ChannelLengths
  PROVE  Legal([c EXCEPT !.maximumDistance = distance])
<1> DEFINE e == [c EXCEPT !.maximumDistance = distance]
<1>1. AttributesChecked(c)
  BY DEF Legal
<1>2. AttributesChecked(e)
  BY <1>1, SMT DEF AttributesChecked, PhyFields
<1>3. DOMAIN c = PhyFields
  BY <1>1, Zenon DEF AttributesChecked
<1>4. /\ e.usScSpacing = c.usScSpacing /\ e.numUsSc = c.numUsSc
      /\ e.symbolsPerFrame = c.symbolsPerFrame /\ e.usCpLen = c.usCpLen
      /\ e.mapInterval = c.mapInterval
  BY <1>3, SMT DEF PhyFields
<1> HIDE DEF e
<1>5. FrameDuration(e) = FrameDuration(c)
  BY <1>4, SMT DEF FrameDuration
<1>6. MinislotsPerFrame(e) = MinislotsPerFrame(c)
  BY <1>4, SMT DEF MinislotsPerFrame
<1>7. FramesPerMap(e) = FramesPerMap(c)
  BY <1>4, <1>5, SMT DEF FramesPerMap
<1>8. Legal(e)
  BY <1>2, <1>6, <1>7, Zenon DEF Legal
<1> QED BY <1>8 DEF e

\* There are two devices.
LEMMA DevicesDiffer == Cm \in Devices /\ Cmts \in Devices /\ Cm # Cmts
BY DEF Cm, Cmts, Devices

\* Install hands out legal attributes, and no startup requests.
LEMMA ScheduleInvInit == Init => ScheduleInv
<1> SUFFICES ASSUME NEW k \in Cases,
                    phy = [d \in Devices |-> k.phy],
                    ready = [d \in Devices |-> FALSE],
                    device = [d \in Devices |-> [deviceQueueSize |-> 0]]
             PROVE  ScheduleInv
  BY Zenon DEF Init
<1>1. Legal(k.phy)
  BY CaseAssumption, Zenon DEF Legal
<1>2. ~ready[Cm]
  BY DevicesDiffer
<1> QED BY <1>1, <1>2, Zenon DEF ScheduleInv

\* No call moves an initialised device, and DoInitialize of the cable modem
\* schedules the startup requests of the attributes it has.
LEMMA ScheduleInvNext == ScheduleInv /\ [Next]_vars => ScheduleInv'
<1> SUFFICES ASSUME ScheduleInv, [Next]_vars PROVE ScheduleInv'
  OBVIOUS
<1> USE DevicesDiffer
\* A step that leaves the variables of the invariant alone.
<1>1. ASSUME UNCHANGED <<phy, ready, device>> PROVE ScheduleInv'
  BY <1>1, Zenon DEF ScheduleInv
<1>2. ASSUME Abort PROVE ScheduleInv'
  BY <1>1, <1>2, Zenon DEF Abort, setup
<1>3. ASSUME NEW d \in Devices, NEW owner \in Devices, SetFlow(d, owner) PROVE ScheduleInv'
  BY <1>1, <1>2, <1>3, Zenon DEF SetFlow
<1>4. ASSUME NEW d \in Devices, NEW distance \in Distances, SetMaximumDistance(d, distance)
      PROVE  ScheduleInv'
  <2>1. /\ ~ready[d] /\ ready' = ready /\ device' = device
        /\ phy' = [phy EXCEPT ![d].maximumDistance = distance]
    BY <1>4, Zenon DEF SetMaximumDistance
  <2>2. DOMAIN phy' = Devices
    BY <2>1 DEF ScheduleInv
  <2>3. \A e \in Devices : Legal(phy'[e])
    <3>1. distance \in ChannelLengths
      BY DistanceAssumption
    <3>2. phy'[d] = [phy[d] EXCEPT !.maximumDistance = distance]
      BY <2>1 DEF ScheduleInv
    <3>3. Legal(phy'[d])
      BY <3>1, <3>2, LegalAtAnyDistance DEF ScheduleInv
    <3>4. \A e \in Devices \ {d} : phy'[e] = phy[e]
      BY <2>1 DEF ScheduleInv
    <3> QED BY <3>3, <3>4 DEF ScheduleInv
  <2>4. ready[Cm] => phy'[Cm] = phy[Cm]
    BY <2>1 DEF ScheduleInv
  <2> QED BY <2>1, <2>2, <2>3, <2>4, Zenon DEF ScheduleInv
<1>5. ASSUME InitializeCm PROVE ScheduleInv'
  <2>1. CASE Abort
    BY <1>2, <2>1
  <2>2. CASE ~Abort
    <3>1. phy' = phy /\ ready' = [ready EXCEPT ![Cm] = TRUE]
      BY <1>5, <2>2, Zenon DEF InitializeCm
    <3>2. PICK r : r.startupRequests = StartupRequests(phy[Cm])
                   /\ device' = [device EXCEPT ![Cm] = r]
      BY <1>5, <2>2 DEF InitializeCm
    <3> QED BY <3>1, <3>2 DEF ScheduleInv
  <2> QED BY <2>1, <2>2
<1>6. ASSUME InitializeCmts PROVE ScheduleInv'
  <2>1. CASE Abort
    BY <1>2, <2>1
  <2>2. CASE ~Abort
    <3>1. phy' = phy /\ ready' = [ready EXCEPT ![Cmts] = TRUE]
      BY <1>6, <2>2, SMT DEF InitializeCmts
    <3>2. PICK r : device' = [device EXCEPT ![Cmts] = r]
      BY <1>6, <2>2 DEF InitializeCmts
    <3> QED BY <3>1, <3>2 DEF ScheduleInv
  <2> QED BY <2>1, <2>2
<1>7. ASSUME StartScheduler PROVE ScheduleInv'
  BY <1>1, <1>2, <1>7, Zenon DEF StartScheduler, setup
<1>8. CASE UNCHANGED vars
  BY <1>1, <1>8, Zenon DEF vars, setup
<1> QED BY <1>3, <1>4, <1>5, <1>6, <1>7, <1>8, Zenon DEF Next

\* What the arithmetic says of one MAP.
LEMMA EachMapIsOnTime ==
  ASSUME NEW c, Legal(c), NEW n \in Nat
  PROVE  LET start == MinislotsToTime(c, AllocStartTime(c, n))
             ack   == MinislotsToTime(c, AckTime(c, n))
         IN  /\ AckTime(c, n) >= 0
             /\ MapArrivalTime(c, n) = start - CmMapProcTime(c)
             /\ MapArrivalTime(c, n) > ack
             /\ ack + RequestDelay(c) <= GenerateMapTime(c, n) + Lateness(c)
BY ScheduleStarts, MapsArriveInTime, RequestsAreKnown, Zenon

\* One request in each MAP interval until the first allocation.
LEMMA StartupRequestsFacts ==
  ASSUME NEW c, Legal(c)
  PROVE  LET requests == StartupRequests(c) IN
         /\ Cardinality(DOMAIN requests) * ActualMapInterval(c)
              = MinislotsToTime(c, FirstAllocStartTime(c))
         /\ \A i \in DOMAIN requests : \A t \in requests[i] :
              (i - 1) * ActualMapInterval(c) <= t /\ t < i * ActualMapInterval(c)
<1> DEFINE k == FirstMapInterval(c)
           f == FramesPerMap(c)
           d == FrameDuration(c)
           a == ActualMapInterval(c)
<1>1. k \in Nat /\ k >= 1 /\ f \in Nat /\ d \in Nat /\ d > 0 /\ a = f * d /\ a \in Nat
  BY FirstMapIntervalFacts, CountTypes, FrameDurationFacts, MapIntervalFacts, SMT
    DEF ActualMapInterval
<1>2. DOMAIN StartupRequests(c) = 1..k
  BY DEF StartupRequests
<1>3. Cardinality(1..k) = k
  BY <1>1, FS_Interval
<1>4. MinislotsToTime(c, FirstAllocStartTime(c)) = k * a
  <2>1. AllocStartTime(c, 0) = FirstAllocStartTime(c) + 0 * MinislotsPerMap(c)
    BY DEF AllocStartTime
  <2>2. 0 * MinislotsPerMap(c) = 0 /\ FirstAllocStartTime(c) \in Nat
    <3>1. FirstAllocStartTime(c) = k * MinislotsPerMap(c)
      BY MapIntervalFacts DEF FirstAllocStartTime
    <3> QED BY <1>1, <3>1, CountTypes, ProductIsNat
  <2>3. MinislotsToTime(c, AllocStartTime(c, 0)) = FirstFrame(c, 0) * d
    BY AllocationTimes
  <2>4. FirstFrame(c, 0) = (k + 0) * f
    BY DEF FirstFrame
  <2> HIDE DEF k, f, d, a
  <2>5. ((k + 0) * f) * d = k * (f * d)
    BY <1>1, Z3
  <2> QED BY <1>1, <2>1, <2>2, <2>3, <2>4, <2>5
<1>5. ASSUME NEW i \in 1..k, NEW t \in StartupRequests(c)[i]
      PROVE  (i - 1) * a <= t /\ t < i * a
  <2>1. PICK g \in 0 .. f - 1 : t = (i - 1) * a + g * d
    BY DEF StartupRequests
  <2> HIDE DEF k, f, d, a
  <2>2. g \in Nat /\ g + 1 \in Nat /\ g + 1 <= f /\ i \in Nat /\ i - 1 \in Nat
    BY <1>1
  <2>3. (g + 1) * d <= f * d
    BY <1>1, <2>2, ProductOrder
  <2>4. (g + 1) * d = g * d + d /\ g * d \in Nat
    BY <1>1, <2>2, Z3
  <2>5. i * a = (i - 1) * a + a /\ (i - 1) * a \in Nat
    BY <1>1, <2>2, Z3
  <2> QED BY <1>1, <2>1, <2>3, <2>4, <2>5
<1> QED BY <1>2, <1>3, <1>4, <1>5

\* Whatever the physical layer's attributes and however late the distance is
\* set, the schedule StartScheduler makes meets its deadlines.
THEOREM MapsAreAlwaysOnTime == Spec => []MapsAreOnTime
<1>1. ScheduleInv => MapsAreOnTime
  <2> SUFFICES ASSUME ScheduleInv, ready[Cm] PROVE MapsAreOnTime
    BY Zenon DEF MapsAreOnTime
  <2> DEFINE c == phy[Cm]
  <2>1. Legal(c) /\ device[Cm].startupRequests = StartupRequests(c)
    BY DevicesDiffer, Zenon DEF ScheduleInv
  <2> HIDE DEF c
  <2>2. FirstGenerateMapTime(c) >= 0
    BY <2>1, 0 \in Nat, ScheduleStarts, Zenon
  <2>3. \A n \in 0..2 : n \in Nat
    OBVIOUS
  <2> QED BY <2>1, <2>2, <2>3, EachMapIsOnTime, StartupRequestsFacts, Zenon
             DEF MapsAreOnTime, c
<1> QED BY <1>1, ScheduleInvInit, ScheduleInvNext, PTL DEF Spec

-----------------------------------------------------------------------------
(* What the TLVs and InitializeParams make of a queue's attributes.        *)

\* The members of a queue that the model has.
QueueFields ==
  {"llEstimator", "coupled", "couplingFactor", "schedulingWeight", "maxTh", "minTh", "lgRange",
   "maxFrameSize", "maxRate", "classicAqmLatencyTarget", "classicDscpOverwrite",
   "lowLatencyDscpOverwrite", "classicBufferSize", "lowLatencyConfigBufferSize",
   "vqMapInterval", "vqFramesPerMap", "pgsGrantInterval", "qProtectOn",
   "configureQpLatencyThreshold", "qpLatencyThreshold", "qpQueuingScoreThreshold",
   "qpDrainRateExponent"}

\* The range of the ramp is positive: 2 ^ n counts the subsets of n elements.
LEMMA PowerOfTwo ==
  ASSUME NEW n \in Nat
  PROVE  2 ^ n \in Nat /\ 2 ^ n > 0
<1>1. IsFiniteSet(1..n) /\ Cardinality(1..n) = n
  BY FS_Interval
<1>2. IsFiniteSet(SUBSET (1..n)) /\ Cardinality(SUBSET (1..n)) = 2 ^ n
  BY <1>1, FS_SUBSET
<1>3. Cardinality(SUBSET (1..n)) \in Nat /\ Cardinality(SUBSET (1..n)) # 0
  BY <1>2, FS_CardinalityType, FS_EmptySet
<1> QED BY <1>2, <1>3

\* The classic flow's TLVs touch nothing of the low latency queue.
LEMMA ClassicOverridesFacts ==
  ASSUME NEW q, DOMAIN q = QueueFields, NEW sf
  PROVE  LET r == ClassicOverrides(q, sf) IN
         /\ DOMAIN r = QueueFields
         /\ \A f \in QueueFields : f \notin {"classicDscpOverwrite", "classicBufferSize",
                                             "classicAqmLatencyTarget"} => r[f] = q[f]
<1> DEFINE dscp == Override(q.classicDscpOverwrite, sf.tosOverwrite, 0)
           buffer == Override(q.classicBufferSize, sf.targetBuffer, 0)
           target == Override(IF sf.aqmDisable THEN 10000 ELSE q.classicAqmLatencyTarget,
                              sf.classicAqmTarget, 0)
<1>1. ClassicOverrides(q, sf) =
        [q EXCEPT !.classicDscpOverwrite = dscp, !.classicBufferSize = buffer,
                  !.classicAqmLatencyTarget = target]
  BY DEF ClassicOverrides
<1> HIDE DEF dscp, buffer, target
<1> QED BY <1>1

\* The low latency flow's TLVs: a disabled AQM sets MAXTH before its TLV does.
LowLatencyOverridden(r, q, sf) ==
  /\ DOMAIN r = QueueFields
  /\ \A f \in QueueFields : f \notin {"lowLatencyDscpOverwrite", "lowLatencyConfigBufferSize",
                                      "maxTh", "lgRange", "couplingFactor"} => r[f] = q[f]
  /\ r.maxTh = Override(IF sf.aqmDisable THEN DisabledTh ELSE q.maxTh,
                        1000 * sf.iaqmMaxThresh, 0)
  /\ r.lgRange = Override(q.lgRange, sf.iaqmRangeExponent, 0)

\* That is what they do.
LEMMA LowLatencyOverridesFacts ==
  ASSUME NEW q, DOMAIN q = QueueFields, NEW sf
  PROVE  LowLatencyOverridden(LowLatencyOverrides(q, sf), q, sf)
BY DEF LowLatencyOverrides, LowLatencyOverridden, QueueFields

\* The aggregate's TLVs leave the thresholds alone.
LEMMA AggregateOverridesFacts ==
  ASSUME NEW q, DOMAIN q = QueueFields, NEW flow
  PROVE  LET r == AggregateOverrides(q, flow) IN
         /\ DOMAIN r = QueueFields
         /\ \A f \in QueueFields : f \notin {"coupled", "couplingFactor", "schedulingWeight",
              "qProtectOn", "configureQpLatencyThreshold", "qpLatencyThreshold",
              "qpQueuingScoreThreshold", "qpDrainRateExponent"} => r[f] = q[f]
         /\ r.coupled = TriState(q.coupled, flow.coupled)
         /\ r.schedulingWeight = Override(q.schedulingWeight, flow.schedulingWeight, 0)
         /\ r.configureQpLatencyThreshold =
              (q.configureQpLatencyThreshold \/ flow.qpLatencyThreshold # 65535)
         /\ r.qpLatencyThreshold = Override(q.qpLatencyThreshold, flow.qpLatencyThreshold, 65535)
BY DEF AggregateOverrides, QueueFields

\* What the TLVs leave of a queue's attributes.
Attached(r, q, flow) ==
  /\ DOMAIN r = QueueFields
  /\ \A f \in {"llEstimator", "minTh", "maxFrameSize", "maxRate", "vqMapInterval",
               "vqFramesPerMap", "pgsGrantInterval"} : r[f] = q[f]
  /\ r.coupled = TriState(q.coupled /\ ~OneFlow(flow), flow.coupled)
  /\ r.schedulingWeight = Override(q.schedulingWeight, flow.schedulingWeight, 0)
  /\ r.maxTh = Override(IF flow.lowLatency.aqmDisable THEN DisabledTh ELSE q.maxTh,
                        1000 * flow.lowLatency.iaqmMaxThresh, 0)
  /\ r.lgRange = Override(q.lgRange, flow.lowLatency.iaqmRangeExponent, 0)
  /\ r.configureQpLatencyThreshold =
       (q.configureQpLatencyThreshold \/ flow.qpLatencyThreshold # 65535)
  /\ r.qpLatencyThreshold = Override(q.qpLatencyThreshold, flow.qpLatencyThreshold, 65535)

\* The three overrides after one another, for the attributes that matter here.
LEMMA AttachFacts ==
  ASSUME NEW q, DOMAIN q = QueueFields, NEW flow
  PROVE  Attached(AttachFlow(q, flow), q, flow)
<1> DEFINE a == [q EXCEPT !.coupled = @ /\ ~OneFlow(flow)]
           b == ClassicOverrides(a, flow.classic)
           c == LowLatencyOverrides(b, flow.lowLatency)
           r == AggregateOverrides(c, flow)
<1>1. /\ DOMAIN a = QueueFields
      /\ \A f \in QueueFields : f # "coupled" => a[f] = q[f]
      /\ a.coupled = (q.coupled /\ ~OneFlow(flow))
  BY DEF QueueFields
<1> HIDE DEF a
<1>2. /\ DOMAIN b = QueueFields
      /\ \A f \in QueueFields : f \notin {"classicDscpOverwrite", "classicBufferSize",
                                          "classicAqmLatencyTarget"} => b[f] = a[f]
  BY <1>1, ClassicOverridesFacts
<1> HIDE DEF b
<1>3. /\ DOMAIN c = QueueFields
      /\ \A f \in QueueFields : f \notin {"lowLatencyDscpOverwrite", "lowLatencyConfigBufferSize",
                                          "maxTh", "lgRange", "couplingFactor"} => c[f] = b[f]
      /\ c.maxTh = Override(IF flow.lowLatency.aqmDisable THEN DisabledTh ELSE b.maxTh,
                            1000 * flow.lowLatency.iaqmMaxThresh, 0)
      /\ c.lgRange = Override(b.lgRange, flow.lowLatency.iaqmRangeExponent, 0)
  <2>1. LowLatencyOverridden(c, b, flow.lowLatency)
    BY <1>2, LowLatencyOverridesFacts, Zenon
  <2> QED BY <2>1, Zenon DEF LowLatencyOverridden
<1> HIDE DEF c
<1>4. /\ DOMAIN r = QueueFields
      /\ \A f \in QueueFields : f \notin {"coupled", "couplingFactor", "schedulingWeight",
           "qProtectOn", "configureQpLatencyThreshold", "qpLatencyThreshold",
           "qpQueuingScoreThreshold", "qpDrainRateExponent"} => r[f] = c[f]
      /\ r.coupled = TriState(c.coupled, flow.coupled)
      /\ r.schedulingWeight = Override(c.schedulingWeight, flow.schedulingWeight, 0)
      /\ r.configureQpLatencyThreshold =
           (c.configureQpLatencyThreshold \/ flow.qpLatencyThreshold # 65535)
      /\ r.qpLatencyThreshold = Override(c.qpLatencyThreshold, flow.qpLatencyThreshold, 65535)
  BY <1>3, AggregateOverridesFacts
<1> HIDE DEF r
<1>5. \A f \in {"llEstimator", "minTh", "maxFrameSize", "maxRate", "vqMapInterval",
                "vqFramesPerMap", "pgsGrantInterval"} : r[f] = q[f]
  BY <1>1, <1>2, <1>3, <1>4 DEF QueueFields
<1>6. /\ c.coupled = (q.coupled /\ ~OneFlow(flow))
      /\ c.schedulingWeight = q.schedulingWeight
      /\ b.maxTh = q.maxTh /\ b.lgRange = q.lgRange
      /\ r.maxTh = c.maxTh /\ r.lgRange = c.lgRange
      /\ c.configureQpLatencyThreshold = q.configureQpLatencyThreshold
      /\ c.qpLatencyThreshold = q.qpLatencyThreshold
  BY <1>1, <1>2, <1>3, <1>4 DEF QueueFields
<1>7. AttachFlow(q, flow) = r
  BY Zenon DEF AttachFlow, ApplyOverrides, r, c, b, a
<1>8. Attached(r, q, flow)
  <2>1. /\ r.maxTh = Override(IF flow.lowLatency.aqmDisable THEN DisabledTh ELSE q.maxTh,
                              1000 * flow.lowLatency.iaqmMaxThresh, 0)
        /\ r.lgRange = Override(q.lgRange, flow.lowLatency.iaqmRangeExponent, 0)
    BY <1>3, <1>6
  <2>2. /\ r.coupled = TriState(q.coupled /\ ~OneFlow(flow), flow.coupled)
        /\ r.schedulingWeight = Override(q.schedulingWeight, flow.schedulingWeight, 0)
        /\ r.configureQpLatencyThreshold =
             (q.configureQpLatencyThreshold \/ flow.qpLatencyThreshold # 65535)
        /\ r.qpLatencyThreshold = Override(q.qpLatencyThreshold, flow.qpLatencyThreshold, 65535)
    BY <1>4, <1>6
  <2> QED BY <1>4, <1>5, <2>1, <2>2 DEF Attached
<1> QED BY <1>7, <1>8

\* What InitializeQueue makes of the attributes: thresholds of the ramp.
Initialized(r, q, flow) ==
  /\ DOMAIN r = QueueFields
  /\ \A f \in {"llEstimator", "coupled", "schedulingWeight", "lgRange", "maxFrameSize",
               "vqMapInterval", "vqFramesPerMap", "configureQpLatencyThreshold",
               "qpLatencyThreshold"} : r[f] = q[f]
  /\ r.maxRate = MaxRate(flow)
  /\ r.minTh = Larger(q.maxTh - 2 ^ q.lgRange, Floor(MaxRate(flow), q.maxFrameSize))
  /\ r.maxTh = Smaller(r.minTh + 2 ^ q.lgRange, MaxTh)
  /\ r.pgsGrantInterval = PgsGrantInterval(q, flow)

\* CheckConfig and InitializeParams after one another.
LEMMA InitializeFacts ==
  ASSUME NEW q, DOMAIN q = QueueFields, NEW flow
  PROVE  Initialized(InitializeQueue(q, flow), q, flow)
<1> DEFINE b == CheckConfig(q, flow)
           min == Larger(b.maxTh - 2 ^ b.lgRange, Floor(MaxRate(flow), b.maxFrameSize))
           max == Smaller(min + 2 ^ b.lgRange, MaxTh)
           r == [b EXCEPT !.maxRate = MaxRate(flow), !.minTh = min, !.maxTh = max,
                          !.pgsGrantInterval = PgsGrantInterval(b, flow)]
<1>1. /\ DOMAIN b = QueueFields
      /\ \A f \in QueueFields : f \notin {"classicBufferSize", "lowLatencyConfigBufferSize"}
           => b[f] = q[f]
  BY DEF CheckConfig
<1>2. InitializeQueue(q, flow) = r
  BY DEF InitializeQueue, InitializeParams
<1> HIDE DEF b, min, max
<1>3. /\ DOMAIN r = QueueFields
      /\ \A f \in QueueFields : f \notin {"maxRate", "minTh", "maxTh", "pgsGrantInterval"}
           => r[f] = b[f]
      /\ r.maxRate = MaxRate(flow) /\ r.minTh = min /\ r.maxTh = max
      /\ r.pgsGrantInterval = PgsGrantInterval(b, flow)
  BY <1>1 DEF QueueFields
<1> HIDE DEF r
<1>4. /\ b.maxTh = q.maxTh /\ b.lgRange = q.lgRange /\ b.maxFrameSize = q.maxFrameSize
      /\ b.vqMapInterval = q.vqMapInterval /\ b.vqFramesPerMap = q.vqFramesPerMap
      /\ b.llEstimator = q.llEstimator /\ b.pgsGrantInterval = q.pgsGrantInterval
  BY <1>1 DEF QueueFields
<1>5. \A f \in {"llEstimator", "coupled", "schedulingWeight", "lgRange", "maxFrameSize",
                "vqMapInterval", "vqFramesPerMap", "configureQpLatencyThreshold",
                "qpLatencyThreshold"} : r[f] = q[f]
  BY <1>1, <1>3 DEF QueueFields
<1>6. /\ r.minTh = Larger(q.maxTh - 2 ^ q.lgRange, Floor(MaxRate(flow), q.maxFrameSize))
      /\ r.maxTh = Smaller(r.minTh + 2 ^ q.lgRange, MaxTh)
  BY <1>3, <1>4 DEF min, max
<1>7. PgsGrantInterval(b, flow) = PgsGrantInterval(q, flow)
  BY <1>4 DEF PgsGrantInterval
<1>8. Initialized(r, q, flow)
  BY <1>3, <1>5, <1>6, <1>7 DEF Initialized
<1> QED BY <1>2, <1>8

\* The attributes that decide on the ramp, after the TLVs.
RampAttributes(q, flow) ==
  /\ q.maxTh = Override(IF flow.lowLatency.aqmDisable THEN DisabledTh ELSE 1000000,
                        1000 * flow.lowLatency.iaqmMaxThresh, 0)
  /\ q.lgRange = Override(19, flow.lowLatency.iaqmRangeExponent, 0)
  /\ q.maxFrameSize = 2000
  /\ q.configureQpLatencyThreshold = (flow.qpLatencyThreshold # 65535)
  /\ q.qpLatencyThreshold = Override(1000, flow.qpLatencyThreshold, 65535)

\* The ramp of an initialised queue, for the flow it was given.
Ramp(q, flow) ==
  /\ q.minTh \in Nat /\ q.maxTh \in Nat /\ q.maxTh <= MaxTh
  /\ ~flow.lowLatency.aqmDisable =>
       /\ ConfiguredMaxTh(flow) <= q.maxTh
       /\ \/ q.maxTh = q.minTh + 2 ^ q.lgRange
          \/ q.maxTh = MaxTh /\ q.minTh <= MaxTh
  /\ q.configureQpLatencyThreshold = (flow.qpLatencyThreshold # 65535)
  /\ flow.qpLatencyThreshold # 65535 => q.qpLatencyThreshold = flow.qpLatencyThreshold
  /\ flow.qpLatencyThreshold \in Nat

\* The widths of the TLVs bound their values.
LEMMA Widths ==
  /\ \A x \in Uint8 : x \in Nat
  /\ \A x \in Uint16 : x \in Nat /\ x <= 65535
BY SMT DEF Uint8, Uint16

\* The members of a flow that the user may write.
LEMMA FlowTypes ==
  ASSUME NEW flow \in AggregateServiceFlows
  PROVE  /\ flow.lowLatency.iaqmMaxThresh \in Nat /\ flow.lowLatency.iaqmMaxThresh <= 65535
         /\ flow.lowLatency.iaqmRangeExponent \in Nat
         /\ flow.lowLatency.aqmDisable \in BOOLEAN
         /\ flow.lowLatency.maxSustainedRate \in Nat
         /\ flow.lowLatency.guaranteedGrantRate \in Nat
         /\ flow.lowLatency.guaranteedGrantInterval \in Nat
         /\ flow.maxSustainedRate \in Nat /\ flow.peakRate \in Nat /\ flow.maxTrafficBurst \in Nat
         /\ flow.qpLatencyThreshold \in Nat /\ flow.schedulingWeight \in Nat
         /\ flow.single \in BOOLEAN /\ flow.coupled \in TriStates
<1>1. ASSUME NEW sf \in ServiceFlows
      PROVE  /\ sf.iaqmMaxThresh \in Nat /\ sf.iaqmMaxThresh <= 65535
             /\ sf.iaqmRangeExponent \in Nat /\ sf.aqmDisable \in BOOLEAN
             /\ sf.maxSustainedRate \in Nat
             /\ sf.guaranteedGrantRate \in Nat /\ sf.guaranteedGrantInterval \in Nat
  <2>1. CASE sf = NoFlow
    BY <2>1 DEF NoFlow, ServiceFlow
  <2>2. CASE sf # NoFlow
    <3>1. sf \in [sfid : {Classic, LowLatency}, maxSustainedRate : Nat, peakRate : Nat,
                  maxTrafficBurst : Nat, tosOverwrite : Nat, targetBuffer : Nat,
                  aqmDisable : BOOLEAN, classicAqmTarget : Uint8,
                  iaqmMaxThresh : Uint16, iaqmRangeExponent : Uint8,
                  guaranteedGrantRate : Nat, guaranteedGrantInterval : Uint16]
      BY <2>2, Zenon DEF ServiceFlows
    <3>2. /\ sf.iaqmMaxThresh \in Uint16 /\ sf.iaqmRangeExponent \in Uint8
          /\ sf.aqmDisable \in BOOLEAN /\ sf.maxSustainedRate \in Nat
          /\ sf.guaranteedGrantRate \in Nat /\ sf.guaranteedGrantInterval \in Uint16
      BY <3>1
    <3> QED BY <3>2, Widths, SMT
  <2> QED BY <2>1, <2>2
<1>2. /\ flow.lowLatency \in ServiceFlows
      /\ flow.maxSustainedRate \in Nat /\ flow.peakRate \in Nat /\ flow.maxTrafficBurst \in Nat
      /\ flow.qpLatencyThreshold \in Nat /\ flow.schedulingWeight \in Nat
      /\ flow.single \in BOOLEAN /\ flow.coupled \in TriStates
  <2>1. /\ flow.lowLatency \in ServiceFlows
        /\ flow.maxSustainedRate \in Nat /\ flow.peakRate \in Nat /\ flow.maxTrafficBurst \in Nat
        /\ flow.qpLatencyThreshold \in Uint16 /\ flow.schedulingWeight \in Uint8
        /\ flow.single \in BOOLEAN /\ flow.coupled \in TriStates
    BY DEF AggregateServiceFlows
  <2> QED BY <2>1, Widths, SMT
<1> QED BY <1>1, <1>2

\* The floor of MINTH is capped, by a rate however small.
LEMMA FloorFacts ==
  ASSUME NEW rate \in Nat
  PROVE  Floor(rate, 2000) \in Nat /\ Floor(rate, 2000) <= MaxTh
<1> DEFINE work == 16000 * 2000
<1>1. CASE rate = 0
  BY <1>1 DEF Floor, MaxTh
<1>2. CASE rate > 0
  <2>1. work \in Nat
    OBVIOUS
  <2>2. Floor(rate, 2000) = Smaller(MaxTh, (work \div rate) * 1000 + ((work % rate) * 1000) \div rate)
    BY <1>2 DEF Floor, MulDiv
  <2> HIDE DEF work
  <2>3. work \div rate \in Nat /\ work % rate \in Nat
    BY <2>1, <1>2, Z3
  <2>4. (work % rate) * 1000 \in Nat /\ (work \div rate) * 1000 \in Nat
    BY <2>3
  <2>5. ((work % rate) * 1000) \div rate \in Nat
    BY <2>4, <1>2, DivFacts
  <2> DEFINE x == (work \div rate) * 1000
             y == ((work % rate) * 1000) \div rate
  <2> HIDE DEF x, y
  <2>6. x + y \in Nat
    BY <2>4, <2>5 DEF x, y
  <2> QED BY <2>2, <2>6 DEF Smaller, MaxTh, x, y
<1> QED BY <1>1, <1>2

\* InitializeParams makes a ramp of whatever the TLVs have left.
LEMMA RampFacts ==
  ASSUME NEW flow \in AggregateServiceFlows, NEW q, RampAttributes(q, flow),
         NEW r, Initialized(r, q, flow)
  PROVE  Ramp(r, flow)
<1> DEFINE range == 2 ^ q.lgRange
           floor == Floor(MaxRate(flow), 2000)
<1>1. MaxRate(flow) \in Nat
  BY FlowTypes DEF MaxRate, Smaller
<1>2. floor \in Nat /\ floor <= MaxTh
  BY <1>1, FloorFacts
<1>3. q.lgRange \in Nat /\ r.lgRange = q.lgRange
  BY FlowTypes DEF RampAttributes, Initialized, Override
<1>4. range \in Nat /\ range > 0
  BY <1>3, PowerOfTwo
<1>5. /\ q.maxTh \in Nat
      /\ ~flow.lowLatency.aqmDisable => q.maxTh <= MaxTh /\ q.maxTh = ConfiguredMaxTh(flow)
  BY FlowTypes, DisabledThAssumption DEF RampAttributes, ConfiguredMaxTh, Override, MaxTh
<1>6. /\ r.minTh = Larger(q.maxTh - range, floor)
      /\ r.maxTh = Smaller(r.minTh + range, MaxTh)
  BY DEF Initialized, RampAttributes
<1> HIDE DEF range, floor
<1>7. r.minTh \in Nat /\ (r.minTh <= MaxTh \/ flow.lowLatency.aqmDisable)
  BY <1>2, <1>4, <1>5, <1>6 DEF Larger, MaxTh
<1>8. /\ r.maxTh \in Nat /\ r.maxTh <= MaxTh
      /\ r.maxTh = r.minTh + range \/ r.maxTh = MaxTh
  BY <1>4, <1>6, <1>7 DEF Smaller, MaxTh
<1>9. /\ r.configureQpLatencyThreshold = (flow.qpLatencyThreshold # 65535)
      /\ flow.qpLatencyThreshold # 65535 => r.qpLatencyThreshold = flow.qpLatencyThreshold
  BY DEF Initialized, RampAttributes, Override
<1>10. r.maxTh = r.minTh + 2 ^ r.lgRange \/ r.maxTh = MaxTh
  BY <1>3, <1>8 DEF range
<1>11. ~flow.lowLatency.aqmDisable => ConfiguredMaxTh(flow) <= r.maxTh
  BY <1>2, <1>4, <1>5, <1>6 DEF Larger, Smaller, MaxTh
<1> QED BY <1>7, <1>8, <1>9, <1>10, <1>11, FlowTypes DEF Ramp

\* The marking probability is one, and grows with the delay.
LEMMA ProbabilityFacts ==
  ASSUME NEW q, q.minTh \in Nat, q.maxTh \in Nat, NEW s \in Int, NEW t \in Int
  PROVE  /\ CalcProbNative(q, s)[2] > 0
         /\ CalcProbNative(q, s)[1] \in 0..CalcProbNative(q, s)[2]
         /\ s <= t => Leq(CalcProbNative(q, s), CalcProbNative(q, t))
<1>1. ASSUME NEW x \in Int
      PROVE  \/ CalcProbNative(q, x) = <<1, 1>> /\ x >= q.maxTh
             \/ /\ CalcProbNative(q, x) = <<x - q.minTh, q.maxTh - q.minTh>>
                /\ x < q.maxTh /\ x > q.minTh
             \/ CalcProbNative(q, x) = <<0, 1>> /\ x < q.maxTh /\ x <= q.minTh
  BY DEF CalcProbNative
<1>2. CalcProbNative(q, s)[2] > 0 /\ CalcProbNative(q, s)[1] \in 0..CalcProbNative(q, s)[2]
  BY <1>1
<1>3. ASSUME s <= t PROVE Leq(CalcProbNative(q, s), CalcProbNative(q, t))
  BY <1>1, <1>3 DEF Leq
<1> QED BY <1>2, <1>3

-----------------------------------------------------------------------------
(* The inductive invariant.                                                *)

\* Objects and who holds them: only the single flow of the upstream changes,
\* when the cable modem's initialisation scales it.
FlowsOK ==
  /\ aborted \in BOOLEAN /\ ready \in [Devices -> BOOLEAN]
  /\ given \in [Devices -> Devices \cup {Nobody}] /\ given[Cm] # Cmts
  /\ configured \in [Devices -> AggregateServiceFlows] /\ DOMAIN object = Devices
  /\ object[Cmts] = configured[Cmts]
  /\ object[Cm] = IF ready[Cm] /\ configured[Cm].single THEN ScaleRates(configured[Cm])
                                                         ELSE configured[Cm]
  /\ \A d \in Devices : given[d] # Nobody => QosSupported(configured[given[d]])

Estimator(d) == IF d = Cm THEN "QDelayCoupledV" ELSE "QDelayCoupledL"

\* A queue has its attributes' defaults until its device is initialised.
QueuesOK ==
  /\ DOMAIN queue = Devices
  /\ \A d \in Devices :
       /\ device[d].deviceQueueSize \in Nat
       /\ IF ready[d] THEN given[d] # Nobody /\ Ramp(queue[d], configured[given[d]])
                      ELSE queue[d] = DefaultQueue(Estimator(d))

GrantFrames(c, sf) ==
  Override(ActualMapInterval(c) \div 1000, sf.guaranteedGrantInterval, 0) \div FrameIntervalUs(c)

\* The scheduler has its defaults until then, and the flow, scaled, from then on.
SchedulerOK ==
  /\ scheduler.allocStartTime \in Nat /\ scheduler.lastPgsGrantTime \in Nat
  /\ scheduler.excessPgsBytesPerInterval \in Nat
  /\ DOMAIN scheduler = DOMAIN Unprovisioned
  /\ ~ready[Cm] => scheduler = Unprovisioned
  /\ ready[Cm] => scheduler.flow = ScaleRates(configured[Cm])
  /\ scheduler.started => ready[Cm]
  /\ scheduler.started /\ configured[Cm].lowLatency.guaranteedGrantRate > 0 =>
       /\ scheduler.pgsFrameInterval = GrantFrames(phy[Cm], configured[Cm].lowLatency)
       /\ scheduler.pgsFrameInterval # 0

\* What the queue of the cable modem shares with the scheduler.
CmAgrees ==
  ready[Cm] =>
    LET flow == configured[Cm]
        q    == queue[Cm]
    IN  /\ given[Cm] = Cm /\ QosSupported(flow)
        /\ flow.single => ~Has(flow.lowLatency)
        /\ ~flow.single => q.maxRate = flow.maxSustainedRate
        /\ q.schedulingWeight = scheduler.schedulingWeight
        /\ q.coupled = TriState(~OneFlow(flow), flow.coupled)
        /\ Has(flow.lowLatency) =>
             q.pgsGrantInterval =
               GrantFrames(phy[Cm], flow.lowLatency) * FrameIntervalUs(phy[Cm])

CmtsAgrees ==
  ready[Cmts] /\ (given[Cmts] = Cmts \/ ~configured[Cm].single) =>
      /\ device[Cmts].maxSustainedRate = configured[given[Cmts]].maxSustainedRate
      /\ device[Cmts].peakRate = configured[given[Cmts]].peakRate

DelayOK ==
  /\ channelDelay \in Nat
  /\ (\E d \in Devices : ready[d]) => \E d \in Devices : channelDelay = Rtt(phy[d]) \div 2

ConfigInv ==
  /\ ScheduleInv /\ FlowsOK /\ QueuesOK /\ SchedulerOK /\ CmAgrees /\ CmtsAgrees /\ DelayOK

-----------------------------------------------------------------------------
(* What one initialisation makes of a flow.                                *)

\* A scaled rate is a rate.
LEMMA ScaledType ==
  ASSUME NEW rate \in Nat
  PROVE  Scaled(rate) \in Nat
<1>1. MeanPacketSize \in Nat /\ MeanPacketSize > 0 /\ MeanPacketSize + UsMacHdrSize \in Nat
  BY SizeAssumption
<1>2. rate * (MeanPacketSize + UsMacHdrSize) \in Nat
  BY <1>1, ProductIsNat
<1> QED BY <1>1, <1>2, DivFacts DEF Scaled

\* Scaling changes rates, and of the flows at most the classic one's.
SameButRates(r, flow) ==
  /\ r.single = flow.single /\ r.lowLatency = flow.lowLatency /\ r.coupled = flow.coupled
  /\ r.schedulingWeight = flow.schedulingWeight /\ r.maxTrafficBurst = flow.maxTrafficBurst
  /\ r.qpLatencyThreshold = flow.qpLatencyThreshold
  /\ r.qpDrainRateExponent = flow.qpDrainRateExponent
  /\ Has(r.classic) <=> Has(flow.classic)

\* Provisioning scales the rates of a flow and keeps the rest of it.
LEMMA ScaleRatesFacts ==
  ASSUME NEW flow \in AggregateServiceFlows
  PROVE  /\ ScaleRates(flow) \in AggregateServiceFlows
         /\ SameButRates(ScaleRates(flow), flow)
         /\ ScaleRates(flow).maxSustainedRate = Scaled(flow.maxSustainedRate)
         /\ ScaleRates(flow).peakRate = Scaled(flow.peakRate)
<1> DEFINE rate == Scaled(flow.maxSustainedRate)
           peak == Scaled(flow.peakRate)
<1>1. rate \in Nat /\ peak \in Nat
  BY FlowTypes, ScaledType
<1>2. CASE flow.single /\ Has(flow.classic)
  <2> DEFINE sf == flow.classic
             scaled == [sf EXCEPT !.maxSustainedRate = Scaled(@), !.peakRate = Scaled(@)]
             r == [flow EXCEPT !.maxSustainedRate = rate, !.peakRate = peak, !.classic = scaled]
  <2>1. sf \in ServiceFlows
    BY DEF AggregateServiceFlows
  <2>2. sf \in ServiceFlows \ {NoFlow}
    BY <2>1, <1>2 DEF Has
  <2>3. Scaled(sf.maxSustainedRate) \in Nat /\ Scaled(sf.peakRate) \in Nat
    BY <2>2, ScaledType DEF ServiceFlows
  <2>4. scaled \in ServiceFlows \ {NoFlow}
    <3>1. scaled \in ServiceFlows /\ scaled.sfid = sf.sfid /\ sf.sfid \in {Classic, LowLatency}
      BY <2>2, <2>3 DEF ServiceFlows
    <3>2. NoFlow.sfid = None
      BY DEF NoFlow, ServiceFlow
    <3>3. scaled.sfid # NoFlow.sfid
      BY <3>1, <3>2 DEF None, Classic, LowLatency
    <3> QED BY <3>1, <3>3, Zenon
  <2>5. ScaleRates(flow) = r
    BY <1>2 DEF ScaleRates, AggregateServiceFlows
  <2> HIDE DEF scaled, rate, peak
  <2>6. r \in AggregateServiceFlows
    BY <1>1, <2>4 DEF AggregateServiceFlows
  <2>7. SameButRates(r, flow) /\ r.maxSustainedRate = rate /\ r.peakRate = peak
    BY <1>2, <2>4 DEF AggregateServiceFlows, SameButRates, Has
  <2> QED BY <2>5, <2>6, <2>7 DEF rate, peak
<1>3. CASE ~(flow.single /\ Has(flow.classic))
  <2> DEFINE r == [flow EXCEPT !.maxSustainedRate = rate, !.peakRate = peak]
  <2>1. ScaleRates(flow) = r
    BY <1>3 DEF ScaleRates, AggregateServiceFlows
  <2> HIDE DEF rate, peak
  <2>2. r \in AggregateServiceFlows
    BY <1>1 DEF AggregateServiceFlows
  <2>3. SameButRates(r, flow) /\ r.maxSustainedRate = rate /\ r.peakRate = peak
    BY DEF AggregateServiceFlows, SameButRates
  <2> QED BY <2>1, <2>2, <2>3 DEF rate, peak
<1> QED BY <1>2, <1>3

\* The frame counted in whole microseconds is positive, and the frame is
\* shorter than one more of them.
LEMMA FramesFacts ==
  ASSUME NEW c, Legal(c)
  PROVE  /\ FrameIntervalUs(c) \in Nat /\ FrameIntervalUs(c) > 0
         /\ FrameDuration(c) < 1000 * (FrameIntervalUs(c) + 1)
<1> DEFINE f == FramesPerMap(c)
           d == FrameDuration(c)
           a == f * d
           us == a \div 1000
           i == us \div f
<1>1. f \in Nat /\ f > 0 /\ d \in Nat /\ d >= 120000 /\ a \in Nat
  BY CountTypes, FrameDurationFacts, ProductIsNat
<1>2. FrameIntervalUs(c) = i
  BY DEF FrameIntervalUs, ActualMapInterval
<1> HIDE DEF f, d
<1>3. us \in Nat /\ us * 1000 <= a /\ a < us * 1000 + 1000
  BY <1>1, DivFacts
<1> HIDE DEF us
<1>4. i \in Nat /\ i * f <= us /\ us < i * f + f
  BY <1>1, <1>3, DivFacts
<1> HIDE DEF i
<1>5. i * f + f = (i + 1) * f /\ i * f \in Nat
  BY <1>1, <1>4, Z3
<1> DEFINE m == (i + 1) * f
<1> HIDE DEF m
<1>6. m \in Nat /\ us + 1 <= m
  <2>1. i * f + f = m
    BY <1>5 DEF m
  <2> DEFINE p == i * f
  <2>2. p \in Nat /\ us < p + f /\ p + f = m
    BY <1>4, <1>5, <2>1
  <2> HIDE DEF p
  <2> QED BY <2>2, <1>1, <1>3
<1>7. a < m * 1000
  BY <1>1, <1>3, <1>6
<1>8. m * 1000 = (1000 * (i + 1)) * f
  BY <1>1, <1>4, Z3 DEF m
<1>9. d < 1000 * (i + 1)
  <2> SUFFICES ASSUME 1000 * (i + 1) <= d PROVE FALSE
    BY <1>1, <1>4
  <2>1. (1000 * (i + 1)) * f <= d * f
    BY <1>1, <1>4, ProductOrder
  <2>2. d * f = a
    BY <1>1, Z3
  <2> QED BY <2>1, <2>2, <1>1, <1>4, <1>6, <1>7, <1>8
<1>10. i > 0
  BY <1>1, <1>4, <1>9
<1> QED BY <1>2, <1>4, <1>9, <1>10 DEF d

\* A grant interval of whole frames, which the truncated frame lengthens by
\* less than a microsecond for each.
LEMMA GrantFramesFacts ==
  ASSUME NEW c, Legal(c), NEW sf, sf.guaranteedGrantInterval \in Nat
  PROVE  LET ggi == Override(ActualMapInterval(c) \div 1000, sf.guaranteedGrantInterval, 0)
             frames == GrantFrames(c, sf)
         IN  /\ ggi \in Nat /\ frames \in Nat
             /\ frames # 0 => frames * FrameDuration(c) < 1000 * (ggi + frames)
<1> DEFINE ggi == Override(ActualMapInterval(c) \div 1000, sf.guaranteedGrantInterval, 0)
           i == FrameIntervalUs(c)
           d == FrameDuration(c)
           n == ggi \div i
<1>1. ggi \in Nat
  BY MapIntervalFacts, DivFacts DEF Override
<1>2. i \in Nat /\ i > 0 /\ d < 1000 * (i + 1) /\ d \in Nat
  BY FramesFacts, FrameDurationFacts
<1> HIDE DEF ggi, i, d
<1>3. n \in Nat /\ n * i <= ggi
  BY <1>1, <1>2, DivFacts
<1> HIDE DEF n
<1>4. ASSUME n # 0 PROVE n * d < 1000 * (ggi + n)
  <2>1. n * d < n * (1000 * (i + 1))
    BY <1>2, <1>3, <1>4, Z3
  <2>2. n * (1000 * (i + 1)) = 1000 * (n * i + n) /\ n * i \in Nat
    BY <1>2, <1>3, Z3
  <2>3. n * d \in Nat
    BY <1>2, <1>3, ProductIsNat
  <2> QED BY <2>1, <2>2, <2>3, <1>1, <1>3
<1>5. GrantFrames(c, sf) = n
  BY DEF GrantFrames, n, ggi, i
<1> QED BY <1>1, <1>3, <1>4, <1>5 DEF ggi, d

\* The defaults of the attributes that matter here.
LEMMA DefaultQueueFacts ==
  ASSUME NEW e
  PROVE  LET q == DefaultQueue(e) IN
         /\ DOMAIN q = QueueFields
         /\ q.llEstimator = e /\ q.coupled = TRUE /\ q.schedulingWeight = 230
         /\ q.maxTh = 1000000 /\ q.lgRange = 19 /\ q.maxFrameSize = 2000 /\ q.minTh = 0
         /\ q.configureQpLatencyThreshold = FALSE /\ q.qpLatencyThreshold = 1000
BY DEF DefaultQueue, QueueFields

\* What a device's queue has when its flow's TLVs have been read.
LEMMA AttachedDefaults ==
  ASSUME NEW e, NEW flow
  PROVE  LET q == AttachFlow(DefaultQueue(e), flow) IN
         /\ DOMAIN q = QueueFields /\ q.llEstimator = e
         /\ RampAttributes(q, flow)
         /\ q.schedulingWeight = Override(230, flow.schedulingWeight, 0)
         /\ q.coupled = TriState(TRUE /\ ~OneFlow(flow), flow.coupled)
<1> DEFINE d == DefaultQueue(e)
           q == AttachFlow(d, flow)
<1>1. /\ DOMAIN d = QueueFields
      /\ d.llEstimator = e /\ d.coupled = TRUE /\ d.schedulingWeight = 230
      /\ d.maxTh = 1000000 /\ d.lgRange = 19 /\ d.maxFrameSize = 2000
      /\ d.configureQpLatencyThreshold = FALSE /\ d.qpLatencyThreshold = 1000
  BY DefaultQueueFacts DEF DefaultQueue
<1>2. Attached(q, d, flow)
  BY <1>1, AttachFacts
<1> HIDE DEF d, q
<1>3. /\ DOMAIN q = QueueFields /\ q.llEstimator = e
      /\ q.maxFrameSize = 2000
  BY <1>1, <1>2 DEF Attached
<1>4. /\ q.schedulingWeight = Override(230, flow.schedulingWeight, 0)
      /\ q.coupled = TriState(TRUE /\ ~OneFlow(flow), flow.coupled)
      /\ q.maxTh = Override(IF flow.lowLatency.aqmDisable THEN DisabledTh ELSE 1000000,
                            1000 * flow.lowLatency.iaqmMaxThresh, 0)
      /\ q.lgRange = Override(19, flow.lowLatency.iaqmRangeExponent, 0)
      /\ q.qpLatencyThreshold = Override(1000, flow.qpLatencyThreshold, 65535)
  BY <1>1, <1>2 DEF Attached
<1>5. q.configureQpLatencyThreshold = (flow.qpLatencyThreshold # 65535)
  BY <1>1, <1>2 DEF Attached
<1> QED BY <1>3, <1>4, <1>5 DEF RampAttributes, q, d

\* The queue of the cable modem after its initialisation.
CmQueue(c, flow) ==
  InitializeQueue([AttachFlow(DefaultQueue("QDelayCoupledV"), flow) EXCEPT
                     !.vqMapInterval = ActualMapInterval(c),
                     !.vqFramesPerMap = FramesPerMap(c)], flow)

\* An aggregate whose low latency flow has no rate limits the queue by its own.
LEMMA MaxRateIsTheFlows ==
  ASSUME NEW flow \in AggregateServiceFlows, QosSupported(flow), ~flow.single
  PROVE  MaxRate(flow) = flow.maxSustainedRate
<1>1. flow.lowLatency.maxSustainedRate = 0
  BY DEF QosSupported, Has, NoFlow, ServiceFlow
<1> QED BY <1>1, FlowTypes DEF MaxRate

\* What DoInitialize of the cable modem leaves in its queue.
LEMMA CmQueueFacts ==
  ASSUME NEW c, Legal(c), NEW flow \in AggregateServiceFlows, QosSupported(flow),
         flow.single => ~Has(flow.lowLatency)
  PROVE  LET r == CmQueue(c, flow) IN
         /\ Ramp(r, flow)
         /\ ~flow.single => r.maxRate = flow.maxSustainedRate
         /\ r.schedulingWeight = Override(230, flow.schedulingWeight, 0)
         /\ r.coupled = TriState(~OneFlow(flow), flow.coupled)
         /\ Has(flow.lowLatency) =>
              r.pgsGrantInterval = GrantFrames(c, flow.lowLatency) * FrameIntervalUs(c)
<1> DEFINE a == AttachFlow(DefaultQueue("QDelayCoupledV"), flow)
           q == [a EXCEPT !.vqMapInterval = ActualMapInterval(c),
                          !.vqFramesPerMap = FramesPerMap(c)]
           r == InitializeQueue(q, flow)
<1>1. /\ DOMAIN a = QueueFields /\ a.llEstimator = "QDelayCoupledV"
      /\ RampAttributes(a, flow)
      /\ a.schedulingWeight = Override(230, flow.schedulingWeight, 0)
      /\ a.coupled = TriState(TRUE /\ ~OneFlow(flow), flow.coupled)
  BY AttachedDefaults
<1> HIDE DEF a
<1>2. /\ DOMAIN q = QueueFields
      /\ \A f \in QueueFields : f \notin {"vqMapInterval", "vqFramesPerMap"} => q[f] = a[f]
      /\ q.vqMapInterval = ActualMapInterval(c) /\ q.vqFramesPerMap = FramesPerMap(c)
  BY <1>1 DEF QueueFields
<1> HIDE DEF q
<1>3. /\ q.llEstimator = a.llEstimator /\ q.schedulingWeight = a.schedulingWeight
      /\ q.coupled = a.coupled /\ q.maxTh = a.maxTh /\ q.lgRange = a.lgRange
      /\ q.maxFrameSize = a.maxFrameSize
      /\ q.configureQpLatencyThreshold = a.configureQpLatencyThreshold
      /\ q.qpLatencyThreshold = a.qpLatencyThreshold
  BY <1>2 DEF QueueFields
<1>4. RampAttributes(q, flow)
  BY <1>1, <1>3 DEF RampAttributes
<1>5. Initialized(r, q, flow)
  BY <1>2, InitializeFacts
<1> HIDE DEF r
<1>6. Ramp(r, flow)
  BY <1>4, <1>5, RampFacts
<1>7. ~flow.single => r.maxRate = flow.maxSustainedRate
  BY <1>5, MaxRateIsTheFlows DEF Initialized
<1>8. r.schedulingWeight = Override(230, flow.schedulingWeight, 0)
  BY <1>1, <1>3, <1>5 DEF Initialized
<1>9. r.coupled = TriState(~OneFlow(flow), flow.coupled)
  <2>1. r.coupled = TriState(TRUE /\ ~OneFlow(flow), flow.coupled)
    BY <1>1, <1>3, <1>5 DEF Initialized
  <2>2. (TRUE /\ ~OneFlow(flow)) = ~OneFlow(flow)
    OBVIOUS
  <2> QED BY <2>1, <2>2, Zenon
<1>10. ASSUME Has(flow.lowLatency)
       PROVE  r.pgsGrantInterval = GrantFrames(c, flow.lowLatency) * FrameIntervalUs(c)
  <2>1. r.pgsGrantInterval = PgsGrantInterval(q, flow)
    BY <1>5 DEF Initialized
  <2>2. FramesPerMap(c) > 0 /\ ActualMapInterval(c) > 0
    BY CountTypes, MapIntervalFacts
  <2>3. q.llEstimator = "QDelayCoupledV" /\ ~flow.single
    BY <1>1, <1>3, <1>10, FlowTypes
  <2> QED BY <2>1, <2>2, <2>3, <1>2, <1>10
          DEF PgsGrantInterval, GrantFrames, FrameIntervalUs
<1>11. r = CmQueue(c, flow)
  BY DEF CmQueue, r, q, a
<1> QED BY <1>6, <1>7, <1>8, <1>9, <1>10, <1>11

\* The queue of the CMTS.
LEMMA CmtsQueueFacts ==
  ASSUME NEW flow \in AggregateServiceFlows, NEW interval
  PROVE  Ramp([InitializeQueue(AttachFlow(DefaultQueue("QDelayCoupledL"), flow), flow)
                 EXCEPT !.vqMapInterval = interval], flow)
<1> DEFINE a == AttachFlow(DefaultQueue("QDelayCoupledL"), flow)
           r == InitializeQueue(a, flow)
           s == [r EXCEPT !.vqMapInterval = interval]
<1>1. DOMAIN a = QueueFields /\ RampAttributes(a, flow)
  BY AttachedDefaults
<1> HIDE DEF a
<1>2. Initialized(r, a, flow)
  BY <1>1, InitializeFacts
<1> HIDE DEF r
<1>3. Ramp(r, flow)
  BY <1>1, <1>2, RampFacts
<1>4. \A f \in QueueFields : f # "vqMapInterval" => s[f] = r[f]
  BY <1>2 DEF Initialized
<1> HIDE DEF s
<1>5. /\ s.minTh = r.minTh /\ s.maxTh = r.maxTh /\ s.lgRange = r.lgRange
      /\ s.configureQpLatencyThreshold = r.configureQpLatencyThreshold
      /\ s.qpLatencyThreshold = r.qpLatencyThreshold
  BY <1>4 DEF QueueFields
<1>6. Ramp(s, flow)
  BY <1>3, <1>5 DEF Ramp
<1> QED BY <1>6 DEF s, r, a

\* Scaling changes nothing that matters to the ramp.
LEMMA RampOfScaled ==
  ASSUME NEW flow, NEW f, SameButRates(f, flow), NEW r, Ramp(r, f)
  PROVE  Ramp(r, flow)
BY DEF SameButRates, Ramp, ConfiguredMaxTh

-----------------------------------------------------------------------------
(* The invariant is inductive.                                             *)

\* The flow that a device with this queue was given.
LEMMA Attribution ==
  ASSUME FlowsOK, NEW d \in Devices, given[d] # Nobody
  PROVE  /\ given[d] \in Devices
         /\ configured[given[d]] \in AggregateServiceFlows
         /\ QosSupported(configured[given[d]])
         /\ object[given[d]] \in AggregateServiceFlows
         /\ \/ object[given[d]] = configured[given[d]]
            \/ SameButRates(object[given[d]], configured[given[d]])
         /\ object[given[d]].lowLatency = configured[given[d]].lowLatency
         /\ object[given[d]].single = configured[given[d]].single
<1>1. given[d] \in Devices /\ configured[given[d]] \in AggregateServiceFlows
  BY DEF FlowsOK
<1>2. \/ object[given[d]] = configured[given[d]]
      \/ object[given[d]] = ScaleRates(configured[given[d]])
  BY <1>1 DEF FlowsOK, Devices
<1>3. object[given[d]] \in AggregateServiceFlows
  BY <1>1, <1>2, ScaleRatesFacts
<1>4. \/ object[given[d]] = configured[given[d]]
      \/ SameButRates(object[given[d]], configured[given[d]])
  BY <1>1, <1>2, ScaleRatesFacts
<1>5. QosSupported(configured[given[d]])
  BY Zenon DEF FlowsOK
<1>6. /\ object[given[d]].lowLatency = configured[given[d]].lowLatency
      /\ object[given[d]].single = configured[given[d]].single
  BY <1>4 DEF SameButRates
<1> QED BY <1>1, <1>3, <1>4, <1>5, <1>6

\* After Install every device has its own flow, a default queue and no owner.
LEMMA ConfigInit == Init => ConfigInv
<1> SUFFICES ASSUME Init PROVE ConfigInv
  OBVIOUS
<1> USE DevicesDiffer
<1>1. PICK k \in Cases :
        /\ object = [d \in Devices |-> IF d = Cm THEN k.upstream ELSE k.downstream]
        /\ configured = object
        /\ given = [d \in Devices |-> Nobody]
        /\ ready = [d \in Devices |-> FALSE]
        /\ queue = [d \in Devices |->
                      DefaultQueue(IF d = Cm THEN "QDelayCoupledV" ELSE "QDelayCoupledL")]
        /\ scheduler = Unprovisioned
        /\ device = [d \in Devices |-> [deviceQueueSize |-> 0]]
        /\ channelDelay = 0
        /\ aborted = FALSE
  BY Zenon DEF Init
<1>2. ScheduleInv
  BY ScheduleInvInit
<1>3. FlowsOK
  <2>1. k.upstream \in AggregateServiceFlows /\ k.downstream \in AggregateServiceFlows
    BY FlowAssumption
  <2>2. configured \in [Devices -> AggregateServiceFlows] /\ DOMAIN object = Devices
    BY <1>1, <2>1
  <2>3. /\ aborted \in BOOLEAN /\ ready \in [Devices -> BOOLEAN]
        /\ given \in [Devices -> Devices \cup {Nobody}]
        /\ \A d \in Devices : given[d] = Nobody /\ ~ready[d]
    BY <1>1
  <2>4. given[Cm] # Cmts
    BY <2>3 DEF Nobody, Cmts
  <2> QED BY <1>1, <2>2, <2>3, <2>4 DEF FlowsOK
<1>4. QueuesOK
  BY <1>1 DEF QueuesOK, Estimator
<1>5. ~ready[Cm] /\ ~ready[Cmts] /\ \A d \in Devices : ~ready[d]
  BY <1>1
<1>6. SchedulerOK
  BY <1>1, <1>5 DEF SchedulerOK, Unprovisioned
<1>7. CmAgrees /\ CmtsAgrees /\ DelayOK
  BY <1>1, <1>5 DEF CmAgrees, CmtsAgrees, DelayOK
<1> QED BY <1>2, <1>3, <1>4, <1>6, <1>7 DEF ConfigInv

\* A step that leaves everything but the abort flag alone.
LEMMA ConfigAbort ==
  ASSUME ConfigInv, ScheduleInv', aborted' \in BOOLEAN,
         UNCHANGED <<phy, object, given, channelDelay, ready, queue, scheduler, device, configured>>
  PROVE  ConfigInv'
<1>1. FlowsOK'
  BY DEF ConfigInv, FlowsOK
<1>2. QueuesOK'
  BY DEF ConfigInv, QueuesOK
<1>3. SchedulerOK'
  BY DEF ConfigInv, SchedulerOK
<1>4. CmAgrees' /\ CmtsAgrees' /\ DelayOK'
  BY DEF ConfigInv, CmAgrees, CmtsAgrees, DelayOK
<1> QED BY <1>1, <1>2, <1>3, <1>4 DEF ConfigInv

\* SetUpstreamAsf and its like: an uninitialised device is given an object
\* whose QoS parameters are supported.
LEMMA ConfigSetFlow ==
  ASSUME ConfigInv, ScheduleInv', NEW d \in Devices, NEW owner \in Devices,
         d = Cm => owner = Cm, SetFlow(d, owner)
  PROVE  ConfigInv'
<1> USE DevicesDiffer
<1>1. CASE Abort
  BY <1>1, ConfigAbort DEF Abort, setup
<1>2. CASE ~Abort
  <2>1. /\ ~ready[d] /\ QosSupported(object[owner])
        /\ given' = [given EXCEPT ![d] = owner]
        /\ UNCHANGED <<phy, object, channelDelay, ready, queue, scheduler, device, aborted, configured>>
    BY <1>2 DEF SetFlow
  <2>2. FlowsOK
    BY DEF ConfigInv
  <2>3. QosSupported(configured[owner])
    <3>1. object[owner] = configured[owner] \/ object[owner] = ScaleRates(configured[owner])
      BY <2>2 DEF FlowsOK, Devices
    <3>2. configured[owner] \in AggregateServiceFlows
      BY <2>2 DEF FlowsOK
    <3>3. object[owner].lowLatency = configured[owner].lowLatency
      BY <3>1, <3>2, ScaleRatesFacts DEF SameButRates
    <3> QED BY <2>1, <3>3 DEF QosSupported
  <2>4. /\ given' \in [Devices -> Devices \cup {Nobody}] /\ given'[d] = owner
        /\ \A e \in Devices \ {d} : given'[e] = given[e]
    BY <2>1, <2>2 DEF FlowsOK
  <2>5. FlowsOK'
    BY <2>1, <2>2, <2>3, <2>4 DEF FlowsOK
  <2>6. QueuesOK'
    BY <2>1, <2>4 DEF ConfigInv, QueuesOK
  <2>7. SchedulerOK'
    BY <2>1 DEF ConfigInv, SchedulerOK
  <2>8. CmAgrees'
    BY <2>1, <2>4 DEF ConfigInv, CmAgrees
  <2>9. CmtsAgrees'
    BY <2>1, <2>4 DEF ConfigInv, CmtsAgrees
  <2>10. DelayOK'
    BY <2>1 DEF ConfigInv, DelayOK
  <2> QED BY <2>5, <2>6, <2>7, <2>8, <2>9, <2>10 DEF ConfigInv
<1> QED BY <1>1, <1>2

\* SetMaximumDistance moves only devices that are not initialised.
LEMMA ConfigSetMaximumDistance ==
  ASSUME ConfigInv, ScheduleInv', NEW d \in Devices, NEW distance \in Distances,
         SetMaximumDistance(d, distance)
  PROVE  ConfigInv'
<1> USE DevicesDiffer
<1>1. /\ ~ready[d] /\ channelDelay' = Rtt(phy'[d]) \div 2
      /\ phy' = [phy EXCEPT ![d].maximumDistance = distance]
      /\ UNCHANGED <<object, given, ready, queue, scheduler, device, aborted, configured>>
  BY DEF SetMaximumDistance
<1>2. \A e \in Devices : ready[e] => phy'[e] = phy[e]
  BY <1>1 DEF ConfigInv, ScheduleInv
<1>3. channelDelay' \in Nat
  BY <1>1, DelayTypes DEF ScheduleInv
<1>4. FlowsOK'
  BY <1>1 DEF ConfigInv, FlowsOK
<1>5. QueuesOK'
  BY <1>1 DEF ConfigInv, QueuesOK
<1>6. SchedulerOK'
  BY <1>1, <1>2 DEF ConfigInv, SchedulerOK
<1>7. CmAgrees'
  BY <1>1, <1>2 DEF ConfigInv, CmAgrees
<1>8. CmtsAgrees'
  BY <1>1 DEF ConfigInv, CmtsAgrees
<1>9. DelayOK'
  BY <1>1, <1>3 DEF DelayOK
<1> QED BY <1>4, <1>5, <1>6, <1>7, <1>8, <1>9 DEF ConfigInv

\* DoInitialize of the cable modem: the scheduler and the queue take their
\* parameters from the same flow, which is scaled once.
LEMMA ConfigInitializeCm ==
  ASSUME ConfigInv, ScheduleInv', InitializeCm
  PROVE  ConfigInv'
<1> USE DevicesDiffer
<1> DEFINE c == phy[Cm]
           made == configured[Cm]
           flow == object'[Cm]
<1>1. CASE Abort
  BY <1>1, ConfigAbort DEF Abort, setup
<1>2. CASE ~Abort
  <2>1. /\ ~ready[Cm] /\ given[Cm] # Nobody /\ QueueAccepts(object[given[Cm]])
        /\ channelDelay' = Rtt(c) \div 2
        /\ Provision(given[Cm])
        /\ ready' = [ready EXCEPT ![Cm] = TRUE]
        /\ UNCHANGED <<phy, given, aborted, configured>>
    BY <1>2 DEF InitializeCm
  <2>2. ScheduleInv /\ FlowsOK /\ QueuesOK /\ SchedulerOK /\ CmtsAgrees
    BY DEF ConfigInv
  <2>3. given[Cm] = Cm /\ made \in AggregateServiceFlows /\ QosSupported(made)
    BY <2>1, <2>2 DEF FlowsOK, Devices
  <2>4. object[Cm] = made /\ Legal(c)
    BY <2>1, <2>2 DEF FlowsOK, ScheduleInv
  <2>5. made.single => ~Has(made.lowLatency)
    BY <2>1, <2>3, <2>4 DEF QueueAccepts
  <2>6. /\ queue' = [queue EXCEPT ![Cm] = CmQueue(c, flow)]
        /\ \E t, s : device' = [device EXCEPT ![Cm] =
             [deviceQueueSize |->
                2 * FramesPerMap(c) * MinislotCapacity(c) * MinislotsPerFrame(c),
              msrTokens |-> t, startupRequests |-> s]]
    <3>1. queue[Cm] = DefaultQueue("QDelayCoupledV")
      BY <2>1, <2>2 DEF QueuesOK, Estimator
    <3> QED BY <1>2, <2>3, <3>1 DEF InitializeCm, CmQueue
  <2>7. /\ flow = IF made.single THEN ScaleRates(made) ELSE made
        /\ DOMAIN object' = Devices /\ object'[Cmts] = object[Cmts]
    BY <2>1, <2>2, <2>3, <2>4 DEF Provision, FlowsOK
  <2>8. /\ flow \in AggregateServiceFlows /\ flow.lowLatency = made.lowLatency
        /\ flow.single = made.single /\ flow.schedulingWeight = made.schedulingWeight
        /\ flow.coupled = made.coupled /\ OneFlow(flow) = OneFlow(made)
        /\ flow = made \/ SameButRates(flow, made)
    <3>1. CASE made.single
      <4>1. flow \in AggregateServiceFlows /\ SameButRates(flow, made)
        BY <2>3, <2>7, <3>1, ScaleRatesFacts
      <4> HIDE DEF flow, made
      <4>2. OneFlow(flow) = OneFlow(made)
        BY <4>1 DEF SameButRates, OneFlow, GetNumServiceFlows
      <4> QED BY <4>1, <4>2 DEF SameButRates
    <3>2. CASE ~made.single
      BY <2>3, <2>7, <3>2
    <3> QED BY <3>1, <3>2
  <2>9. /\ ready'[Cm] /\ ready'[Cmts] = ready[Cmts] /\ ready' \in [Devices -> BOOLEAN]
    BY <2>1, <2>2 DEF FlowsOK
  <2>10. /\ scheduler' = [Unprovisioned EXCEPT
              !.flow = ScaleRates(made),
              !.schedulingWeight = Override(@, made.schedulingWeight, 0),
              !.msrTokens = made.maxTrafficBurst]
    BY <2>1, <2>2, <2>3, <2>4 DEF Provision, SchedulerOK
  <2>11. FlowsOK'
    <3>1. \A d \in Devices : d = Cm \/ d = Cmts
      BY DEF Devices
    <3> QED BY <2>1, <2>2, <2>7, <2>9, <3>1 DEF FlowsOK
  <2> HIDE DEF flow
  <2>12. QosSupported(flow) /\ (flow.single => ~Has(flow.lowLatency))
    BY <2>3, <2>5, <2>8 DEF QosSupported
  <2>13. /\ Ramp(queue'[Cm], flow)
         /\ ~flow.single => queue'[Cm].maxRate = flow.maxSustainedRate
         /\ queue'[Cm].schedulingWeight = Override(230, flow.schedulingWeight, 0)
         /\ queue'[Cm].coupled = TriState(~OneFlow(flow), flow.coupled)
         /\ Has(flow.lowLatency) =>
              queue'[Cm].pgsGrantInterval = GrantFrames(c, flow.lowLatency) * FrameIntervalUs(c)
    <3>1. queue'[Cm] = CmQueue(c, flow)
      BY <2>2, <2>6 DEF QueuesOK
    <3> QED BY <2>4, <2>8, <2>12, <3>1, CmQueueFacts
  <2>14. QueuesOK'
    <3>1. DOMAIN queue' = Devices /\ queue'[Cmts] = queue[Cmts] /\ device'[Cmts] = device[Cmts]
      BY <2>2, <2>6 DEF QueuesOK, ScheduleInv
    <3>2. Ramp(queue'[Cm], made)
      BY <2>8, <2>13, RampOfScaled
    <3>3. device'[Cm].deviceQueueSize \in Nat
      <4>1. device'[Cm].deviceQueueSize
              = 2 * FramesPerMap(c) * MinislotCapacity(c) * MinislotsPerFrame(c)
        BY <2>2, <2>6 DEF ScheduleInv
      <4>2. 2 * FramesPerMap(c) \in Nat
        BY <2>4, CountTypes
      <4>3. 2 * FramesPerMap(c) * MinislotCapacity(c) \in Nat
        BY <2>4, <4>2, CountTypes, ProductIsNat
      <4> QED BY <2>4, <4>1, <4>3, CountTypes, ProductIsNat
    <3>4. /\ given'[Cm] # Nobody /\ Ramp(queue'[Cm], configured'[given'[Cm]])
          /\ ready'[Cm]
      BY <2>1, <2>3, <2>9, <3>2
    <3>5. \A d \in Devices : d # Cm => /\ ready'[d] = ready[d] /\ queue'[d] = queue[d]
                                        /\ device'[d] = device[d] /\ given'[d] = given[d]
      BY <2>1, <2>9, <3>1 DEF Devices
    <3> QED BY <2>1, <2>2, <3>1, <3>3, <3>4, <3>5 DEF QueuesOK
  <2>15. SchedulerOK'
    BY <2>1, <2>9, <2>10 DEF SchedulerOK, Unprovisioned
  <2>16. CmAgrees'
    <3>1. queue'[Cm].schedulingWeight = scheduler'.schedulingWeight
      BY <2>8, <2>10, <2>13 DEF Unprovisioned
    <3>2. queue'[Cm].coupled = TriState(~OneFlow(made), made.coupled)
      BY <2>8, <2>13
    <3>3. ~made.single => queue'[Cm].maxRate = made.maxSustainedRate
      BY <2>7, <2>8, <2>13 DEF flow
    <3>4. Has(made.lowLatency) =>
            queue'[Cm].pgsGrantInterval = GrantFrames(c, made.lowLatency) * FrameIntervalUs(c)
      BY <2>8, <2>13
    <3>5. phy' = phy /\ configured' = configured /\ given' = given
      BY <2>1
    <3> QED BY <2>3, <2>5, <3>1, <3>2, <3>3, <3>4, <3>5 DEF CmAgrees
  <2>17. CmtsAgrees'
    <3>1. device'[Cmts] = device[Cmts]
      BY <2>2, <2>6 DEF ScheduleInv
    <3> QED BY <2>1, <2>2, <2>9, <3>1 DEF CmtsAgrees
  <2>18. DelayOK'
    <3>1. channelDelay' \in Nat
      BY <2>1, <2>4, DelayTypes
    <3> QED BY <2>1, <3>1 DEF DelayOK
  <2> QED BY <2>11, <2>14, <2>15, <2>16, <2>17, <2>18 DEF ConfigInv
<1> QED BY <1>1, <1>2

\* DoInitialize of the CMTS takes the rates of the flow it was given, which
\* only an upstream single flow may have had scaled before.
LEMMA ConfigInitializeCmts ==
  ASSUME ConfigInv, ScheduleInv', InitializeCmts
  PROVE  ConfigInv'
<1> USE DevicesDiffer
<1> DEFINE c == phy[Cmts]
           flow == object[given[Cmts]]
           made == configured[given[Cmts]]
<1>1. CASE Abort
  BY <1>1, ConfigAbort DEF Abort, setup
<1>2. CASE ~Abort
  <2>1. /\ ~ready[Cmts] /\ given[Cmts] # Nobody
        /\ channelDelay' = Rtt(c) \div 2
        /\ ready' = [ready EXCEPT ![Cmts] = TRUE]
        /\ UNCHANGED <<phy, object, given, scheduler, aborted, configured>>
        /\ queue' = [queue EXCEPT ![Cmts] =
             [InitializeQueue(AttachFlow(queue[Cmts], flow), flow)
                EXCEPT !.vqMapInterval = ActualMapInterval(c)]]
    BY <1>2 DEF InitializeCmts
  <2>2. PICK a, b, r, m, p : device' = [device EXCEPT ![Cmts] =
            [maxSustainedRate |-> flow.maxSustainedRate, peakRate |-> flow.peakRate,
             maxTrafficBurst |-> b,
             deviceQueueSize |-> Larger(3 * DsSymbolCapacity, 3 * 1518),
             freeCapacityMean |-> a, reqCount |-> r,
             msrTokens |-> m, peakTokens |-> p]]
    BY <1>2 DEF InitializeCmts
  <2>3. ScheduleInv /\ FlowsOK /\ QueuesOK /\ SchedulerOK /\ CmAgrees
    BY DEF ConfigInv
  <2>4. /\ flow \in AggregateServiceFlows /\ (flow = made \/ SameButRates(flow, made))
        /\ given[Cmts] \in Devices
    BY <2>1, <2>3, Attribution
  <2>5. /\ ready'[Cmts] /\ ready'[Cm] = ready[Cm] /\ ready' \in [Devices -> BOOLEAN]
    BY <2>1, <2>3 DEF FlowsOK
  <2>6. FlowsOK'
    BY <2>1, <2>3, <2>5 DEF FlowsOK
  <2>7. QueuesOK'
    <3>1. queue'[Cmts] = [InitializeQueue(AttachFlow(DefaultQueue("QDelayCoupledL"), flow), flow)
                            EXCEPT !.vqMapInterval = ActualMapInterval(c)]
      BY <2>1, <2>3 DEF QueuesOK, Estimator
    <3>2. Ramp(queue'[Cmts], made)
      BY <2>4, <3>1, CmtsQueueFacts, RampOfScaled
    <3>3. /\ DOMAIN queue' = Devices /\ queue'[Cm] = queue[Cm] /\ device'[Cm] = device[Cm]
          /\ device'[Cmts].deviceQueueSize = Larger(3 * DsSymbolCapacity, 3 * 1518)
      BY <2>1, <2>2, <2>3 DEF QueuesOK, ScheduleInv
    <3>4. device'[Cmts].deviceQueueSize \in Nat
      BY <3>3, SizeAssumption DEF Larger
    <3>5. /\ given'[Cmts] # Nobody /\ Ramp(queue'[Cmts], configured'[given'[Cmts]])
          /\ ready'[Cmts]
      BY <2>1, <2>5, <3>2
    <3>6. \A d \in Devices : d # Cmts => /\ ready'[d] = ready[d] /\ queue'[d] = queue[d]
                                          /\ device'[d] = device[d] /\ given'[d] = given[d]
      BY <2>1, <2>5, <3>3 DEF Devices
    <3> QED BY <2>1, <2>3, <3>3, <3>4, <3>5, <3>6 DEF QueuesOK
  <2>8. SchedulerOK'
    BY <2>1, <2>3, <2>5 DEF SchedulerOK
  <2>9. CmAgrees'
    <3>1. queue'[Cm] = queue[Cm]
      BY <2>1, <2>3 DEF QueuesOK
    <3> QED BY <2>1, <2>3, <2>5, <3>1 DEF CmAgrees
  <2>10. CmtsAgrees'
    <3>1. /\ device'[Cmts].maxSustainedRate = flow.maxSustainedRate
          /\ device'[Cmts].peakRate = flow.peakRate
      BY <2>2, <2>3 DEF ScheduleInv
    <3>2. ASSUME given[Cmts] = Cmts \/ ~configured[Cm].single PROVE flow = made
      BY <2>3, <2>4, <3>2 DEF FlowsOK, Devices
    <3> QED BY <2>1, <3>1, <3>2 DEF CmtsAgrees
  <2>11. DelayOK'
    <3>1. channelDelay' \in Nat
      BY <2>1, <2>3, DelayTypes DEF ScheduleInv
    <3> QED BY <2>1, <3>1 DEF DelayOK
  <2> QED BY <2>6, <2>7, <2>8, <2>9, <2>10, <2>11 DEF ConfigInv
<1> QED BY <1>1, <1>2

\* What Start makes of the guaranteed grants that it accepts.
LEMMA PgsFacts ==
  ASSUME NEW c, Legal(c), NEW sf, sf.guaranteedGrantInterval \in Nat,
         sf.guaranteedGrantRate \in Nat
  PROVE  LET pgs == Pgs(c, sf) IN
         /\ pgs.pgsFrameInterval = GrantFrames(c, sf)
         /\ pgs.excessPgsBytesPerInterval \in Nat
         /\ pgs.lastPgsGrantTime \in Int
<1> DEFINE i == FrameIntervalUs(c)
           n == GrantFrames(c, sf)
           volume == Scaled(sf.guaranteedGrantRate) * (n * i)
           bytes == CeilDiv(volume, 8000)
           minislots == MinislotCeil(c, bytes)
           first == FirstAllocStartTime(c)
           m == MinislotsPerFrame(c)
<1>1. n \in Nat /\ i \in Nat
  BY GrantFramesFacts, FramesFacts
<1>2. m \in Nat /\ MinislotCapacity(c) \in Nat /\ MinislotCapacity(c) > 0
  BY CountTypes
<1>3. first \in Nat
  <2>1. first = FirstMapInterval(c) * MinislotsPerMap(c)
    BY MapIntervalFacts DEF FirstAllocStartTime
  <2> QED BY <2>1, FirstMapIntervalFacts, CountTypes, ProductIsNat
<1>4. Pgs(c, sf) = [pgsFrameInterval |-> n, pgsBytesPerInterval |-> bytes,
                    pgsMinislotsPerInterval |-> minislots,
                    excessPgsBytesPerInterval |-> MinislotsToBytes(c, minislots) - bytes,
                    lastPgsGrantTime |-> first + FirstPgsGrantFrameOffset * m - n * m]
  BY DEF Pgs, GrantFrames
<1> HIDE DEF n, i, m, first
<1>5. volume \in Nat
  <2>1. n * i \in Nat /\ Scaled(sf.guaranteedGrantRate) \in Nat
    BY <1>1, ProductIsNat, ScaledType
  <2> QED BY <2>1, ProductIsNat
<1> HIDE DEF volume
<1>6. bytes \in Nat
  BY <1>5, CeilDivFacts
<1> HIDE DEF bytes
<1>7. minislots \in Nat /\ bytes <= minislots * MinislotCapacity(c)
  BY <1>2, <1>6, CeilDivFacts DEF MinislotCeil
<1> HIDE DEF minislots
<1>8. MinislotsToBytes(c, minislots) \in Nat /\ bytes <= MinislotsToBytes(c, minislots)
  BY <1>2, <1>7, ProductIsNat DEF MinislotsToBytes
<1>9. FirstPgsGrantFrameOffset * m \in Nat /\ n * m \in Nat
  BY <1>1, <1>2, ProductIsNat, SizeAssumption
<1>10. MinislotsToBytes(c, minislots) - bytes \in Nat
  BY <1>6, <1>8
<1>11. first + FirstPgsGrantFrameOffset * m - n * m \in Int
  BY <1>3, <1>9
<1> QED BY <1>4, <1>10, <1>11 DEF n

\* CmtsUpstreamScheduler::Start takes the guaranteed grants of the flow that
\* the queue was initialised with.
LEMMA ConfigStartScheduler ==
  ASSUME ConfigInv, ScheduleInv', StartScheduler
  PROVE  ConfigInv'
<1> USE DevicesDiffer
<1> DEFINE c == phy[Cm]
           sf == scheduler.flow.lowLatency
           pgs == Pgs(c, sf)
           started == [scheduler EXCEPT !.started = TRUE,
                         !.allocStartTime = FirstAllocStartTime(c),
                         !.minReqGntDelaySlots = MinReqGntDelaySlots(c)]
<1>1. CASE Abort
  BY <1>1, ConfigAbort DEF Abort, setup
<1>2. CASE ~Abort
  <2>1. /\ ready[Cm]
        /\ UNCHANGED <<phy, object, given, channelDelay, ready, queue, device, aborted, configured>>
    BY <1>2 DEF StartScheduler, setup
  <2>2. /\ sf.guaranteedGrantRate > 0 =>
             pgs.pgsFrameInterval # 0 /\ ~(pgs.lastPgsGrantTime < 0)
        /\ scheduler' = IF sf.guaranteedGrantRate = 0 THEN started
                        ELSE [started EXCEPT
             !.pgsFrameInterval = pgs.pgsFrameInterval,
             !.pgsBytesPerInterval = pgs.pgsBytesPerInterval,
             !.pgsMinislotsPerInterval = pgs.pgsMinislotsPerInterval,
             !.excessPgsBytesPerInterval = pgs.excessPgsBytesPerInterval,
             !.lastPgsGrantTime = pgs.lastPgsGrantTime]
    BY <1>2 DEF StartScheduler
  <2>3. ScheduleInv /\ FlowsOK /\ QueuesOK /\ SchedulerOK /\ CmAgrees /\ CmtsAgrees /\ DelayOK
    BY DEF ConfigInv
  <2>4. FlowsOK' /\ QueuesOK' /\ CmtsAgrees' /\ DelayOK'
    BY <2>1, <2>3 DEF FlowsOK, QueuesOK, CmtsAgrees, DelayOK
  <2>5. /\ Legal(c) /\ configured[Cm] \in AggregateServiceFlows
        /\ scheduler.flow = ScaleRates(configured[Cm])
    BY <2>1, <2>3 DEF ScheduleInv, FlowsOK, SchedulerOK
  <2>6. sf = configured[Cm].lowLatency
    BY <2>5, ScaleRatesFacts DEF SameButRates
  <2>7. sf.guaranteedGrantRate \in Nat /\ sf.guaranteedGrantInterval \in Nat
    BY <2>5, <2>6, FlowTypes
  <2>8. /\ pgs.pgsFrameInterval = GrantFrames(c, sf)
        /\ pgs.excessPgsBytesPerInterval \in Nat
        /\ pgs.lastPgsGrantTime \in Int
    BY <2>5, <2>7, PgsFacts
  <2>9. FirstAllocStartTime(c) \in Nat
    <3>1. FirstAllocStartTime(c) = FirstMapInterval(c) * MinislotsPerMap(c)
      BY <2>5, MapIntervalFacts DEF FirstAllocStartTime
    <3> QED BY <2>5, <3>1, FirstMapIntervalFacts, CountTypes, ProductIsNat
  <2> HIDE DEF pgs, sf
  <2>10. /\ scheduler'.allocStartTime = FirstAllocStartTime(c)
         /\ scheduler'.flow = scheduler.flow
         /\ scheduler'.schedulingWeight = scheduler.schedulingWeight
         /\ DOMAIN scheduler' = DOMAIN Unprovisioned
         /\ IF sf.guaranteedGrantRate = 0
            THEN /\ scheduler'.lastPgsGrantTime = scheduler.lastPgsGrantTime
                 /\ scheduler'.excessPgsBytesPerInterval = scheduler.excessPgsBytesPerInterval
            ELSE /\ scheduler'.lastPgsGrantTime = pgs.lastPgsGrantTime
                 /\ scheduler'.excessPgsBytesPerInterval = pgs.excessPgsBytesPerInterval
                 /\ scheduler'.pgsFrameInterval = pgs.pgsFrameInterval
    <3>1. DOMAIN scheduler = DOMAIN Unprovisioned
      BY <2>3 DEF SchedulerOK
    <3> QED BY <2>2, <3>1 DEF Unprovisioned
  <2>11. SchedulerOK'
    <3>1. /\ scheduler'.allocStartTime \in Nat
          /\ scheduler'.lastPgsGrantTime \in Nat
          /\ scheduler'.excessPgsBytesPerInterval \in Nat
      BY <2>2, <2>3, <2>7, <2>8, <2>9, <2>10 DEF SchedulerOK
    <3>2. ASSUME configured[Cm].lowLatency.guaranteedGrantRate > 0
          PROVE  /\ scheduler'.pgsFrameInterval = GrantFrames(c, configured[Cm].lowLatency)
                 /\ scheduler'.pgsFrameInterval # 0
      BY <2>2, <2>6, <2>7, <2>8, <2>10, <3>2
    <3> QED BY <2>1, <2>3, <2>5, <2>10, <3>1, <3>2 DEF SchedulerOK
  <2>12. CmAgrees'
    BY <2>1, <2>3, <2>10 DEF CmAgrees
  <2> QED BY <2>4, <2>11, <2>12 DEF ConfigInv
<1> QED BY <1>1, <1>2

\* Every call keeps the invariant.
LEMMA ConfigNext == ConfigInv /\ [Next]_vars => ConfigInv'
<1> SUFFICES ASSUME ConfigInv, [Next]_vars PROVE ConfigInv'
  OBVIOUS
<1>1. ScheduleInv'
  BY ScheduleInvNext DEF ConfigInv
<1>2. ASSUME NEW owner \in Devices, SetFlow(Cmts, owner) PROVE ConfigInv'
  BY <1>1, <1>2, ConfigSetFlow, DevicesDiffer
<1>3. ASSUME SetFlow(Cm, Cm) PROVE ConfigInv'
  BY <1>1, <1>3, ConfigSetFlow, DevicesDiffer
<1>4. ASSUME NEW d \in Devices, NEW distance \in Distances, SetMaximumDistance(d, distance)
      PROVE  ConfigInv'
  BY <1>1, <1>4, ConfigSetMaximumDistance
<1>5. ASSUME InitializeCm PROVE ConfigInv'
  BY <1>1, <1>5, ConfigInitializeCm
<1>6. ASSUME InitializeCmts PROVE ConfigInv'
  BY <1>1, <1>6, ConfigInitializeCmts
<1>7. ASSUME StartScheduler PROVE ConfigInv'
  BY <1>1, <1>7, ConfigStartScheduler
<1>8. CASE UNCHANGED vars
  <2>1. aborted \in BOOLEAN
    BY DEF ConfigInv, FlowsOK
  <2> QED BY <1>1, <1>8, <2>1, ConfigAbort DEF vars, setup
<1> QED BY <1>2, <1>3, <1>4, <1>5, <1>6, <1>7, <1>8, Zenon DEF Next

-----------------------------------------------------------------------------
(* What follows from the invariant.                                        *)

\* The calls of the user and the initialisations, in whatever order, lead to
\* legal attributes, attributed flows, and devices that agree.
THEOREM ConfigurationInvariant == Spec => []ConfigInv
BY ConfigInit, ConfigNext, PTL DEF Spec

\* The invariant says that nothing is negative.
LEMMA ConfigImpliesTypes == ConfigInv => TypeOK
<1> SUFFICES ASSUME ConfigInv PROVE TypeOK
  OBVIOUS
<1>1. /\ given \in [Devices -> Devices \cup {Nobody}]
      /\ ready \in [Devices -> BOOLEAN] /\ aborted \in BOOLEAN
      /\ channelDelay \in Nat
      /\ scheduler.allocStartTime \in Nat /\ scheduler.lastPgsGrantTime \in Nat
      /\ scheduler.excessPgsBytesPerInterval \in Nat
  BY DEF ConfigInv, FlowsOK, DelayOK, SchedulerOK
<1>2. ASSUME NEW d \in Devices, given[d] # Nobody
      PROVE  LET sf == object[given[d]].lowLatency
             IN  sf.maxSustainedRate = 0 /\ sf.peakRate = 0
  <2>1. /\ object[given[d]].lowLatency = configured[given[d]].lowLatency
        /\ QosSupported(configured[given[d]])
    BY <1>2, Attribution DEF ConfigInv
  <2> QED BY <2>1 DEF QosSupported, Has, NoFlow, ServiceFlow
<1>3. ASSUME NEW d \in Devices
      PROVE  queue[d].minTh \in Nat /\ queue[d].maxTh \in Nat /\ device[d].deviceQueueSize \in Nat
  <2>1. QueuesOK
    BY DEF ConfigInv
  <2>2. CASE ready[d]
    BY <2>1, <2>2 DEF QueuesOK, Ramp
  <2>3. CASE ~ready[d]
    BY <2>1, <2>3 DEF QueuesOK, DefaultQueue
  <2> QED BY <2>2, <2>3
<1> QED BY <1>1, <1>2, <1>3 DEF TypeOK

\* The invariant says that the thresholds are those of a ramp.
LEMMA ConfigImpliesRamps == ConfigInv => RampIsSane
<1> SUFFICES ASSUME ConfigInv, NEW d \in Devices, ready[d],
                    ~configured[given[d]].lowLatency.aqmDisable
             PROVE  LET q == queue[d]
                        flow == configured[given[d]]
                    IN  /\ ConfiguredMaxTh(flow) <= q.maxTh /\ q.maxTh <= MaxTh
                        /\ \/ q.maxTh = q.minTh + 2 ^ q.lgRange
                           \/ q.maxTh = MaxTh /\ q.minTh <= MaxTh
                        /\ \A s \in Delays(q) :
                             LET p == CalcProbNative(q, s) IN p[2] > 0 /\ p[1] \in 0..p[2]
                        /\ \A s, t \in Delays(q) :
                             s <= t => Leq(CalcProbNative(q, s), CalcProbNative(q, t))
                        /\ flow.qpLatencyThreshold # 0 =>
                             GetCriticalQl(q) = IF flow.qpLatencyThreshold = 65535 THEN q.maxTh
                                                ELSE 1000 * flow.qpLatencyThreshold
  BY DEF RampIsSane
<1> DEFINE q == queue[d]
           flow == configured[given[d]]
<1>1. Ramp(q, flow) /\ ~flow.lowLatency.aqmDisable
  BY DEF ConfigInv, QueuesOK
<1> HIDE DEF q, flow
<1>2. q.minTh \in Nat /\ q.maxTh \in Nat
  BY <1>1 DEF Ramp
<1>3. Delays(q) \subseteq Int
  BY <1>2 DEF Delays, MaxTh
<1>4. \A s \in Delays(q) : CalcProbNative(q, s)[2] > 0
                           /\ CalcProbNative(q, s)[1] \in 0..CalcProbNative(q, s)[2]
  BY <1>2, <1>3, ProbabilityFacts
<1>5. \A s, t \in Delays(q) : s <= t => Leq(CalcProbNative(q, s), CalcProbNative(q, t))
  BY <1>2, <1>3, ProbabilityFacts
<1>6. GetCriticalQl(q) = IF flow.qpLatencyThreshold = 65535 THEN q.maxTh
                         ELSE 1000 * flow.qpLatencyThreshold
  <2> DEFINE set == flow.qpLatencyThreshold # 65535
  <2>1. q.configureQpLatencyThreshold = set
    BY <1>1 DEF Ramp
  <2>2. set => q.qpLatencyThreshold = flow.qpLatencyThreshold
    BY <1>1 DEF Ramp
  <2>3. flow.qpLatencyThreshold \in Nat
    BY <1>1 DEF Ramp
  <2> HIDE DEF set
  <2>4. CASE set
    <3>1. q.configureQpLatencyThreshold
      BY <2>1, <2>4, Zenon
    <3> QED BY <2>2, <2>3, <2>4, <3>1 DEF GetCriticalQl, set
  <2>5. CASE ~set
    <3>1. ~q.configureQpLatencyThreshold
      BY <2>1, <2>5, Zenon
    <3> QED BY <2>5, <3>1 DEF GetCriticalQl, set
  <2> QED BY <2>4, <2>5
<1>7. /\ ConfiguredMaxTh(flow) <= q.maxTh /\ q.maxTh <= MaxTh
      /\ \/ q.maxTh = q.minTh + 2 ^ q.lgRange
         \/ q.maxTh = MaxTh /\ q.minTh <= MaxTh
  BY <1>1 DEF Ramp
<1> QED BY <1>4, <1>5, <1>6, <1>7 DEF q, flow

\* The invariant says that the parties agree.
LEMMA ConfigImpliesAgreement == ConfigInv => SidesAgree
<1> SUFFICES ASSUME ConfigInv PROVE SidesAgree
  OBVIOUS
<1> USE DevicesDiffer
<1>1. ScheduleInv /\ FlowsOK /\ SchedulerOK /\ CmAgrees /\ CmtsAgrees /\ DelayOK /\ QueuesOK
  BY DEF ConfigInv
<1>2. ASSUME ready[Cm]
      PROVE  LET flow == configured[given[Cm]]
                 sides == scheduler.flow
             IN  /\ sides.maxSustainedRate = Scaled(flow.maxSustainedRate)
                 /\ sides.peakRate = Scaled(flow.peakRate)
                 /\ sides.lowLatency = flow.lowLatency
                 /\ ~flow.single => queue[Cm].maxRate = flow.maxSustainedRate
                 /\ queue[Cm].schedulingWeight = scheduler.schedulingWeight
                 /\ queue[Cm].coupled <=>
                      \/ flow.coupled = "true"
                      \/ flow.coupled = "unspecified" /\ ~OneFlow(flow)
  <2> DEFINE flow == configured[Cm]
  <2>1. /\ given[Cm] = Cm /\ scheduler.flow = ScaleRates(flow)
        /\ flow \in AggregateServiceFlows
    BY <1>1, <1>2 DEF CmAgrees, SchedulerOK, FlowsOK
  <2>2. /\ ~flow.single => queue[Cm].maxRate = flow.maxSustainedRate
        /\ queue[Cm].schedulingWeight = scheduler.schedulingWeight
        /\ queue[Cm].coupled = TriState(~OneFlow(flow), flow.coupled)
    BY <1>1, <1>2 DEF CmAgrees
  <2>3. /\ scheduler.flow.maxSustainedRate = Scaled(flow.maxSustainedRate)
        /\ scheduler.flow.peakRate = Scaled(flow.peakRate)
        /\ scheduler.flow.lowLatency = flow.lowLatency
    BY <2>1, ScaleRatesFacts DEF SameButRates
  <2> HIDE DEF flow
  <2>4. queue[Cm].coupled <=>
          \/ flow.coupled = "true"
          \/ flow.coupled = "unspecified" /\ ~OneFlow(flow)
    BY <2>2 DEF TriState
  <2> QED BY <2>1, <2>2, <2>3, <2>4 DEF flow
<1>3. ASSUME ready[Cmts]
      PROVE  LET flow == configured[given[Cmts]] IN
             given[Cmts] = Cmts \/ ~flow.single =>
               /\ device[Cmts].maxSustainedRate = flow.maxSustainedRate
               /\ device[Cmts].peakRate = flow.peakRate
  <2>1. given[Cmts] = Cm \/ given[Cmts] = Cmts
    BY <1>1, <1>3 DEF QueuesOK, FlowsOK, Devices
  <2> QED BY <1>1, <1>3, <2>1 DEF CmtsAgrees
<1>4. ASSUME scheduler.started, scheduler.flow.lowLatency.guaranteedGrantRate > 0
      PROVE  LET c == phy[Cm]
                 frames == scheduler.pgsFrameInterval
                 ggi == scheduler.flow.lowLatency.guaranteedGrantInterval
             IN  /\ queue[Cm].pgsGrantInterval = frames * FrameIntervalUs(c)
                 /\ ggi # 0 => frames * FrameDuration(c) < 1000 * (ggi + frames)
  <2> DEFINE c == phy[Cm]
             sf == configured[Cm].lowLatency
             frames == scheduler.pgsFrameInterval
  <2>1. /\ ready[Cm] /\ Legal(c) /\ configured[Cm] \in AggregateServiceFlows
        /\ scheduler.flow = ScaleRates(configured[Cm])
    BY <1>1, <1>4 DEF SchedulerOK, ScheduleInv, FlowsOK
  <2>2. scheduler.flow.lowLatency = sf
    BY <2>1, ScaleRatesFacts DEF SameButRates
  <2>3. frames = GrantFrames(c, sf) /\ frames # 0
    BY <1>1, <1>4, <2>2 DEF SchedulerOK
  <2>4. Has(sf)
    BY <1>4, <2>2 DEF Has, NoFlow, ServiceFlow
  <2>5. queue[Cm].pgsGrantInterval = frames * FrameIntervalUs(c)
    BY <1>1, <2>1, <2>3, <2>4 DEF CmAgrees
  <2>6. sf.guaranteedGrantInterval \in Nat
    BY <2>1, FlowTypes
  <2>7. frames * FrameDuration(c)
          < 1000 * (Override(ActualMapInterval(c) \div 1000, sf.guaranteedGrantInterval, 0) + frames)
    BY <2>1, <2>3, <2>6, GrantFramesFacts
  <2> QED BY <2>2, <2>5, <2>7 DEF Override
<1>5. ASSUME \A d \in Devices : ready[d], phy[Cm].maximumDistance = phy[Cmts].maximumDistance,
             NEW d \in Devices
      PROVE  channelDelay = Rtt(phy[d]) \div 2
  <2>1. PICK e \in Devices : channelDelay = Rtt(phy[e]) \div 2
    BY <1>1, <1>5 DEF DelayOK
  <2>2. phy[e].maximumDistance = phy[d].maximumDistance
    BY <1>5 DEF Devices
  <2> QED BY <2>1, <2>2 DEF Rtt
<1> QED BY <1>2, <1>3, <1>4, <1>5 DEF SidesAgree

\* Nothing that is computed from attributes and TLVs is negative, and no
\* device is given a low latency flow with a rate of its own.
THEOREM ConfigurationTypes == Spec => []TypeOK
BY ConfigurationInvariant, ConfigImpliesTypes, PTL

\* Whatever the widths of the TLVs can express, the thresholds that
\* InitializeParams leaves are a ramp and its probability is one.
THEOREM RampIsAlwaysSane == Spec => []RampIsSane
BY ConfigurationInvariant, ConfigImpliesRamps, PTL

\* In whatever order the devices are configured and initialised, they derive
\* the same rates, weights, intervals and delay from one service flow.
THEOREM SidesAlwaysAgree == Spec => []SidesAgree
BY ConfigurationInvariant, ConfigImpliesAgreement, PTL

==============================================================================
