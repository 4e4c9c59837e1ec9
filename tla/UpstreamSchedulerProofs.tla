----------------------- MODULE UpstreamSchedulerProofs -----------------------
(***************************************************************************)
(* Proofs about the CMTS upstream scheduler, for every MAP size, minislot  *)
(* capacity, scheduling weight, rate, burst, PGS schedule and backlog.     *)
(***************************************************************************)
EXTENDS UpstreamScheduler, EventListProofs, TLAPS

-----------------------------------------------------------------------------
(* What Allocate grants.                                                   *)

\* MinislotCeil covers the bytes, and one minislot less would not.
LEMMA MinislotCeilCovers ==
  ASSUME NEW bytes \in Nat
  PROVE  /\ MinislotCeil(bytes) \in Nat
         /\ bytes <= MinislotsToBytes(MinislotCeil(bytes))
         /\ MinislotsToBytes(MinislotCeil(bytes)) < bytes + Capacity
<1> DEFINE a == bytes + Capacity - 1
<1>1. a \in Nat
  BY CapacityAssumption
<1>2. /\ a \div Capacity \in Nat
      /\ Capacity * (a \div Capacity) <= a
      /\ a < Capacity * (a \div Capacity) + Capacity
  BY <1>1, CapacityAssumption, Z3
<1> HIDE DEF a
<1>3. (a \div Capacity) * Capacity = Capacity * (a \div Capacity)
  BY <1>2, CapacityAssumption
<1>4. a = bytes + Capacity - 1
  BY DEF a
<1>5. MinislotCeil(bytes) = a \div Capacity
  BY DEF a, MinislotCeil
<1> QED BY <1>1, <1>2, <1>3, <1>4, <1>5, CapacityAssumption DEF MinislotsToBytes

\* The weighted share of n minislots is at most n.
LEMMA ShareIsPart ==
  ASSUME NEW n \in Nat
  PROVE  (n * Weight) \div 256 \in 0..n
<1>1. n * Weight \in Nat /\ n * Weight <= n * 256
  BY WeightAssumption
<1> DEFINE w == n * Weight
<1> HIDE DEF w
<1>2. w \in Nat /\ w <= n * 256
  BY <1>1 DEF w
<1>3. w \div 256 \in 0..n
  BY <1>2
<1> QED BY <1>3 DEF w

\* The allocation and the two shares of it, as natural numbers.
LEMMA ShareFacts ==
  ASSUME NEW avail \in Nat, NEW maxC \in Nat, NEW maxL \in Nat, NEW pgs \in Nat
  PROVE  LET n == ToAllocate(avail, maxC, maxL, pgs)
             l == LowLatencyShare(n, pgs)
         IN  /\ n \in Nat /\ l \in Nat
             /\ pgs <= l /\ l <= n
             /\ n <= Larger(maxC + maxL, pgs)
             /\ n <= Larger(avail, pgs)
<1> DEFINE n == ToAllocate(avail, maxC, maxL, pgs)
<1>1. /\ n \in Nat /\ pgs <= n
      /\ n <= Larger(maxC + maxL, pgs)
      /\ n <= Larger(avail, pgs)
  BY DEF ToAllocate, Smaller, Larger
<1> HIDE DEF n
<1>2. (n * Weight) \div 256 \in 0..n
  BY <1>1, ShareIsPart
<1> DEFINE l == LowLatencyShare(n, pgs)
<1>3. l \in Nat /\ pgs <= l /\ l <= n
  BY <1>1, <1>2 DEF LowLatencyShare, Larger
<1> QED BY <1>1, <1>3 DEF n

\* Whichever case of the code applies, the split hands out exactly what may be
\* allocated: no flow gets more than it asks for, the low latency flow gets
\* its PGS grants, each flow gets its weighted share or all it asks for, and
\* what one flow leaves over goes to the other.
THEOREM SplitFair ==
  ASSUME NEW avail \in Nat, NEW maxC \in Nat, NEW maxL \in Nat, NEW pgs \in Nat,
         pgs <= maxL
  PROVE  SplitIsFair(avail, maxC, maxL, pgs, Split(avail, maxC, maxL, pgs))
<1> DEFINE n == ToAllocate(avail, maxC, maxL, pgs)
           l == LowLatencyShare(n, pgs)
           s == Split(avail, maxC, maxL, pgs)
<1>1. /\ n \in Nat /\ l \in Nat /\ pgs <= l /\ l <= n
      /\ n <= Larger(maxC + maxL, pgs)
  BY ShareFacts
<1>2. n = Larger(Smaller(avail, maxC + maxL), pgs)
  BY DEF ToAllocate
<1>3. CASE pgs >= maxL
  <2>1. s = [c |-> Smaller(Monus(avail, pgs), maxC), l |-> pgs]
    BY <1>3 DEF Split
  <2>2. maxL = pgs
    BY <1>3
  <2> HIDE DEF n, l, s
  <2>3. /\ s.c + s.l = n /\ s.c <= maxC /\ s.l <= maxL
        /\ pgs <= s.l /\ Smaller(n - l, maxC) <= s.c /\ Smaller(l, maxL) <= s.l
    BY <1>1, <1>2, <2>1, <2>2 DEF Smaller, Larger, Monus
  <2> QED BY <2>3 DEF SplitIsFair, n, l, s
<1>4. CASE pgs < maxL
  <2>1. \/ maxL <= l /\ maxC <= n - l /\ s = [c |-> maxC, l |-> maxL]
        \/ maxL > l /\ maxC > n - l /\ s = [c |-> n - l, l |-> l]
        \/ maxL <= l /\ maxC > n - l /\ s = [c |-> Smaller(n - maxL, maxC), l |-> maxL]
        \/ maxL > l /\ maxC <= n - l /\ s = [c |-> maxC, l |-> Smaller(n - maxC, maxL)]
    BY <1>1, <1>4 DEF Split
  <2> HIDE DEF n, l, s
  <2>2. /\ s.c + s.l = n /\ s.c <= maxC /\ s.l <= maxL
        /\ pgs <= s.l /\ Smaller(n - l, maxC) <= s.c /\ Smaller(l, maxL) <= s.l
    BY <1>1, <1>2, <1>4, <2>1 DEF Smaller, Larger
  <2> QED BY <2>2 DEF SplitIsFair, n, l, s
<1> QED BY <1>3, <1>4

\* The split consists of natural numbers.
LEMMA SplitIsNat ==
  ASSUME NEW avail \in Nat, NEW maxC \in Nat, NEW maxL \in Nat, NEW pgs \in Nat
  PROVE  /\ Split(avail, maxC, maxL, pgs).c \in Nat
         /\ Split(avail, maxC, maxL, pgs).l \in Nat
<1> DEFINE n == ToAllocate(avail, maxC, maxL, pgs)
           l == LowLatencyShare(n, pgs)
           s == Split(avail, maxC, maxL, pgs)
<1>1. /\ n \in Nat /\ l \in Nat /\ pgs <= l /\ l <= n
      /\ n <= Larger(maxC + maxL, pgs)
  BY ShareFacts
<1>2. \/ pgs >= maxL /\ s = [c |-> Smaller(Monus(avail, pgs), maxC), l |-> pgs]
      \/ maxL <= l /\ maxC <= n - l /\ s = [c |-> maxC, l |-> maxL]
      \/ maxL > l /\ maxC > n - l /\ s = [c |-> n - l, l |-> l]
      \/ maxL <= l /\ maxC > n - l /\ s = [c |-> Smaller(n - maxL, maxC), l |-> maxL]
      \/ maxL > l /\ maxC <= n - l /\ s = [c |-> maxC, l |-> Smaller(n - maxC, maxL)]
  BY <1>1 DEF Split
<1> HIDE DEF n, l, s
<1>3. s.c \in Nat /\ s.l \in Nat
  BY <1>1, <1>2 DEF Smaller, Larger, Monus
<1> QED BY <1>3 DEF s

\* The asserts of Allocate hold when at least two minislots are allocated and
\* the low latency flow has at least half of the weight.
THEOREM SplitAssertsHold ==
  ASSUME NEW avail \in Nat, NEW maxC \in Nat, NEW maxL \in Nat, NEW pgs \in Nat,
         pgs <= maxL, Weight >= 128,
         ToAllocate(avail, maxC, maxL, pgs) >= 2
  PROVE  SplitAssert(avail, maxC, maxL, pgs)
<1> DEFINE n == ToAllocate(avail, maxC, maxL, pgs)
           l == LowLatencyShare(n, pgs)
<1>1. /\ n \in Nat /\ l \in Nat /\ pgs <= l /\ l <= n
      /\ n <= Larger(maxC + maxL, pgs)
  BY ShareFacts
<1>2. n >= 2
  OBVIOUS
<1>3. l = Larger((n * Weight) \div 256, pgs)
  BY DEF LowLatencyShare
<1> HIDE DEF n, l
<1>4. n * Weight >= 256 /\ n * Weight \in Nat /\ n * Weight <= n * 255
  BY <1>1, <1>2, WeightAssumption
<1>5. (n * Weight) \div 256 \in 1..(n - 1)
  <2> DEFINE w == n * Weight
  <2>1. w >= 256 /\ w \in Nat /\ w <= n * 255
    BY <1>4
  <2> HIDE DEF w
  <2>2. w \div 256 \in 1..(n - 1)
    BY <1>1, <1>2, <2>1
  <2> QED BY <2>2 DEF w
<1>6. SUFFICES ASSUME pgs < maxL
               PROVE  /\ n >= l
                      /\ maxL <= l /\ maxC > n - l => n > maxL
                      /\ maxL > l /\ maxC <= n - l => n > maxC
  BY DEF SplitAssert, n, l
<1>7. 1 <= l /\ (l < n \/ l = pgs)
  BY <1>1, <1>3, <1>5 DEF Larger
<1> QED BY <1>1, <1>6, <1>7

-----------------------------------------------------------------------------
(* What a MAP grants, as numbers.                                          *)

\* The number of PGS grants in a MAP and of the minislots they grant; without
\* PGS there are none.
LEMMA PgsGrantedIsNat ==
  ASSUME TypeOK, NEW free \in FreeMinislots
  PROVE  /\ PgsCount(free) \in Nat /\ PgsLength(free) \in Nat
         /\ PgsGranted(free) \in Nat
         /\ PgsMinislots = 0 => PgsCount(free) = 0 /\ PgsGranted(free) = 0
<1>1. /\ lastPgs \in Int /\ PgsGap \in Nat /\ PgsGap > 0 /\ MinislotsPerMap \in Nat
      /\ PgsMinislots \in Nat
  BY SchedulerAssumption DEF TypeOK
<1> DEFINE due == (MinislotsPerMap - 1 - lastPgs) \div PgsGap
<1>2. due \in Int
  <2> DEFINE d == MinislotsPerMap - 1 - lastPgs
  <2>1. d \in Int
    BY <1>1
  <2> HIDE DEF d
  <2>2. d \div PgsGap \in Int
    BY <1>1, <2>1, Z3
  <2> QED BY <2>2 DEF d
<1>3. PgsCount(free) \in {0, Larger(due, 0)}
  BY DEF PgsCount
<1> HIDE DEF due
<1>4. PgsCount(free) \in Nat
  BY <1>2, <1>3 DEF Larger
<1>5. PgsLength(free) \in Nat
  BY <1>1 DEF PgsLength
<1>6. PgsMinislots = 0 => PgsCount(free) = 0
  BY DEF PgsCount
<1>7. PgsGranted(free) \in Nat /\ (PgsCount(free) = 0 => PgsGranted(free) = 0)
  BY <1>4, <1>5 DEF PgsGranted
<1> QED BY <1>4, <1>5, <1>6, <1>7

\* The shaper never offers more than its burst.
LEMMA TokensAreBounded ==
  ASSUME TypeOK
  PROVE  /\ MsrTokens \in 0..MaxTrafficBurst
         /\ PeakTokens \in 0..PeakBurst
         /\ AvailableTokens \in 0..MaxTrafficBurst
BY SchedulerAssumption DEF TypeOK, MsrTokens, PeakTokens, AvailableTokens, Smaller

\* The arguments with which GenerateMap calls the split.
LEMMA SplitArguments ==
  ASSUME TypeOK, NEW free \in FreeMinislots
  PROVE  /\ Available(free, AvailableTokens) \in Nat
         /\ Available(free, AvailableTokens) <= MinislotCeil(AvailableTokens)
         /\ Available(free, AvailableTokens) <= free
         /\ MinislotCeil(requests[Classic]) \in Nat
         /\ MaxLowLatency(requests[LowLatency], PgsGranted(free)) \in Nat
         /\ PgsGranted(free) <= MaxLowLatency(requests[LowLatency], PgsGranted(free))
<1>1. requests[Classic] \in Nat /\ requests[LowLatency] \in Nat
  BY DEF TypeOK, Flow
<1>2. AvailableTokens \in Nat /\ PgsGranted(free) \in Nat /\ free \in Nat
  BY TokensAreBounded, PgsGrantedIsNat, SchedulerAssumption
<1>3. /\ MinislotCeil(requests[Classic]) \in Nat
      /\ MinislotCeil(requests[LowLatency]) \in Nat
      /\ MinislotCeil(AvailableTokens) \in Nat
  BY <1>1, <1>2, MinislotCeilCovers
<1> QED BY <1>2, <1>3 DEF Available, MaxLowLatency, Smaller, Larger

\* The split that Allocate makes is the fair one.
LEMMA AllocatedFacts ==
  ASSUME TypeOK, NEW free \in FreeMinislots,
         AvailableTokens > 0, \E f \in Flow : requests[f] > 0
  PROVE  SplitIsFair(Available(free, AvailableTokens), MinislotCeil(requests[Classic]),
                     MaxLowLatency(requests[LowLatency], PgsGranted(free)),
                     PgsGranted(free), Allocated(free))
<1>1. PgsGranted(free) \in Nat
  BY PgsGrantedIsNat
<1>2. Allocated(free) = Split(Available(free, AvailableTokens),
                              MinislotCeil(requests[Classic]),
                              MaxLowLatency(requests[LowLatency], PgsGranted(free)),
                              PgsGranted(free))
  BY DEF Allocated, Allocate
<1> QED BY <1>1, <1>2, SplitArguments, SplitFair

\* What a MAP grants: either the PGS minislots alone, or no more than the
\* shaper and the congestion model leave.
LEMMA ScheduledFacts ==
  ASSUME TypeOK, NEW free \in FreeMinislots
  PROVE  /\ Scheduled(free, Classic) \in Nat
         /\ Scheduled(free, LowLatency) \in Nat
         /\ LET n == Scheduled(free, Classic) + Scheduled(free, LowLatency)
            IN  n = PgsGranted(free) \/ n <= Available(free, AvailableTokens)
<1>1. PgsGranted(free) \in Nat
  BY PgsGrantedIsNat
<1>2. /\ Scheduled(free, Classic) = Allocated(free).c
      /\ Scheduled(free, LowLatency) = Larger(Allocated(free).l, PgsGranted(free))
  BY DEF Scheduled, Classic, LowLatency
<1>3. CASE AvailableTokens > 0 /\ \E f \in Flow : requests[f] > 0
  <2> DEFINE avail == Available(free, AvailableTokens)
             maxC  == MinislotCeil(requests[Classic])
             maxL  == MaxLowLatency(requests[LowLatency], PgsGranted(free))
             n     == ToAllocate(avail, maxC, maxL, PgsGranted(free))
  <2>1. avail \in Nat /\ maxC \in Nat /\ maxL \in Nat /\ PgsGranted(free) <= maxL
    BY SplitArguments
  <2>2. Allocated(free) = Split(avail, maxC, maxL, PgsGranted(free))
    BY <1>3 DEF Allocated, Allocate
  <2>3. SplitIsFair(avail, maxC, maxL, PgsGranted(free), Allocated(free))
    BY <1>3, AllocatedFacts
  <2>4. n \in Nat /\ (n = PgsGranted(free) \/ n <= avail)
    <3>1. /\ n \in Nat
          /\ PgsGranted(free) <= LowLatencyShare(n, PgsGranted(free))
          /\ LowLatencyShare(n, PgsGranted(free)) <= n
          /\ LowLatencyShare(n, PgsGranted(free)) \in Nat
          /\ n <= Larger(avail, PgsGranted(free))
      BY <1>1, <2>1, ShareFacts
    <3> HIDE DEF n, avail
    <3> QED BY <1>1, <2>1, <3>1 DEF Larger
  <2>5. /\ Allocated(free).c + Allocated(free).l = n
        /\ PgsGranted(free) <= Allocated(free).l
    BY <2>3 DEF SplitIsFair
  <2>6. Allocated(free).c \in Nat /\ Allocated(free).l \in Nat
    BY <1>1, <2>1, <2>2, SplitIsNat
  <2> HIDE DEF avail, maxC, maxL, n
  <2>7. Scheduled(free, Classic) + Scheduled(free, LowLatency) = n
    BY <1>1, <1>2, <2>5, <2>6 DEF Larger
  <2>8. Scheduled(free, Classic) \in Nat /\ Scheduled(free, LowLatency) \in Nat
    BY <1>1, <1>2, <2>6 DEF Larger
  <2> QED BY <2>4, <2>7, <2>8 DEF avail
<1>4. CASE ~(AvailableTokens > 0 /\ \E f \in Flow : requests[f] > 0)
  <2>1. Allocated(free).c = 0 /\ Allocated(free).l = 0
    BY <1>4 DEF Allocated
  <2> QED BY <1>1, <1>2, <2>1 DEF Larger
<1> QED BY <1>3, <1>4

\* The bytes a MAP is charged for.
LEMMA ChargeFacts ==
  ASSUME TypeOK, NEW free \in FreeMinislots
  PROVE  /\ Charge(free) \in Nat
         /\ \/ Charge(free) = MinislotsToBytes(PgsGranted(free))
            \/ /\ Charge(free) < AvailableTokens + Capacity
               /\ Charge(free) <= MinislotsToBytes(free)
<1> DEFINE n == Scheduled(free, Classic) + Scheduled(free, LowLatency)
           avail == Available(free, AvailableTokens)
           ceil == MinislotCeil(AvailableTokens)
<1>1. n \in Nat /\ (n = PgsGranted(free) \/ n <= avail)
  BY ScheduledFacts
<1>2. avail \in Nat /\ avail <= ceil /\ avail <= free
  BY SplitArguments
<1>3. ceil \in Nat /\ ceil * Capacity < AvailableTokens + Capacity
  BY TokensAreBounded, MinislotCeilCovers DEF MinislotsToBytes
<1>4. free \in Nat /\ AvailableTokens \in Nat
  BY TokensAreBounded, SchedulerAssumption
<1>5. Charge(free) = n * Capacity
  BY DEF Charge, MinislotsToBytes
<1> HIDE DEF n, avail, ceil
<1>6. n * Capacity \in Nat
  BY <1>1, CapacityAssumption
<1>7. CASE n = PgsGranted(free)
  BY <1>5, <1>6, <1>7 DEF MinislotsToBytes
<1>8. CASE n <= avail
  <2>1. n <= ceil /\ n <= free
    BY <1>1, <1>2, <1>3, <1>4, <1>8
  <2>2. n * Capacity <= ceil * Capacity
    BY <1>1, <1>3, <2>1, CapacityAssumption
  <2>3. n * Capacity <= free * Capacity
    BY <1>1, <1>4, <2>1, CapacityAssumption
  <2>4. ceil * Capacity \in Nat
    BY <1>3, CapacityAssumption
  <2>5. n * Capacity < AvailableTokens + Capacity
    <3> DEFINE a == n * Capacity
               b == ceil * Capacity
    <3>1. a \in Nat /\ b \in Nat /\ a <= b /\ b < AvailableTokens + Capacity
      BY <1>3, <1>6, <2>2, <2>4
    <3> HIDE DEF a, b
    <3>2. a < AvailableTokens + Capacity
      BY <1>4, <3>1, CapacityAssumption
    <3> QED BY <3>2 DEF a
  <2> QED BY <1>5, <1>6, <2>3, <2>5 DEF MinislotsToBytes
<1> QED BY <1>1, <1>7, <1>8

-----------------------------------------------------------------------------
(* The PGS clock.                                                          *)

\* The last PGS grant that is made is the last one due before the MAP's end.
LEMMA LastPgsOfMap ==
  ASSUME TypeOK, NEW free \in FreeMinislots, free # 0, PgsMinislots > 0,
         lastPgs < MinislotsPerMap
  PROVE  LET last == lastPgs + PgsCount(free) * PgsGap
         IN  last \in Int /\ last < MinislotsPerMap /\ last + PgsGap >= MinislotsPerMap
<1>1. /\ lastPgs \in Int /\ PgsGap \in Nat /\ PgsGap > 0 /\ MinislotsPerMap \in Nat
      /\ PgsMinislots \in Nat
  BY SchedulerAssumption DEF TypeOK
<1> DEFINE d == MinislotsPerMap - 1 - lastPgs
           q == d \div PgsGap
<1>2. d \in Nat
  BY <1>1
<1>3. q \in Nat /\ PgsGap * q <= d /\ d < PgsGap * q + PgsGap
  <2> HIDE DEF d
  <2> QED BY <1>1, <1>2, Z3
<1>4. PgsCount(free) = Larger(q, 0)
  BY <1>1 DEF PgsCount
<1> HIDE DEF q
<1>5. PgsCount(free) = q
  BY <1>3, <1>4 DEF Larger
<1> DEFINE w == PgsGap * q
<1>6. w \in Nat /\ w = q * PgsGap
  BY <1>1, <1>3
<1>7. w <= d /\ d < w + PgsGap
  BY <1>3
<1> HIDE DEF w
<1>8. lastPgs + w < MinislotsPerMap /\ lastPgs + w + PgsGap >= MinislotsPerMap
  BY <1>1, <1>6, <1>7
<1> QED BY <1>1, <1>5, <1>6, <1>8

-----------------------------------------------------------------------------
(* Type correctness.                                                       *)

\* The scheduler starts with no backlog.
LEMMA InitTypeOK == Init => TypeOK
BY SchedulerAssumption DEF Init, TypeOK, Flow, NoDrain

\* A request is counted into the backlog.
LEMMA ReceiveRequestTypeOK ==
  ASSUME TypeOK, NEW flow \in Flow, NEW bytes \in RequestSizes, ReceiveRequest(flow, bytes)
  PROVE  TypeOK'
<1>1. bytes \in Nat
  BY SchedulerAssumption
<1>2. requests' \in [Flow -> Nat]
  BY <1>1 DEF TypeOK, ReceiveRequest
<1> QED BY <1>2 DEF TypeOK, ReceiveRequest, buckets

\* The unused bytes of a grant are redeposited in the bucket.
LEMMA ReceiveUnusedTypeOK ==
  ASSUME TypeOK, NEW flow \in Flow, ReceiveUnused(flow)
  PROVE  TypeOK'
<1> DEFINE first == Head(outstanding)
           rest  == [first EXCEPT ![flow] = 0]
<1>1. outstanding \in Seq([Flow -> Nat]) /\ outstanding # <<>>
  BY DEF TypeOK, ReceiveUnused
<1>2. first \in [Flow -> Nat] /\ Tail(outstanding) \in Seq([Flow -> Nat])
  BY <1>1
<1>3. rest \in [Flow -> Nat]
  BY <1>2
<1>4. \E unused \in 0..first[flow] : msrTokens' = msrTokens + unused
  BY DEF ReceiveUnused
<1>5. msrTokens' \in Nat
  <2>1. first[flow] \in Nat
    BY <1>2
  <2> HIDE DEF first
  <2> QED BY <1>4, <2>1 DEF TypeOK
<1>6. outstanding' \in {Tail(outstanding), <<rest>> \o Tail(outstanding)}
  BY DEF ReceiveUnused
<1>7. outstanding' \in Seq([Flow -> Nat])
  <2> DEFINE Bytes == [Flow -> Nat]
  <2>1. rest \in Bytes /\ Tail(outstanding) \in Seq(Bytes)
    BY <1>2, <1>3
  <2> HIDE DEF Bytes, rest
  <2>2. <<rest>> \in Seq(Bytes)
    BY <2>1
  <2>3. <<rest>> \o Tail(outstanding) \in Seq(Bytes)
    BY <2>1, <2>2
  <2> QED BY <1>6, <2>1, <2>3 DEF Bytes
<1> QED BY <1>5, <1>7 DEF TypeOK, ReceiveUnused

\* A MAP grants what fits, and the backlog is reduced by it.
LEMMA GenerateMapTypeOK ==
  ASSUME TypeOK, NEW free \in FreeMinislots, GenerateMap(free)
  PROVE  TypeOK'
<1>1. \A f \in Flow : MinislotsToBytes(Scheduled(free, f)) \in Nat
  BY ScheduledFacts, CapacityAssumption DEF Flow, MinislotsToBytes
<1>2. requests' \in [Flow -> Nat]
  BY <1>1 DEF TypeOK, GenerateMap, ScheduleMap, ReduceBacklog, Monus
<1>3. msrTokens' \in Nat /\ peakTokens' \in 0..PeakBurst
  <2>1. MsrTokens \in Nat /\ PeakTokens \in 0..PeakBurst /\ Charge(free) \in Nat
    BY TokensAreBounded, ChargeFacts, SchedulerAssumption
  <2>2. /\ msrTokens' \in {MsrTokens, Monus(MsrTokens, Charge(free))}
        /\ peakTokens' \in {PeakTokens, Monus(PeakTokens, Charge(free))}
    BY DEF GenerateMap, ScheduleMap, DrainBuckets
  <2> QED BY <2>1, <2>2, SchedulerAssumption DEF Monus
<1>4. accrued' \in Nat \cup {NoDrain}
  <2>1. MinislotsToBytes(MinislotsPerMap) \in Nat
    BY CapacityAssumption, SchedulerAssumption DEF MinislotsToBytes
  <2>2. Accrued \in Nat \cup {NoDrain}
    BY <2>1, SchedulerAssumption DEF TypeOK, Accrued, Smaller, NoDrain
  <2> QED BY <2>2 DEF GenerateMap, ScheduleMap, DrainBuckets
<1>5. lastPgs' \in Int
  <2>1. PgsCount(free) * PgsGap \in Int /\ lastPgs \in Int /\ MinislotsPerMap \in Int
    BY PgsGrantedIsNat, SchedulerAssumption DEF TypeOK
  <2> QED BY <2>1 DEF GenerateMap, ScheduleMap, AdvancePgs
<1>6. outstanding' \in Seq([Flow -> Nat])
  <2> DEFINE grants == [f \in Flow |-> MinislotsToBytes(Scheduled(free, f))]
  <2>1. grants \in [Flow -> Nat]
    BY <1>1
  <2>2. outstanding' \in {outstanding, Append(outstanding, grants)}
    BY DEF GenerateMap, ScheduleMap, NoteOutstanding
  <2>3. outstanding \in Seq([Flow -> Nat])
    BY DEF TypeOK
  <2> DEFINE Bytes == [Flow -> Nat]
  <2> HIDE DEF grants, Bytes
  <2>4. grants \in Bytes /\ outstanding \in Seq(Bytes)
    BY <2>1, <2>3 DEF Bytes
  <2>5. Append(outstanding, grants) \in Seq(Bytes)
    BY <2>4
  <2> QED BY <2>2, <2>4, <2>5 DEF Bytes
<1> QED BY <1>2, <1>3, <1>4, <1>5, <1>6 DEF TypeOK

\* Every step of the scheduler keeps the types.
LEMMA NextTypeOK == TypeOK /\ [Next]_vars => TypeOK'
<1> SUFFICES ASSUME TypeOK, [Next]_vars PROVE TypeOK'
  OBVIOUS
<1>1. CASE \E flow \in Flow, bytes \in RequestSizes : ReceiveRequest(flow, bytes)
  BY <1>1, ReceiveRequestTypeOK
<1>2. CASE \E flow \in Flow : ReceiveUnused(flow)
  BY <1>2, ReceiveUnusedTypeOK
<1>3. CASE \E free \in FreeMinislots : GenerateMap(free)
  BY <1>3, GenerateMapTypeOK
<1>4. CASE UNCHANGED vars
  BY <1>4 DEF TypeOK, vars, buckets
<1> QED BY <1>1, <1>2, <1>3, <1>4 DEF Next

\* The scheduler's counters keep their types: neither the backlogs nor the
\* token buckets ever go below zero, whatever is granted and redeposited.
THEOREM TypeCorrect == Spec => []TypeOK
BY InitTypeOK, NextTypeOK, PTL DEF Spec

-----------------------------------------------------------------------------
(* Fairness of the allocation, and what the shaper lets through.           *)

\* In every reachable state and for any free capacity, Allocate respects the
\* weight, the PGS grants and the demands of both flows.
THEOREM AlwaysFair == Spec => []AllocationIsFair
<1>1. TypeOK => AllocationIsFair
  BY AllocatedFacts DEF AllocationIsFair
<1> QED BY <1>1, TypeCorrect, PTL

\* Rounding up to minislots costs a MAP less than one minislot over what the
\* token bucket holds; only PGS grants exceed it.
THEOREM OverageBounded == Spec => []OverageIsSmall
<1>1. TypeOK => OverageIsSmall
  BY ChargeFacts DEF OverageIsSmall
<1> QED BY <1>1, TypeCorrect, PTL

\* Without guaranteed grants, and when a MAP interval accrues at least the
\* bytes of a minislot less one, the conformance check of
\* DecrementTokenBucketCounters never fails, whatever is redeposited.
THEOREM NeverOverLimits ==
  ASSUME PgsMinislots = 0, Capacity <= MsrIncrement + 1
  PROVE  Spec => []WithinTokenLimits
<1>1. ASSUME TypeOK PROVE WithinTokenLimits
  <2> SUFFICES ASSUME accrued # NoDrain, NEW free \in FreeMinislots
               PROVE  Charge(free) <= Accrued + MaxTrafficBurst
    BY DEF WithinTokenLimits
  <2> DEFINE whole == MinislotsToBytes(MinislotsPerMap)
             most  == MinislotsToBytes(free)
  <2>1. free \in Nat /\ free <= MinislotsPerMap /\ MinislotsPerMap \in Nat
    BY SchedulerAssumption
  <2>2. whole \in Nat /\ most \in Nat /\ most <= whole
    BY <2>1, CapacityAssumption DEF MinislotsToBytes
  <2>3. PgsGranted(free) = 0
    BY <1>1, PgsGrantedIsNat
  <2>4. MinislotsToBytes(PgsGranted(free)) = 0
    BY <2>3, CapacityAssumption DEF MinislotsToBytes
  <2>5. /\ Charge(free) \in Nat
        /\ \/ Charge(free) = 0
           \/ Charge(free) < AvailableTokens + Capacity /\ Charge(free) <= most
    BY <1>1, <2>4, ChargeFacts
  <2>6. AvailableTokens \in 0..MaxTrafficBurst
    BY <1>1, TokensAreBounded
  <2> HIDE DEF whole, most
  <2>7. Accrued \in Nat /\ (Accrued >= MsrIncrement \/ Accrued = whole)
    BY <1>1, <2>2, SchedulerAssumption DEF TypeOK, Accrued, Smaller, NoDrain, whole
  <2> QED BY <2>2, <2>5, <2>6, <2>7, CapacityAssumption, SchedulerAssumption
<1> QED BY <1>1, TypeCorrect, PTL

-----------------------------------------------------------------------------
(* Guaranteed grants.                                                      *)

\* When the first PGS grant is due within one interval and every MAP has a free
\* minislot, no PGS grant is ever missed or made for the past.  Both conditions
\* are needed: the run sched_pgs shows it for the second.
THEOREM PgsNeverLate ==
  ASSUME FirstPgs < PgsGap, 0 \notin FreeMinislots
  PROVE  Spec => []PgsOnTime
<1>1. Init => PgsOnTime
  BY SchedulerAssumption DEF Init, PgsOnTime
<1>2. ASSUME TypeOK, PgsOnTime, [Next]_vars PROVE PgsOnTime'
  <2>1. CASE \E flow \in Flow, bytes \in RequestSizes : ReceiveRequest(flow, bytes)
    BY <1>2, <2>1 DEF PgsOnTime, ReceiveRequest
  <2>2. CASE \E flow \in Flow : ReceiveUnused(flow)
    BY <1>2, <2>2 DEF PgsOnTime, ReceiveUnused
  <2>3. CASE \E free \in FreeMinislots : GenerateMap(free)
    <3> SUFFICES ASSUME NEW free \in FreeMinislots, GenerateMap(free), PgsMinislots > 0
                 PROVE  lastPgs' < 0 /\ lastPgs' + PgsGap >= 0
      BY <2>3 DEF PgsOnTime
    <3>1. /\ lastPgs \in Int /\ lastPgs < 0
          /\ PgsGap \in Nat /\ PgsGap > 0 /\ MinislotsPerMap \in Nat
      BY <1>2, SchedulerAssumption DEF TypeOK, PgsOnTime
    <3>2. lastPgs' = lastPgs + PgsCount(free) * PgsGap - MinislotsPerMap
      BY SchedulerAssumption DEF GenerateMap, ScheduleMap, AdvancePgs
    <3>3. free # 0 /\ lastPgs < MinislotsPerMap
      BY <3>1
    <3> DEFINE last == lastPgs + PgsCount(free) * PgsGap
    <3>4. last \in Int /\ last < MinislotsPerMap /\ last + PgsGap >= MinislotsPerMap
      BY <1>2, <3>3, LastPgsOfMap
    <3> HIDE DEF last
    <3>5. lastPgs' = last - MinislotsPerMap
      <4> DEFINE made == PgsCount(free) * PgsGap
      <4>1. made \in Int
        BY <1>2, <3>1, PgsGrantedIsNat
      <4>2. lastPgs' = lastPgs + made - MinislotsPerMap /\ last = lastPgs + made
        BY <3>2, Zenon DEF last
      <4> HIDE DEF made
      <4> QED BY <3>1, <4>1, <4>2
    <3> QED BY <3>1, <3>4, <3>5
  <2>4. CASE UNCHANGED vars
    BY <1>2, <2>4 DEF PgsOnTime, vars
  <2> QED BY <1>2, <2>1, <2>2, <2>3, <2>4 DEF Next
<1> QED BY <1>1, <1>2, TypeCorrect, PTL DEF Spec

-----------------------------------------------------------------------------
(* Grant lists.                                                            *)

GrantRecord == [sfid : Flow, offset : Nat, length : Nat]

\* The grants lie between a and b, in order, and no two share a minislot.
LieIn(list, a, b) ==
  /\ list \in Seq(GrantRecord)
  /\ \A i \in 1 .. Len(list) :
       list[i].length > 0 /\ a <= list[i].offset /\ End(list[i]) <= b
  /\ \A i, j \in 1 .. Len(list) : i < j => End(list[i]) <= list[j].offset

\* The minislots of a grant, and those of them that go to a flow.
Lengths == [g \in GrantRecord |-> g.length]
LengthsFor(f) == [g \in GrantRecord |-> IF g.sfid = f THEN g.length ELSE 0]

\* The fields of a grant.
LEMMA GrantFacts ==
  ASSUME NEW g \in GrantRecord
  PROVE  /\ g.sfid \in Flow /\ g.offset \in Nat /\ g.length \in Nat
         /\ End(g) = g.offset + g.length /\ End(g) \in Nat
         /\ Lengths[g] = g.length
BY DEF GrantRecord, End, Lengths

\* Minislots are counted by weight.
LEMMA LengthFacts ==
  ASSUME NEW list \in Seq(GrantRecord)
  PROVE  /\ Lengths \in [GrantRecord -> Nat]
         /\ SumOfLengths(list) = TotalWeight(list, Lengths)
         /\ SumOfLengths(list) \in Nat
         /\ \A f \in Flow : /\ LengthsFor(f) \in [GrantRecord -> Nat]
                            /\ GrantedTo(list, f) = TotalWeight(list, LengthsFor(f))
<1>1. /\ Lengths \in [GrantRecord -> Nat]
      /\ \A f \in Flow : LengthsFor(f) \in [GrantRecord -> Nat]
  BY DEF Lengths, LengthsFor, GrantRecord
<1>2. \A i \in DOMAIN list : list[i] \in GrantRecord
  BY LenProperties, ElementOfSeq
<1>3. SumOfLengths(list) = TotalWeight(list, Lengths)
  <2>1. [i \in DOMAIN list |-> list[i].length] = Weights(list, Lengths)
    BY <1>2 DEF Weights, Lengths
  <2> QED BY <2>1 DEF SumOfLengths, TotalWeight
<1>4. ASSUME NEW f \in Flow PROVE GrantedTo(list, f) = TotalWeight(list, LengthsFor(f))
  <2>1. [i \in DOMAIN list |-> IF list[i].sfid = f THEN list[i].length ELSE 0]
          = Weights(list, LengthsFor(f))
    BY <1>2 DEF Weights, LengthsFor
  <2> QED BY <2>1 DEF GrantedTo, TotalWeight
<1>5. TotalWeight(list, Lengths) \in Nat
  BY <1>1, WeightFacts
<1> QED BY <1>1, <1>3, <1>4, <1>5

\* One list of grants after another.
LEMMA LieInConcat ==
  ASSUME NEW s, NEW t, NEW a \in Nat, NEW b \in Nat, NEW c \in Nat, a <= b, b <= c,
         LieIn(s, a, b), LieIn(t, b, c)
  PROVE  LieIn(s \o t, a, c)
<1> DEFINE m == Len(s)
           n == Len(t)
           u == s \o t
<1>1. s \in Seq(GrantRecord) /\ t \in Seq(GrantRecord)
  BY DEF LieIn
<1>2. m \in Nat /\ n \in Nat
  BY <1>1, LenProperties
<1>3. /\ u \in Seq(GrantRecord) /\ Len(u) = m + n
      /\ \A i \in 1 .. m + n : u[i] = IF i <= m THEN s[i] ELSE t[i - m]
  BY <1>1, ConcatProperties
<1>4. /\ \A i \in 1..m : /\ s[i].length > 0 /\ a <= s[i].offset /\ End(s[i]) <= b
                         /\ s[i] \in GrantRecord
      /\ \A i, j \in 1..m : i < j => End(s[i]) <= s[j].offset
  BY <1>1, ElementOfSeq DEF LieIn
<1>5. /\ \A i \in 1..n : /\ t[i].length > 0 /\ b <= t[i].offset /\ End(t[i]) <= c
                         /\ t[i] \in GrantRecord
      /\ \A i, j \in 1..n : i < j => End(t[i]) <= t[j].offset
  BY <1>1, ElementOfSeq DEF LieIn
<1> HIDE DEF m, n, u
<1>6. ASSUME NEW i \in 1 .. m + n
      PROVE  \/ i \in 1..m /\ u[i] = s[i]
             \/ i - m \in 1..n /\ u[i] = t[i - m] /\ i > m
  BY <1>2, <1>3
<1>7. ASSUME NEW i \in 1 .. m + n
      PROVE  u[i].length > 0 /\ a <= u[i].offset /\ End(u[i]) <= c
  <2>1. CASE i \in 1..m /\ u[i] = s[i]
    <3>1. End(s[i]) \in Nat
      BY <1>4, <2>1, GrantFacts
    <3> QED BY <1>4, <2>1, <3>1
  <2>2. CASE i - m \in 1..n /\ u[i] = t[i - m]
    <3>1. t[i - m].offset \in Nat
      BY <1>5, <2>2, GrantFacts
    <3> QED BY <1>5, <2>2, <3>1
  <2> QED BY <1>6, <2>1, <2>2
<1>8. ASSUME NEW i \in 1 .. m + n, NEW j \in 1 .. m + n, i < j
      PROVE  End(u[i]) <= u[j].offset
  <2>1. CASE j \in 1..m /\ u[j] = s[j]
    <3>1. i \in 1..m
      BY <1>2, <1>8, <2>1
    <3>2. u[i] = s[i]
      BY <1>2, <1>3, <3>1
    <3> QED BY <1>4, <1>8, <2>1, <3>1, <3>2
  <2>2. CASE j - m \in 1..n /\ u[j] = t[j - m] /\ j > m
    <3>1. CASE i \in 1..m /\ u[i] = s[i]
      <4>1. End(s[i]) \in Nat /\ t[j - m].offset \in Nat
        BY <1>4, <1>5, <2>2, <3>1, GrantFacts
      <4>2. End(s[i]) <= b /\ b <= t[j - m].offset
        BY <1>4, <1>5, <2>2, <3>1
      <4> QED BY <2>2, <3>1, <4>1, <4>2
    <3>2. CASE i - m \in 1..n /\ u[i] = t[i - m]
      <4>1. i - m < j - m
        BY <1>2, <1>8
      <4> QED BY <1>5, <2>2, <3>2, <4>1
    <3> QED BY <1>6, <3>1, <3>2
  <2> QED BY <1>6, <2>1, <2>2
<1> QED BY <1>3, <1>7, <1>8 DEF LieIn, u

\* A list without grants.
LEMMA LieInEmpty == \A a, b \in Nat : LieIn(<<>>, a, b)
BY EmptySeq DEF LieIn

\* A list of one grant.
LEMMA LieInOne ==
  ASSUME NEW g \in GrantRecord, NEW a \in Nat, NEW b \in Nat,
         g.length > 0, a <= g.offset, End(g) <= b
  PROVE  LieIn(<<g>>, a, b)
<1>1. <<g>> \in Seq(GrantRecord) /\ Len(<<g>>) = 1 /\ <<g>>[1] = g
  OBVIOUS
<1>2. \A i \in 1 .. Len(<<g>>) : <<g>>[i] = g
  BY <1>1
<1>3. \A i, j \in 1 .. Len(<<g>>) : ~ (i < j)
  BY <1>1
<1> QED BY <1>1, <1>2, <1>3 DEF LieIn

\* Lists that each lie between two cuts lie between the first and the last.
LEMMA LieInFlatten ==
  ASSUME NEW seqs \in Seq(Seq(GrantRecord)), Len(seqs) > 0, NEW cut,
         \A i \in 0 .. Len(seqs) : cut[i] \in Nat,
         \A i \in 1 .. Len(seqs) : cut[i - 1] <= cut[i] /\ LieIn(seqs[i], cut[i - 1], cut[i])
  PROVE  LieIn(FlattenSeq(seqs), cut[0], cut[Len(seqs)])
<1> DEFINE n == Len(seqs)
<1>1. n \in Nat
  BY LenProperties
<1>2. PICK F : Flattened(GrantRecord, seqs, n, F) /\ FlattenSeq(seqs) = F[n]
  BY FlattenSteps
<1>3. F[0] = <<>> /\ \A i \in 1..n : F[i] = F[i - 1] \o seqs[i]
  BY <1>2 DEF Flattened
<1>4. /\ \A i \in 0..n : cut[i] \in Nat
      /\ \A i \in 1..n : cut[i - 1] <= cut[i] /\ LieIn(seqs[i], cut[i - 1], cut[i])
  OBVIOUS
<1> HIDE DEF n
<1> DEFINE T == {k \in 0..n : LieIn(F[k], cut[0], cut[k]) /\ cut[0] <= cut[k]}
<1>5. 0 \in T
  <2>1. 0 \in 0..n /\ cut[0] \in Nat
    BY <1>1, <1>4
  <2> QED BY <1>3, <2>1, LieInEmpty
<1>6. ASSUME NEW k \in 1..n, k - 1 \in T PROVE k \in T
  <2>1. k \in 0..n /\ k - 1 \in 0..n /\ 0 \in 0..n
    BY <1>1
  <2>2. LieIn(F[k - 1], cut[0], cut[k - 1]) /\ cut[0] <= cut[k - 1]
    BY <1>6
  <2>3. cut[0] \in Nat /\ cut[k - 1] \in Nat /\ cut[k] \in Nat
    BY <1>4, <2>1
  <2>4. cut[k - 1] <= cut[k] /\ LieIn(seqs[k], cut[k - 1], cut[k])
    BY <1>4
  <2>5. LieIn(F[k - 1] \o seqs[k], cut[0], cut[k])
    BY <2>2, <2>3, <2>4, LieInConcat
  <2> HIDE DEF T
  <2>6. F[k] = F[k - 1] \o seqs[k]
    BY <1>3
  <2>7. LieIn(F[k], cut[0], cut[k])
    BY <2>5, <2>6, Zenon
  <2>8. cut[0] <= cut[k]
    BY <2>2, <2>3, <2>4
  <2> QED BY <2>1, <2>7, <2>8 DEF T
<1>7. \A k \in 0..n : k \in T
  <2> HIDE DEF T
  <2> QED BY <1>1, <1>5, <1>6, CountUp
<1>8. n \in 0..n
  BY <1>1
<1> QED BY <1>2, <1>7, <1>8 DEF n

\* The end of the i-th grant, and of the MAP after the last one.
Cut(list) ==
  [i \in 0 .. Len(list) + 1 |->
     IF i = 0 THEN 0 ELSE IF i > Len(list) THEN MinislotsPerMap ELSE End(list[i])]
RoomsOf(list) == [i \in 1 .. Len(list) + 1 |-> Holes(list)[i].length]

\* Each cut is a hole and a grant after the one before it.
LEMMA HoleFacts ==
  ASSUME NEW list, LieIn(list, 0, MinislotsPerMap)
  PROVE  /\ \A i \in 0 .. Len(list) + 1 : Cut(list)[i] \in Nat
         /\ RoomsOf(list) \in Seq(Nat) /\ Len(RoomsOf(list)) = Len(list) + 1
         /\ \A i \in 1 .. Len(list) + 1 :
              /\ Holes(list)[i].offset = Cut(list)[i - 1]
              /\ Holes(list)[i].length = RoomsOf(list)[i]
              /\ RoomsOf(list)[i] \in Nat
              /\ Cut(list)[i] = Cut(list)[i - 1] + RoomsOf(list)[i]
                                  + (IF i > Len(list) THEN 0 ELSE list[i].length)
              /\ i <= Len(list) => list[i].offset = Cut(list)[i - 1] + RoomsOf(list)[i]
<1> DEFINE n == Len(list)
           cut == Cut(list)
           rooms == RoomsOf(list)
           holes == Holes(list)
           to(i) == IF i > n THEN MinislotsPerMap ELSE list[i].offset
<1>1. n \in Nat /\ MinislotsPerMap \in Nat
  BY LenProperties, SchedulerAssumption DEF LieIn
<1>2. \A i \in 1..n : /\ list[i] \in GrantRecord /\ list[i].length > 0
                      /\ End(list[i]) <= MinislotsPerMap
  BY ElementOfSeq DEF LieIn
<1>3. \A i, j \in 1..n : i < j => End(list[i]) <= list[j].offset
  BY DEF LieIn
<1>4. \A i \in 1..n : /\ list[i].offset \in Nat /\ list[i].length \in Nat
                      /\ End(list[i]) = list[i].offset + list[i].length
                      /\ End(list[i]) \in Nat
  BY <1>2, GrantFacts
<1>5. /\ cut = [i \in 0 .. n + 1 |->
                  IF i = 0 THEN 0 ELSE IF i > n THEN MinislotsPerMap ELSE End(list[i])]
      /\ rooms = [i \in 1 .. n + 1 |-> holes[i].length]
  BY DEF Cut, RoomsOf
<1>6. \A i \in 1 .. n + 1 :
        /\ holes[i].offset = IF i = 1 THEN 0 ELSE End(list[i - 1])
        /\ holes[i].length = to(i) - (IF i = 1 THEN 0 ELSE End(list[i - 1]))
  BY DEF Holes
<1> HIDE DEF n, cut, rooms, holes
<1>7. ASSUME NEW i \in 0 .. n + 1 PROVE cut[i] \in Nat
  BY <1>1, <1>4, <1>5
<1>8. ASSUME NEW i \in 1 .. n + 1
      PROVE  /\ i - 1 \in 0 .. n + 1
             /\ cut[i - 1] = IF i = 1 THEN 0 ELSE End(list[i - 1])
  BY <1>1, <1>5
<1>9. ASSUME NEW i \in 1 .. n + 1 PROVE cut[i - 1] <= to(i) /\ to(i) \in Nat
  <2>1. CASE i = 1
    BY <1>1, <1>4, <1>8, <2>1
  <2>2. CASE i # 1
    <3>1. i - 1 \in 1..n /\ cut[i - 1] = End(list[i - 1]) /\ i - 1 < i
      BY <1>1, <1>8, <2>2
    <3>2. CASE i > n
      BY <1>1, <1>2, <3>1, <3>2
    <3>3. CASE i \in 1..n
      BY <1>1, <1>3, <1>4, <3>1, <3>3
    <3> QED BY <1>1, <3>2, <3>3
  <2> QED BY <2>1, <2>2
<1>10. ASSUME NEW i \in 1 .. n + 1
       PROVE  /\ holes[i].offset = cut[i - 1] /\ holes[i].length = to(i) - cut[i - 1]
              /\ rooms[i] = to(i) - cut[i - 1]
  BY <1>5, <1>6, <1>8
<1>11. ASSUME NEW i \in 1 .. n + 1
       PROVE  /\ rooms[i] \in Nat /\ to(i) = cut[i - 1] + rooms[i]
              /\ cut[i] = to(i) + (IF i > n THEN 0 ELSE list[i].length)
  <2>1. cut[i - 1] \in Nat /\ cut[i - 1] <= to(i) /\ to(i) \in Nat
    BY <1>7, <1>8, <1>9
  <2>2. rooms[i] = to(i) - cut[i - 1]
    BY <1>10
  <2>3. cut[i] = to(i) + (IF i > n THEN 0 ELSE list[i].length)
    BY <1>1, <1>4, <1>5
  <2> HIDE DEF to
  <2> QED BY <2>1, <2>2, <2>3
<1>12. rooms \in Seq(Nat) /\ Len(rooms) = n + 1
  <2>1. rooms = [i \in 1 .. n + 1 |-> rooms[i]]
    BY <1>5
  <2>2. rooms \in [1 .. n + 1 -> Nat]
    BY <1>11, <2>1
  <2>3. n + 1 \in Nat
    BY <1>1
  <2> QED BY <2>2, <2>3, SeqDef, LenProperties
<1>13. ASSUME NEW i \in 1 .. n + 1
       PROVE  /\ cut[i] = cut[i - 1] + rooms[i] + (IF i > n THEN 0 ELSE list[i].length)
              /\ i <= n => list[i].offset = cut[i - 1] + rooms[i]
  <2>1. i <= n => list[i].offset = to(i)
    BY <1>1
  <2> QED BY <1>11, <2>1
<1> QED BY <1>7, <1>10, <1>11, <1>12, <1>13 DEF n, cut, rooms, holes

\* The holes have the minislots that no grant has.
LEMMA RoomsAreTheRest ==
  ASSUME NEW list, LieIn(list, 0, MinislotsPerMap)
  PROVE  SumSeq(RoomsOf(list)) + SumOfLengths(list) = MinislotsPerMap
<1> DEFINE n == Len(list)
           cut == Cut(list)
           rooms == RoomsOf(list)
           lens == Weights(list, Lengths)
           padded == Append(lens, 0)
           u == [i \in 1 .. n + 1 |-> rooms[i] + padded[i]]
<1>1. list \in Seq(GrantRecord) /\ n \in Nat /\ MinislotsPerMap \in Nat
  BY LenProperties, SchedulerAssumption DEF LieIn
<1>2. /\ \A i \in 0 .. n + 1 : cut[i] \in Nat
      /\ rooms \in Seq(Nat) /\ Len(rooms) = n + 1
      /\ \A i \in 1 .. n + 1 :
           /\ rooms[i] \in Nat
           /\ cut[i] = cut[i - 1] + rooms[i] + (IF i > n THEN 0 ELSE list[i].length)
  BY HoleFacts
<1>3. cut[0] = 0 /\ cut[n + 1] = MinislotsPerMap
  <2>1. 0 \in 0 .. n + 1 /\ n + 1 \in 0 .. n + 1 /\ n + 1 > n /\ n + 1 # 0
    BY <1>1
  <2> QED BY <2>1 DEF Cut
<1>4. /\ lens \in Seq(Nat) /\ Len(lens) = n /\ SumSeq(lens) = SumOfLengths(list)
      /\ \A i \in 1..n : lens[i] = list[i].length
  <2>1. /\ Weights(list, Lengths) \in Seq(Nat) /\ Len(Weights(list, Lengths)) = Len(list)
        /\ \A i \in 1 .. Len(list) : Weights(list, Lengths)[i] = Lengths[list[i]]
    BY <1>1, LengthFacts, WeightFacts
  <2>2. SumSeq(Weights(list, Lengths)) = SumOfLengths(list)
    BY <1>1, LengthFacts DEF TotalWeight
  <2>3. \A i \in 1..n : Lengths[list[i]] = list[i].length
    BY <1>1, ElementOfSeq, GrantFacts
  <2> QED BY <2>1, <2>2, <2>3
<1> HIDE DEF n, cut, rooms, lens
<1>5. /\ padded \in Seq(Nat) /\ Len(padded) = n + 1 /\ SumSeq(padded) = SumOfLengths(list)
      /\ \A i \in 1..n : padded[i] = list[i].length
      /\ padded[n + 1] = 0
  <2>1. /\ padded \in Seq(Nat) /\ Len(padded) = Len(lens) + 1
        /\ \A i \in 1 .. Len(lens) : padded[i] = lens[i]
        /\ padded[Len(lens) + 1] = 0
    BY <1>4, AppendProperties
  <2>2. SumSeq(padded) = SumSeq(lens) + 0 /\ SumSeq(lens) \in Nat
    BY <1>4, SumAppend, SumIsNat
  <2> HIDE DEF padded
  <2> QED BY <1>4, <2>1, <2>2
<1> HIDE DEF padded
<1>6. \A i \in 1 .. n + 1 : padded[i] = IF i > n THEN 0 ELSE list[i].length
  BY <1>1, <1>5
<1>7. \A i \in 1 .. n + 1 : padded[i] \in Nat
  BY <1>5, ElementOfSeq
<1>8. u \in Seq(Nat) /\ Len(u) = n + 1
  <2>1. u \in [1 .. n + 1 -> Nat]
    BY <1>2, <1>7
  <2>2. n + 1 \in Nat
    BY <1>1
  <2> QED BY <2>1, <2>2, SeqDef, LenProperties
<1>9. \A i \in 1 .. n + 1 : u[i] = rooms[i] + padded[i]
  OBVIOUS
<1> HIDE DEF u
<1>10. SumSeq(u) = SumSeq(rooms) + SumSeq(padded)
  <2>1. Len(padded) = Len(rooms) /\ Len(u) = Len(rooms)
    BY <1>2, <1>5, <1>8
  <2>2. \A i \in 1 .. Len(rooms) : u[i] = rooms[i] + padded[i]
    BY <1>2, <1>9
  <2>3. rooms \in Seq(Nat) /\ padded \in Seq(Nat) /\ u \in Seq(Nat)
    BY <1>2, <1>5, <1>8
  <2> QED BY <2>1, <2>2, <2>3, SumAdded
<1>11. ASSUME NEW i \in 1 .. n + 1 PROVE cut[i] = cut[i - 1] + u[i]
  <2>1. i - 1 \in 0 .. n + 1 /\ i \in 0 .. n + 1
    BY <1>1
  <2>2. cut[i - 1] \in Nat /\ rooms[i] \in Nat /\ padded[i] \in Nat
    BY <1>2, <1>7, <2>1
  <2>3. cut[i] = cut[i - 1] + rooms[i] + padded[i] /\ u[i] = rooms[i] + padded[i]
    BY <1>2, <1>6, <1>9
  <2> QED BY <2>2, <2>3
<1>12. SumSeq(u) = cut[n + 1]
  BY <1>2, <1>3, <1>8, <1>11, SumBetween
<1> QED BY <1>3, <1>5, <1>10, <1>12 DEF rooms

-----------------------------------------------------------------------------
(* The parts of ScheduleGrant.                                             *)

\* Every minislot granted to a flow weighs c.
WeighsGrants(w, sfid, c) ==
  \A offset, length \in Nat : w[Grant(sfid, offset, length)] = c * length

\* A grant of no minislots is no grant.
LEMMA GrantIfAnyLies ==
  ASSUME NEW sfid \in Flow, NEW offset \in Nat, NEW length \in Nat
  PROVE  /\ GrantIfAny(sfid, offset, length) \in Seq(GrantRecord)
         /\ LieIn(GrantIfAny(sfid, offset, length), offset, offset + length)
<1> DEFINE g == Grant(sfid, offset, length)
<1>1. g \in GrantRecord /\ g.length = length /\ g.offset = offset /\ End(g) = offset + length
  BY DEF Grant, GrantRecord, End
<1>2. offset + length \in Nat
  OBVIOUS
<1>3. GrantIfAny(sfid, offset, length) = IF length = 0 THEN <<>> ELSE <<g>>
  BY DEF GrantIfAny
<1> HIDE DEF g
<1>4. CASE length = 0
  <2>1. <<>> \in Seq(GrantRecord)
    BY EmptySeq
  <2> QED BY <1>2, <1>3, <1>4, <2>1, LieInEmpty
<1>5. CASE length # 0
  <2>1. g.length > 0 /\ offset <= g.offset /\ End(g) <= offset + length
    BY <1>1, <1>2, <1>5
  <2>2. LieIn(<<g>>, offset, offset + length)
    BY <1>1, <1>2, <2>1, LieInOne
  <2>3. <<g>> \in Seq(GrantRecord)
    BY <1>1
  <2> QED BY <1>3, <1>5, <2>2, <2>3
<1> QED BY <1>4, <1>5

\* It weighs what its minislots weigh.
LEMMA GrantIfAnyWeight ==
  ASSUME NEW sfid \in Flow, NEW offset \in Nat, NEW length \in Nat,
         NEW w \in [GrantRecord -> Nat], NEW c \in Nat, WeighsGrants(w, sfid, c)
  PROVE  TotalWeight(GrantIfAny(sfid, offset, length), w) = c * length
<1> DEFINE g == Grant(sfid, offset, length)
<1>1. g \in GrantRecord
  BY DEF Grant, GrantRecord
<1>2. w[g] = c * length
  BY DEF WeighsGrants
<1>3. GrantIfAny(sfid, offset, length) = IF length = 0 THEN <<>> ELSE <<g>>
  BY DEF GrantIfAny
<1> HIDE DEF g
<1>4. TotalWeight(<<>>, w) = 0
  BY SumEmpty DEF TotalWeight, Weights
<1>5. TotalWeight(<<g>>, w) = c * length
  BY <1>1, <1>2, WeightOfOne
<1> QED BY <1>3, <1>4, <1>5

\* When it fits into the holes, all that is to be granted is granted there.
LEMMA FillFacts ==
  ASSUME NEW list, LieIn(list, 0, MinislotsPerMap), NEW sfid \in Flow, NEW minislots \in Nat,
         minislots + SumOfLengths(list) <= MinislotsPerMap
  PROVE  LET filled == Fill(list, sfid, minislots) IN
         /\ filled.left = 0
         /\ LieIn(filled.list, 0, MinislotsPerMap)
         /\ \A w \in [GrantRecord -> Nat], c \in Nat :
              WeighsGrants(w, sfid, c)
                => TotalWeight(filled.list, w) = TotalWeight(list, w) + c * minislots
<1> DEFINE n == Len(list)
           cut == Cut(list)
           rooms == RoomsOf(list)
           holes == Holes(list)
           taken == Dealt(rooms, minislots)
           own(i) == IF i > n THEN <<>> ELSE <<list[i]>>
           piece(i) == GrantIfAny(sfid, holes[i].offset, taken[i])
           seqs == [i \in 1 .. n + 1 |-> piece(i) \o own(i)]
<1>1. list \in Seq(GrantRecord) /\ n \in Nat /\ MinislotsPerMap \in Nat
  BY LenProperties, SchedulerAssumption DEF LieIn
<1>2. DOMAIN holes = 1 .. n + 1 /\ [i \in DOMAIN holes |-> holes[i].length] = rooms
  BY DEF Holes, RoomsOf
<1>3. /\ Fill(list, sfid, minislots).left = Undealt(rooms, minislots)
      /\ Fill(list, sfid, minislots).list = FlattenSeq(seqs)
  BY <1>2 DEF Fill
<1>4. /\ \A i \in 0 .. n + 1 : cut[i] \in Nat
      /\ rooms \in Seq(Nat) /\ Len(rooms) = n + 1
      /\ \A i \in 1 .. n + 1 :
           /\ holes[i].offset = cut[i - 1] /\ rooms[i] \in Nat
           /\ cut[i] = cut[i - 1] + rooms[i] + (IF i > n THEN 0 ELSE list[i].length)
           /\ i <= n => list[i].offset = cut[i - 1] + rooms[i]
  BY HoleFacts
<1>5. /\ taken \in Seq(Nat) /\ Len(taken) = n + 1
      /\ \A i \in 1 .. n + 1 : taken[i] \in Nat /\ taken[i] <= rooms[i]
      /\ SumSeq(taken) = minislots
      /\ Undealt(rooms, minislots) = 0
  <2>1. SumSeq(rooms) \in Nat /\ SumOfLengths(list) \in Nat
    BY <1>1, <1>4, SumIsNat, LengthFacts
  <2>2. SumSeq(rooms) >= minislots
    BY <1>1, <2>1, RoomsAreTheRest
  <2>3. /\ Dealt(rooms, minislots) \in Seq(Nat) /\ Len(Dealt(rooms, minislots)) = Len(rooms)
        /\ \A i \in 1 .. Len(rooms) : Dealt(rooms, minislots)[i] <= rooms[i]
        /\ SumSeq(Dealt(rooms, minislots)) + Undealt(rooms, minislots) = minislots
        /\ Undealt(rooms, minislots) = 0
    BY <1>4, <2>2, DealtFacts
  <2> HIDE DEF rooms
  <2>4. SumSeq(taken) \in Nat
    BY <2>3, SumIsNat
  <2>5. taken = Dealt(rooms, minislots)
    OBVIOUS
  <2> HIDE DEF taken
  <2>6. \A i \in 1 .. n + 1 : taken[i] \in Nat
    BY <1>4, <2>3, <2>5, ElementOfSeq
  <2>7. Len(taken) = n + 1 /\ \A i \in 1 .. n + 1 : taken[i] <= rooms[i]
    BY <1>4, <2>3, <2>5, Zenon
  <2>8. SumSeq(taken) + Undealt(rooms, minislots) = minislots
        /\ Undealt(rooms, minislots) = 0
    BY <2>3, <2>5, Zenon
  <2>9. SumSeq(taken) = minislots
    BY <2>4, <2>8
  <2> QED BY <2>3, <2>5, <2>6, <2>7, <2>8, <2>9
<1>6. \A i \in 1..n : /\ list[i] \in GrantRecord /\ list[i].length > 0
                      /\ list[i].length \in Nat /\ list[i].offset \in Nat
                      /\ End(list[i]) = list[i].offset + list[i].length
  BY <1>1, ElementOfSeq, GrantFacts DEF LieIn
<1>7. cut[0] = 0 /\ cut[n + 1] = MinislotsPerMap
  <2>1. 0 \in 0 .. n + 1 /\ n + 1 \in 0 .. n + 1 /\ n + 1 > n /\ n + 1 # 0
    BY <1>1
  <2> QED BY <2>1 DEF Cut
<1> HIDE DEF n, cut, rooms, holes, taken
\* Each stretch of the filled list lies between its cuts.
<1>8. ASSUME NEW i \in 1 .. n + 1
      PROVE  /\ seqs[i] \in Seq(GrantRecord) /\ cut[i - 1] <= cut[i]
             /\ LieIn(seqs[i], cut[i - 1], cut[i])
             /\ \A w \in [GrantRecord -> Nat], c \in Nat :
                  WeighsGrants(w, sfid, c)
                    => TotalWeight(seqs[i], w)
                         = c * taken[i] + (IF i > n THEN 0 ELSE w[list[i]])
  <2>1. i - 1 \in 0 .. n + 1 /\ i \in 0 .. n + 1
    BY <1>1
  <2> DEFINE a == cut[i - 1]
             b == a + taken[i]
             l == IF i > n THEN 0 ELSE list[i].length
  <2>2. /\ a \in Nat /\ cut[i] \in Nat /\ taken[i] \in Nat /\ rooms[i] \in Nat /\ l \in Nat
        /\ taken[i] <= rooms[i] /\ cut[i] = a + rooms[i] + l /\ holes[i].offset = a
    <3>1. a \in Nat /\ cut[i] \in Nat
      BY <1>4, <2>1
    <3>2. taken[i] \in Nat /\ taken[i] <= rooms[i]
      BY <1>5
    <3>3. rooms[i] \in Nat /\ cut[i] = a + rooms[i] + l /\ holes[i].offset = a
      BY <1>4
    <3>4. l \in Nat
      BY <1>1, <1>6
    <3> QED BY <3>1, <3>2, <3>3, <3>4
  <2>3. b \in Nat /\ a <= b /\ b <= cut[i] /\ a <= cut[i]
    <3> HIDE DEF a, l
    <3> QED BY <2>2
  <2>4. own(i) \in Seq(GrantRecord) /\ LieIn(own(i), b, cut[i])
    <3>1. CASE i > n
      BY <2>2, <2>3, <3>1, LieInEmpty, EmptySeq
    <3>2. CASE i \in 1..n
      <4>1. own(i) = <<list[i]>> /\ l = list[i].length
        BY <1>1, <3>2
      <4>2. list[i].offset = a + rooms[i] /\ End(list[i]) = list[i].offset + list[i].length
        BY <1>1, <1>4, <1>6, <3>2
      <4>3. b <= list[i].offset /\ End(list[i]) <= cut[i]
        <5>1. b = a + taken[i]
          OBVIOUS
        <5> HIDE DEF a, b, l
        <5> QED BY <2>2, <4>1, <4>2, <5>1
      <4>4. LieIn(<<list[i]>>, b, cut[i])
        <5> HIDE DEF b
        <5> QED BY <1>6, <2>2, <2>3, <3>2, <4>3, LieInOne
      <4>5. <<list[i]>> \in Seq(GrantRecord)
        BY <1>6, <3>2
      <4> HIDE DEF own, b
      <4> QED BY <4>1, <4>4, <4>5
    <3> QED BY <1>1, <3>1, <3>2
  <2>5. ASSUME NEW w \in [GrantRecord -> Nat], NEW c \in Nat, WeighsGrants(w, sfid, c)
        PROVE  /\ piece(i) \in Seq(GrantRecord) /\ LieIn(piece(i), a, b)
               /\ TotalWeight(piece(i), w) = c * taken[i]
    <3>1. piece(i) = GrantIfAny(sfid, a, taken[i])
      BY <2>2
    <3>2. a \in Nat /\ taken[i] \in Nat /\ b = a + taken[i]
      BY <2>2
    <3> HIDE DEF a, b, piece
    <3>3. /\ GrantIfAny(sfid, a, taken[i]) \in Seq(GrantRecord)
          /\ LieIn(GrantIfAny(sfid, a, taken[i]), a, a + taken[i])
      BY <3>2, GrantIfAnyLies
    <3>4. TotalWeight(GrantIfAny(sfid, a, taken[i]), w) = c * taken[i]
      BY <2>5, <3>2, GrantIfAnyWeight
    <3> QED BY <3>1, <3>2, <3>3, <3>4, Zenon
  <2>6. piece(i) \in Seq(GrantRecord) /\ LieIn(piece(i), a, b)
    <3>1. LengthsFor(sfid) \in [GrantRecord -> Nat]
      BY <1>1, LengthFacts
    <3> DEFINE w == LengthsFor(sfid)
               c == 1
    <3>2. WeighsGrants(w, sfid, c)
      BY DEF WeighsGrants, LengthsFor, Grant, GrantRecord
    <3>3. w \in [GrantRecord -> Nat] /\ c \in Nat
      BY <3>1
    <3> HIDE DEF piece, a, b, w, c
    <3> QED BY <2>5, <3>2, <3>3
  <2>7. seqs[i] = piece(i) \o own(i)
    OBVIOUS
  <2>8. ASSUME NEW w \in [GrantRecord -> Nat] PROVE
          TotalWeight(own(i), w) = IF i > n THEN 0 ELSE w[list[i]]
    <3>1. TotalWeight(<<>>, w) = 0
      BY SumEmpty DEF TotalWeight, Weights
    <3>2. i \in 1..n => TotalWeight(<<list[i]>>, w) = w[list[i]]
      BY <1>6, WeightOfOne
    <3> QED BY <1>1, <3>1, <3>2
  <2> HIDE DEF piece, own, seqs
  <2>9. seqs[i] \in Seq(GrantRecord)
    BY <2>4, <2>6, <2>7, ConcatProperties
  <2>10. LieIn(seqs[i], a, cut[i])
    <3> HIDE DEF a, b
    <3> QED BY <2>2, <2>3, <2>4, <2>6, <2>7, LieInConcat
  <2>11. ASSUME NEW w \in [GrantRecord -> Nat], NEW c \in Nat, WeighsGrants(w, sfid, c)
         PROVE  TotalWeight(seqs[i], w) = c * taken[i] + (IF i > n THEN 0 ELSE w[list[i]])
    <3>1. TotalWeight(piece(i) \o own(i), w)
            = TotalWeight(piece(i), w) + TotalWeight(own(i), w)
      BY <2>4, <2>6, WeightConcat
    <3>2. TotalWeight(piece(i), w) = c * taken[i]
      BY <2>5, <2>11
    <3> QED BY <2>7, <2>8, <3>1, <3>2
  <2> QED BY <2>3, <2>9, <2>10, <2>11
<1>9. seqs \in Seq(Seq(GrantRecord)) /\ Len(seqs) = n + 1 /\ n + 1 > 0
  <2>1. seqs = [i \in 1 .. n + 1 |-> seqs[i]]
    OBVIOUS
  <2> HIDE DEF seqs
  <2>2. seqs \in [1 .. n + 1 -> Seq(GrantRecord)]
    BY <1>8, <2>1
  <2>3. n + 1 \in Nat /\ n + 1 > 0
    BY <1>1
  <2> QED BY <2>2, <2>3, SeqDef, LenProperties
<1> HIDE DEF seqs
<1>10. LieIn(FlattenSeq(seqs), 0, MinislotsPerMap)
  <2>1. /\ \A i \in 0 .. Len(seqs) : cut[i] \in Nat
        /\ \A i \in 1 .. Len(seqs) : cut[i - 1] <= cut[i] /\ LieIn(seqs[i], cut[i - 1], cut[i])
    BY <1>4, <1>8, <1>9
  <2>2. LieIn(FlattenSeq(seqs), cut[0], cut[Len(seqs)])
    BY <1>9, <2>1, LieInFlatten
  <2> QED BY <1>7, <1>9, <2>2
<1>11. ASSUME NEW w \in [GrantRecord -> Nat], NEW c \in Nat, WeighsGrants(w, sfid, c)
       PROVE  TotalWeight(FlattenSeq(seqs), w) = TotalWeight(list, w) + c * minislots
  <2> DEFINE x == [i \in 1 .. n + 1 |-> c * taken[i]]
             lens == Weights(list, w)
             y == Append(lens, 0)
             u == WeightsOf(seqs, w)
  <2>1. n + 1 \in Nat
    BY <1>1
  <2>2. x \in Seq(Nat) /\ Len(x) = n + 1 /\ SumSeq(x) = c * minislots
    <3>1. \A i \in 1 .. n + 1 : c * taken[i] \in Nat
      BY <1>5
    <3>2. x \in [1 .. n + 1 -> Nat]
      BY <3>1
    <3>3. \A i \in 1 .. n + 1 : x[i] = taken[i] * c
      BY <1>5
    <3> HIDE DEF x
    <3>4. x \in Seq(Nat) /\ Len(x) = n + 1
      BY <2>1, <3>2, SeqDef, LenProperties
    <3>5. SumSeq(x) = SumSeq(taken) * c
      BY <1>5, <3>3, <3>4, SumScaled
    <3> QED BY <1>5, <3>4, <3>5
  <2>3. /\ lens \in Seq(Nat) /\ Len(lens) = n /\ SumSeq(lens) = TotalWeight(list, w)
        /\ \A i \in 1..n : lens[i] = w[list[i]]
    BY <1>1, WeightFacts DEF TotalWeight, n
  <2> HIDE DEF lens, x
  <2>4. /\ y \in Seq(Nat) /\ Len(y) = n + 1 /\ SumSeq(y) = TotalWeight(list, w)
        /\ \A i \in 1 .. n + 1 : y[i] = IF i > n THEN 0 ELSE w[list[i]]
    <3>1. /\ y \in Seq(Nat) /\ Len(y) = Len(lens) + 1
          /\ \A i \in 1 .. Len(lens) : y[i] = lens[i]
          /\ y[Len(lens) + 1] = 0
      BY <2>3, AppendProperties
    <3>2. SumSeq(y) = SumSeq(lens) + 0 /\ SumSeq(lens) \in Nat
      BY <2>3, SumAppend, SumIsNat
    <3> HIDE DEF y
    <3>3. \A i \in 1 .. n + 1 : y[i] = IF i > n THEN 0 ELSE w[list[i]]
      BY <1>1, <2>3, <3>1
    <3> QED BY <2>3, <3>1, <3>2, <3>3
  <2> HIDE DEF y
  <2>5. u = [i \in 1 .. n + 1 |-> u[i]] /\ \A i \in 1 .. n + 1 : u[i] = x[i] + y[i]
    <3>1. u = [i \in 1 .. n + 1 |-> TotalWeight(seqs[i], w)]
      BY <1>9, LenProperties DEF WeightsOf
    <3>2. \A i \in 1 .. n + 1 : u[i] = c * taken[i] + (IF i > n THEN 0 ELSE w[list[i]])
      BY <1>8, <1>11, <3>1
    <3> QED BY <2>4, <3>1, <3>2 DEF x
  <2>6. u \in Seq(Nat) /\ Len(u) = n + 1
    <3>1. \A i \in 1 .. n + 1 : x[i] \in Nat /\ y[i] \in Nat
      BY <2>2, <2>4, ElementOfSeq
    <3> HIDE DEF u
    <3>3. u \in [1 .. n + 1 -> Nat]
      BY <2>5, <3>1
    <3> QED BY <2>1, <3>3, SeqDef, LenProperties
  <2>8. TotalWeight(FlattenSeq(seqs), w) = SumSeq(u)
    BY <1>9, WeightFlatten
  <2> HIDE DEF u
  <2>9. SumSeq(u) = SumSeq(x) + SumSeq(y)
    <3>1. Len(y) = Len(x) /\ Len(u) = Len(x) /\ \A i \in 1 .. Len(x) : u[i] = x[i] + y[i]
      BY <2>2, <2>4, <2>5, <2>6
    <3>2. x \in Seq(Nat) /\ y \in Seq(Nat) /\ u \in Seq(Nat)
      BY <2>2, <2>4, <2>6
    <3> QED BY <3>1, <3>2, SumAdded
  <2>10. SumSeq(x) \in Nat /\ SumSeq(y) \in Nat
    BY <2>2, <2>4, SumIsNat
  <2> QED BY <2>2, <2>4, <2>8, <2>9, <2>10
<1> QED BY <1>3, <1>5, <1>10, <1>11

\* Lengthened grants reach at most to the next one, or to the end of the MAP,
\* and what is added to them is what is not left.
LEMMA ExtendFacts ==
  ASSUME NEW list, LieIn(list, 0, MinislotsPerMap), NEW extra \in Nat
  PROVE  LET extended == Extend(list, extra) IN
         /\ extended.left \in Nat
         /\ LieIn(extended.list, 0, MinislotsPerMap)
         /\ SumOfLengths(extended.list) + extended.left = SumOfLengths(list) + extra
         /\ Len(extended.list) = Len(list)
         /\ \A i \in 1 .. Len(list) : extended.list[i].sfid = list[i].sfid
<1> DEFINE n == Len(list)
           rooms == Spaces(list)
           more == Dealt(rooms, extra)
           ext == [i \in 1..n |-> [list[i] EXCEPT !.length = @ + more[i]]]
           limit(i) == IF i = n THEN MinislotsPerMap ELSE list[i + 1].offset
<1>1. list \in Seq(GrantRecord) /\ n \in Nat /\ MinislotsPerMap \in Nat /\ DOMAIN list = 1..n
  BY LenProperties, SchedulerAssumption DEF LieIn
<1>2. /\ Extend(list, extra).left = Undealt(rooms, extra)
      /\ Extend(list, extra).list = ext
  BY <1>1 DEF Extend
<1>3. \A i \in 1..n : /\ list[i] \in GrantRecord /\ list[i].length > 0
                      /\ End(list[i]) <= MinislotsPerMap
                      /\ list[i].offset \in Nat /\ list[i].length \in Nat
                      /\ End(list[i]) = list[i].offset + list[i].length
                      /\ End(list[i]) \in Nat /\ list[i].sfid \in Flow
  BY <1>1, ElementOfSeq, GrantFacts DEF LieIn
<1>4. \A i, j \in 1..n : i < j => End(list[i]) <= list[j].offset
  BY DEF LieIn
<1>5. ASSUME NEW i \in 1..n
      PROVE  /\ limit(i) \in Nat /\ End(list[i]) <= limit(i) /\ limit(i) <= MinislotsPerMap
             /\ \A j \in 1..n : i < j => limit(i) <= list[j].offset
  <2>1. CASE i = n
    BY <1>1, <1>3, <2>1
  <2>2. CASE i # n
    <3>1. i + 1 \in 1..n /\ limit(i) = list[i + 1].offset /\ i < i + 1
      BY <1>1, <2>2
    <3>2. /\ limit(i) \in Nat /\ End(list[i]) <= limit(i)
          /\ limit(i) <= End(list[i + 1]) /\ limit(i) <= MinislotsPerMap
      <4>1. End(list[i]) <= list[i + 1].offset
        BY <1>4, <3>1
      <4> DEFINE g == list[i + 1]
      <4>2. /\ g.offset \in Nat /\ g.length \in Nat /\ End(g) = g.offset + g.length
            /\ End(g) <= MinislotsPerMap
        BY <1>3, <3>1
      <4>3. End(list[i]) <= g.offset /\ limit(i) = g.offset
        BY <3>1, <4>1
      <4> HIDE DEF g, limit
      <4>4. /\ limit(i) \in Nat /\ End(list[i]) <= limit(i)
            /\ limit(i) <= End(g) /\ limit(i) <= MinislotsPerMap
        BY <1>1, <4>2, <4>3
      <4> QED BY <4>4 DEF g
    <3>3. ASSUME NEW j \in 1..n, i < j PROVE limit(i) <= list[j].offset
      <4>1. CASE j = i + 1
        BY <1>3, <3>1, <4>1
      <4>2. CASE i + 1 < j
        <5>1. End(list[i + 1]) <= list[j].offset
          BY <1>4, <3>1, <4>2
        <5>2. End(list[i + 1]) \in Nat /\ list[j].offset \in Nat
          BY <1>3, <3>1
        <5> HIDE DEF limit
        <5> QED BY <3>2, <5>1, <5>2
      <4>3. j = i + 1 \/ i + 1 < j
        BY <1>1, <3>3
      <4> HIDE DEF limit
      <4> QED BY <4>1, <4>2, <4>3
    <3> QED BY <3>2, <3>3
  <2> QED BY <2>1, <2>2
<1>6. ASSUME NEW i \in 1..n PROVE rooms[i] = limit(i) - End(list[i]) /\ rooms[i] \in Nat
  <2>1. rooms[i] = limit(i) - End(list[i])
    BY <1>1 DEF Spaces, SpaceAfter
  <2>2. End(list[i]) \in Nat
    BY <1>3
  <2> HIDE DEF rooms, limit
  <2> QED BY <1>5, <2>1, <2>2
<1>7. rooms \in Seq(Nat) /\ Len(rooms) = n
  <2>1. rooms = [i \in 1..n |-> rooms[i]]
    BY <1>1 DEF Spaces
  <2> HIDE DEF rooms
  <2>2. rooms \in [1..n -> Nat]
    BY <1>6, <2>1
  <2> QED BY <1>1, <2>2, SeqDef, LenProperties
<1>8. /\ more \in Seq(Nat) /\ Len(more) = n
      /\ \A i \in 1..n : more[i] \in Nat /\ more[i] <= rooms[i]
      /\ Undealt(rooms, extra) \in Nat
      /\ SumSeq(more) + Undealt(rooms, extra) = extra
  <2> HIDE DEF rooms
  <2>1. /\ more \in Seq(Nat) /\ Len(more) = Len(rooms)
        /\ \A i \in 1 .. Len(rooms) : more[i] <= rooms[i]
        /\ Undealt(rooms, extra) \in Nat
        /\ SumSeq(more) + Undealt(rooms, extra) = extra
    BY <1>7, DealtFacts
  <2> HIDE DEF more
  <2>2. \A i \in 1..n : more[i] \in Nat
    BY <1>7, <2>1, ElementOfSeq
  <2> QED BY <1>7, <2>1, <2>2
<1> HIDE DEF n, rooms, more
<1>9. ASSUME NEW i \in 1..n
      PROVE  /\ ext[i] \in GrantRecord /\ ext[i].offset = list[i].offset
             /\ ext[i].length = list[i].length + more[i] /\ ext[i].sfid = list[i].sfid
             /\ End(ext[i]) = End(list[i]) + more[i] /\ End(ext[i]) <= limit(i)
             /\ ext[i].length > 0
  <2>1. list[i] = [sfid |-> list[i].sfid, offset |-> list[i].offset, length |-> list[i].length]
    BY <1>3 DEF GrantRecord
  <2>2. /\ list[i].length \in Nat /\ more[i] \in Nat /\ list[i].length > 0
        /\ list[i].offset \in Nat /\ list[i].sfid \in Flow
        /\ End(list[i]) = list[i].offset + list[i].length
    BY <1>3, <1>8
  <2>3. /\ ext[i].offset = list[i].offset /\ ext[i].sfid = list[i].sfid
        /\ ext[i].length = list[i].length + more[i]
        /\ ext[i] = [sfid |-> list[i].sfid, offset |-> list[i].offset,
                     length |-> list[i].length + more[i]]
    BY <2>1
  <2>4. ext[i] \in GrantRecord
    BY <2>2, <2>3 DEF GrantRecord
  <2>5. End(ext[i]) = End(list[i]) + more[i]
    BY <2>2, <2>3 DEF End
  <2>6. more[i] <= limit(i) - End(list[i]) /\ End(list[i]) \in Nat /\ limit(i) \in Nat
    BY <1>3, <1>5, <1>6, <1>8
  <2> HIDE DEF ext, limit
  <2> QED BY <2>2, <2>3, <2>4, <2>5, <2>6
<1>10. ext \in Seq(GrantRecord) /\ Len(ext) = n
  <2>1. ext = [i \in 1..n |-> ext[i]]
    OBVIOUS
  <2> HIDE DEF ext
  <2>2. ext \in [1..n -> GrantRecord]
    BY <1>9, <2>1
  <2> QED BY <1>1, <2>2, SeqDef, LenProperties
<1> HIDE DEF ext
<1>11. ASSUME NEW i \in 1..n
       PROVE  /\ ext[i].length > 0 /\ 0 <= ext[i].offset /\ End(ext[i]) <= MinislotsPerMap
              /\ \A j \in 1..n : i < j => End(ext[i]) <= ext[j].offset
  <2>1. End(ext[i]) \in Nat /\ ext[i].offset \in Nat
    BY <1>9, GrantFacts
  <2>2. End(ext[i]) <= limit(i) /\ limit(i) \in Nat /\ limit(i) <= MinislotsPerMap
    BY <1>5, <1>9
  <2>3. \A j \in 1..n : i < j => limit(i) <= ext[j].offset /\ ext[j].offset \in Nat
    BY <1>3, <1>5, <1>9
  <2> HIDE DEF limit
  <2> QED BY <1>1, <1>9, <2>1, <2>2, <2>3
<1>12. LieIn(ext, 0, MinislotsPerMap)
  BY <1>10, <1>11 DEF LieIn
<1>13. SumOfLengths(ext) = SumOfLengths(list) + SumSeq(more)
  <2> DEFINE s == Weights(list, Lengths)
             u == Weights(ext, Lengths)
  <2>1. Lengths \in [GrantRecord -> Nat]
    BY <1>1, LengthFacts
  <2>2. /\ s \in Seq(Nat) /\ Len(s) = n /\ \A i \in 1..n : s[i] = Lengths[list[i]]
        /\ SumSeq(s) = SumOfLengths(list)
    BY <1>1, <2>1, WeightFacts, LengthFacts DEF TotalWeight, n
  <2>3. /\ u \in Seq(Nat) /\ Len(u) = n /\ \A i \in 1..n : u[i] = Lengths[ext[i]]
        /\ SumSeq(u) = SumOfLengths(ext)
    BY <1>10, <2>1, WeightFacts, LengthFacts DEF TotalWeight
  <2>4. \A i \in 1..n : Lengths[list[i]] = list[i].length /\ Lengths[ext[i]] = ext[i].length
    BY <1>3, <1>9, GrantFacts
  <2> HIDE DEF s, u
  <2>5. ASSUME NEW i \in 1..n PROVE u[i] = s[i] + more[i]
    <3>1. u[i] = ext[i].length /\ s[i] = list[i].length
      BY <2>2, <2>3, <2>4, Zenon
    <3> QED BY <1>9, <3>1, Zenon
  <2>6. Len(more) = Len(s) /\ Len(u) = Len(s) /\ \A i \in 1 .. Len(s) : u[i] = s[i] + more[i]
    BY <1>8, <2>2, <2>3, <2>5
  <2>7. SumSeq(u) = SumSeq(s) + SumSeq(more)
    BY <1>8, <2>2, <2>3, <2>6, SumAdded
  <2> QED BY <2>2, <2>3, <2>7
<1>14. SumSeq(more) \in Nat /\ SumOfLengths(list) \in Nat
  BY <1>1, <1>8, SumIsNat, LengthFacts
<1> QED BY <1>2, <1>8, <1>9, <1>10, <1>12, <1>13, <1>14 DEF n

\* Grants of the low latency flow alone.
LEMMA LowLatencyOnly ==
  ASSUME NEW list \in Seq(GrantRecord), \A i \in 1 .. Len(list) : list[i].sfid = LowLatency
  PROVE  GrantedTo(list, LowLatency) = SumOfLengths(list) /\ GrantedTo(list, Classic) = 0
<1>1. LowLatency \in Flow /\ Classic \in Flow /\ LowLatency # Classic
  BY DEF Flow, LowLatency, Classic
<1>2. \A i \in 1 .. Len(list) :
        /\ LengthsFor(Classic)[list[i]] = 0
        /\ LengthsFor(LowLatency)[list[i]] = Lengths[list[i]]
  BY <1>1, ElementOfSeq DEF LengthsFor, Lengths
<1>3. TotalWeight(list, LengthsFor(Classic)) = 0
  BY <1>1, <1>2, LengthFacts, WeightZero
<1>4. Weights(list, LengthsFor(LowLatency)) = Weights(list, Lengths)
  BY <1>2, LenProperties DEF Weights
<1> QED BY <1>1, <1>3, <1>4, LengthFacts DEF TotalWeight

\* What filling the holes adds to each count of minislots.
LEMMA FillCounts ==
  ASSUME NEW list, LieIn(list, 0, MinislotsPerMap), NEW sfid \in Flow, NEW minislots \in Nat,
         minislots + SumOfLengths(list) <= MinislotsPerMap
  PROVE  LET filled == Fill(list, sfid, minislots) IN
         /\ filled.left = 0
         /\ LieIn(filled.list, 0, MinislotsPerMap)
         /\ SumOfLengths(filled.list) = SumOfLengths(list) + minislots
         /\ GrantedTo(filled.list, sfid) = GrantedTo(list, sfid) + minislots
         /\ \A f \in Flow \ {sfid} : GrantedTo(filled.list, f) = GrantedTo(list, f)
<1> DEFINE filled == Fill(list, sfid, minislots)
<1>1. /\ filled.left = 0
      /\ LieIn(filled.list, 0, MinislotsPerMap)
      /\ \A w \in [GrantRecord -> Nat], c \in Nat :
           WeighsGrants(w, sfid, c)
             => TotalWeight(filled.list, w) = TotalWeight(list, w) + c * minislots
  BY FillFacts
<1> HIDE DEF filled
<1>2. list \in Seq(GrantRecord) /\ filled.list \in Seq(GrantRecord)
  BY <1>1 DEF LieIn
<1>3. /\ Lengths \in [GrantRecord -> Nat]
      /\ \A f \in Flow : LengthsFor(f) \in [GrantRecord -> Nat]
  BY <1>2, LengthFacts
<1>4. \A offset, length \in Nat :
        /\ Grant(sfid, offset, length) \in GrantRecord
        /\ Grant(sfid, offset, length).length = length
        /\ Grant(sfid, offset, length).sfid = sfid
  BY DEF Grant, GrantRecord
<1>5. WeighsGrants(Lengths, sfid, 1) /\ WeighsGrants(LengthsFor(sfid), sfid, 1)
  BY <1>4 DEF WeighsGrants, Lengths, LengthsFor
<1>6. \A f \in Flow \ {sfid} : WeighsGrants(LengthsFor(f), sfid, 0)
  BY <1>4 DEF WeighsGrants, LengthsFor
<1>7. 1 * minislots = minislots /\ 0 * minislots = 0
  OBVIOUS
<1>8. SumOfLengths(filled.list) = SumOfLengths(list) + minislots
  <2>1. TotalWeight(filled.list, Lengths) = TotalWeight(list, Lengths) + 1 * minislots
    BY <1>1, <1>3, <1>5
  <2> QED BY <1>2, <1>7, <2>1, LengthFacts
<1>9. GrantedTo(filled.list, sfid) = GrantedTo(list, sfid) + minislots
  <2>1. TotalWeight(filled.list, LengthsFor(sfid))
          = TotalWeight(list, LengthsFor(sfid)) + 1 * minislots
    BY <1>1, <1>3, <1>5
  <2> QED BY <1>2, <1>7, <2>1, LengthFacts
<1>10. ASSUME NEW f \in Flow \ {sfid} PROVE GrantedTo(filled.list, f) = GrantedTo(list, f)
  <2>1. TotalWeight(filled.list, LengthsFor(f)) = TotalWeight(list, LengthsFor(f)) + 0 * minislots
    BY <1>1, <1>3, <1>6
  <2>2. TotalWeight(list, LengthsFor(f)) \in Nat
    BY <1>2, <1>3, WeightFacts
  <2> QED BY <1>2, <1>7, <2>1, <2>2, LengthFacts
<1> QED BY <1>1, <1>8, <1>9, <1>10 DEF filled

\* A layout that grants c and l minislots, all of them inside the MAP.
Placed(layout, c, l) ==
  /\ layout.left = 0
  /\ LieIn(layout.list, 0, MinislotsPerMap)
  /\ GrantedTo(layout.list, Classic) = c
  /\ GrantedTo(layout.list, LowLatency) = l

\* Around PGS grants, each flow is placed completely if both fit into the MAP.
LEMMA PlaceAroundPgsFacts ==
  ASSUME NEW pgs, LieIn(pgs, 0, MinislotsPerMap),
         \A i \in 1 .. Len(pgs) : pgs[i].sfid = LowLatency,
         NEW c \in Nat, NEW l \in Nat, c + Larger(l, SumOfLengths(pgs)) <= MinislotsPerMap
  PROVE  Placed(PlaceAroundPgs(pgs, c, l), c, Larger(l, SumOfLengths(pgs)))
<1> DEFINE made     == SumOfLengths(pgs)
           all      == Larger(l, made)
           extra    == Max({l - made, 0})
           extended == Extend(pgs, extra)
           low      == Fill(extended.list, LowLatency, extended.left)
           classic  == Fill(low.list, Classic, c)
<1>1. pgs \in Seq(GrantRecord) /\ made \in Nat /\ MinislotsPerMap \in Nat
  BY LengthFacts, SchedulerAssumption DEF LieIn
<1>2. /\ PlaceAroundPgs(pgs, c, l).left = low.left + classic.left
      /\ PlaceAroundPgs(pgs, c, l).list = classic.list
  BY DEF PlaceAroundPgs
<1>3. LowLatency \in Flow /\ Classic \in Flow /\ LowLatency # Classic
  BY DEF Flow, LowLatency, Classic
<1>4. extra \in Nat /\ made + extra = all /\ all \in Nat /\ c + all <= MinislotsPerMap
  <2> DEFINE more == l - made
  <2>1. more \in Int /\ made \in Nat
    BY <1>1
  <2>2. extra \in {more, 0} /\ extra >= more /\ extra >= 0
    <3> HIDE DEF more
    <3>1. 0 \in Int
      OBVIOUS
    <3>2. Max({more, 0}) \in {more, 0} /\ Max({more, 0}) >= more /\ Max({more, 0}) >= 0
      BY <2>1, <3>1, MaxOfTwo, Zenon
    <3> QED BY <3>2 DEF more
  <2>3. all = (IF l >= made THEN l ELSE made) /\ c + all <= MinislotsPerMap
    BY DEF Larger
  <2> HIDE DEF made, extra, all
  <2> QED BY <1>1, <2>1, <2>2, <2>3
<1> HIDE DEF extra
<1>5. /\ extended.left \in Nat
      /\ LieIn(extended.list, 0, MinislotsPerMap)
      /\ SumOfLengths(extended.list) + extended.left = made + extra
      /\ Len(extended.list) = Len(pgs)
      /\ \A i \in 1 .. Len(pgs) : extended.list[i].sfid = pgs[i].sfid
  BY <1>4, ExtendFacts
<1> HIDE DEF made, all, extended
<1>6. /\ extended.list \in Seq(GrantRecord)
      /\ \A i \in 1 .. Len(extended.list) : extended.list[i].sfid = LowLatency
  BY <1>5 DEF LieIn
<1>7. /\ GrantedTo(extended.list, LowLatency) = SumOfLengths(extended.list)
      /\ GrantedTo(extended.list, Classic) = 0
      /\ SumOfLengths(extended.list) \in Nat
  BY <1>6, LowLatencyOnly, LengthFacts
<1>8. SumOfLengths(extended.list) + extended.left = all /\ all <= MinislotsPerMap
  BY <1>1, <1>4, <1>5
<1>9. /\ low.left = 0 /\ LieIn(low.list, 0, MinislotsPerMap)
      /\ SumOfLengths(low.list) = SumOfLengths(extended.list) + extended.left
      /\ GrantedTo(low.list, LowLatency)
           = GrantedTo(extended.list, LowLatency) + extended.left
      /\ GrantedTo(low.list, Classic) = GrantedTo(extended.list, Classic)
  <2>1. extended.left + SumOfLengths(extended.list) <= MinislotsPerMap
    BY <1>1, <1>4, <1>5, <1>7, <1>8
  <2> QED BY <1>3, <1>5, <2>1, FillCounts
<1> HIDE DEF low
<1>10. SumOfLengths(low.list) = all /\ GrantedTo(low.list, LowLatency) = all
       /\ GrantedTo(low.list, Classic) = 0
  BY <1>7, <1>8, <1>9
<1>11. /\ classic.left = 0 /\ LieIn(classic.list, 0, MinislotsPerMap)
       /\ GrantedTo(classic.list, Classic) = GrantedTo(low.list, Classic) + c
       /\ GrantedTo(classic.list, LowLatency) = GrantedTo(low.list, LowLatency)
  BY <1>3, <1>4, <1>9, <1>10, FillCounts
<1> HIDE DEF classic
<1> QED BY <1>2, <1>9, <1>10, <1>11 DEF Placed, all, made

\* From a start in range, back to back.
LEMMA PlaceFromFacts ==
  ASSUME NEW c \in Nat, NEW l \in Nat, c + l <= MinislotsPerMap, NEW start \in Starts(c, l)
  PROVE  Placed(PlaceFrom(start, c, l), c, l)
<1> DEFINE low     == GrantIfAny(LowLatency, start, l)
           classic == GrantIfAny(Classic, start + l, c)
           middle  == start + l
           end     == start + l + c
<1>1. LowLatency \in Flow /\ Classic \in Flow /\ LowLatency # Classic
  BY DEF Flow, LowLatency, Classic
<1>2. /\ MinislotsPerMap \in Nat /\ start \in Nat /\ middle \in Nat /\ end \in Nat
      /\ end <= MinislotsPerMap /\ 0 <= start /\ start <= middle /\ middle <= end
      /\ end = middle + c
  BY SchedulerAssumption DEF Starts
<1>3. low \in Seq(GrantRecord) /\ LieIn(low, start, middle)
  BY <1>1, <1>2, GrantIfAnyLies
<1>4. classic \in Seq(GrantRecord) /\ LieIn(classic, middle, end)
  <2>1. /\ GrantIfAny(Classic, middle, c) \in Seq(GrantRecord)
        /\ LieIn(GrantIfAny(Classic, middle, c), middle, middle + c)
    <3> HIDE DEF middle
    <3> QED BY <1>1, <1>2, GrantIfAnyLies
  <2> QED BY <1>2, <2>1
<1>5. \A offset, length \in Nat, f \in Flow :
        /\ Grant(f, offset, length) \in GrantRecord
        /\ Grant(f, offset, length).length = length
        /\ Grant(f, offset, length).sfid = f
  BY DEF Grant, GrantRecord
<1>6. /\ WeighsGrants(LengthsFor(Classic), Classic, 1)
      /\ WeighsGrants(LengthsFor(Classic), LowLatency, 0)
      /\ WeighsGrants(LengthsFor(LowLatency), Classic, 0)
      /\ WeighsGrants(LengthsFor(LowLatency), LowLatency, 1)
  BY <1>1, <1>5 DEF WeighsGrants, LengthsFor
<1>7. ASSUME NEW w \in [GrantRecord -> Nat], NEW a \in Nat, NEW b \in Nat,
             WeighsGrants(w, LowLatency, a), WeighsGrants(w, Classic, b)
      PROVE  TotalWeight(low \o classic, w) = a * l + b * c
  <2>1. TotalWeight(low, w) = a * l
    BY <1>1, <1>2, <1>7, GrantIfAnyWeight
  <2>2. TotalWeight(GrantIfAny(Classic, middle, c), w) = b * c
    <3> HIDE DEF middle
    <3> QED BY <1>1, <1>2, <1>7, GrantIfAnyWeight
  <2> HIDE DEF low
  <2>3. TotalWeight(classic, w) = b * c
    BY <2>2
  <2> HIDE DEF classic
  <2> QED BY <1>3, <1>4, <2>1, <2>3, WeightConcat
<1>8. PlaceFrom(start, c, l) = [left |-> 0, list |-> low \o classic]
  BY DEF PlaceFrom
<1> HIDE DEF low, classic, middle, end
<1>9. LieIn(low \o classic, start, end)
  BY <1>2, <1>3, <1>4, LieInConcat
<1>10. LieIn(low \o classic, 0, MinislotsPerMap)
  <2> DEFINE s == low \o classic
  <2>1. \A i \in 1 .. Len(s) : s[i].offset \in Nat /\ End(s[i]) \in Nat
    BY <1>9, ElementOfSeq, GrantFacts DEF LieIn
  <2> HIDE DEF s
  <2>2. LieIn(s, start, end)
    BY <1>9 DEF s
  <2>3. LieIn(s, 0, MinislotsPerMap)
    BY <1>2, <2>1, <2>2 DEF LieIn
  <2> QED BY <2>3 DEF s
<1>11. low \o classic \in Seq(GrantRecord)
  BY <1>9 DEF LieIn
<1>12. /\ LengthsFor(Classic) \in [GrantRecord -> Nat]
       /\ LengthsFor(LowLatency) \in [GrantRecord -> Nat]
  BY <1>1, <1>11, LengthFacts
<1>13. /\ TotalWeight(low \o classic, LengthsFor(Classic)) = 0 * l + 1 * c
       /\ TotalWeight(low \o classic, LengthsFor(LowLatency)) = 1 * l + 0 * c
  BY <1>6, <1>7, <1>12
<1>14. GrantedTo(low \o classic, Classic) = c /\ GrantedTo(low \o classic, LowLatency) = l
  <2>1. 0 * l + 1 * c = c /\ 1 * l + 0 * c = l
    OBVIOUS
  <2> QED BY <1>1, <1>11, <1>13, <2>1, LengthFacts
<1> QED BY <1>8, <1>10, <1>14 DEF Placed

-----------------------------------------------------------------------------
(* The guaranteed grants of a MAP.                                         *)

\* Every `frame' minislots a PGS grant may start, at the same place in each
\* frame: MAPs and intervals between grants are whole frames, and a grant does
\* not reach beyond its frame.
PgsFitsFrames(frame) ==
  /\ frame \in Nat \ {0}
  /\ PgsGap % frame = 0
  /\ MinislotsPerMap % frame = 0
  /\ (FirstPgs % frame) + PgsMinislots <= frame

\* The PGS clock: the last grant is in step with the first, before the end of
\* the MAP to be made, and the next one is not before its start.
PgsInStep(frame) ==
  PgsMinislots > 0 =>
    /\ lastPgs < MinislotsPerMap /\ lastPgs + PgsGap >= 0
    /\ \E k \in Int : lastPgs = FirstPgs + frame * k

\* What the frames are multiples of.
LEMMA FrameFacts ==
  ASSUME NEW frame, PgsFitsFrames(frame)
  PROVE  /\ frame \in Nat /\ frame > 0
         /\ \E a \in Nat : PgsGap = frame * a /\ a > 0
         /\ \E b \in Nat : MinislotsPerMap = frame * b
         /\ \E q, r \in Nat : FirstPgs = frame * q + r /\ r + PgsMinislots <= frame
<1>1. /\ frame \in Nat /\ frame > 0 /\ PgsGap \in Nat /\ PgsGap > 0 /\ MinislotsPerMap \in Nat
      /\ FirstPgs \in Nat /\ PgsMinislots \in Nat
  BY SchedulerAssumption DEF PgsFitsFrames
<1>2. ASSUME NEW x \in Nat
      PROVE  x \div frame \in Nat /\ x % frame \in Nat
             /\ x = frame * (x \div frame) + (x % frame)
  <2>1. x \div frame \in Nat
    BY <1>1, Z3
  <2>2. x % frame \in Nat
    BY <1>1, Z3
  <2>3. x % frame = x - frame * (x \div frame)
    BY <1>1, SMT
  <2> DEFINE q == x \div frame
             r == x % frame
  <2>4. q \in Nat /\ r \in Nat /\ r = x - frame * q
    BY <2>1, <2>2, <2>3
  <2> HIDE DEF q, r
  <2>5. x = frame * q + r
    BY <1>1, <2>4
  <2> QED BY <2>1, <2>2, <2>5, Zenon DEF q, r
<1>3. \E a \in Nat : PgsGap = frame * a /\ a > 0
  <2> DEFINE a == PgsGap \div frame
  <2>1. a \in Nat /\ PgsGap = frame * a + 0
    BY <1>1, <1>2 DEF PgsFitsFrames
  <2> HIDE DEF a
  <2>2. PgsGap = frame * a /\ a > 0
    BY <1>1, <2>1
  <2> QED BY <2>1, <2>2
<1>4. \E b \in Nat : MinislotsPerMap = frame * b
  <2> DEFINE b == MinislotsPerMap \div frame
  <2>1. b \in Nat /\ MinislotsPerMap = frame * b + 0
    BY <1>1, <1>2 DEF PgsFitsFrames
  <2> HIDE DEF b
  <2>2. MinislotsPerMap = frame * b
    BY <1>1, <2>1
  <2> QED BY <2>1, <2>2
<1>5. \E q, r \in Nat : FirstPgs = frame * q + r /\ r + PgsMinislots <= frame
  <2> DEFINE q == FirstPgs \div frame
             r == FirstPgs % frame
  <2>1. q \in Nat /\ r \in Nat /\ FirstPgs = frame * q + r
    BY <1>1, <1>2
  <2>2. r + PgsMinislots <= frame
    BY DEF PgsFitsFrames
  <2> HIDE DEF q, r
  <2> QED BY <2>1, <2>2
<1> QED BY <1>1, <1>3, <1>4, <1>5

\* The clock stays in step.
LEMMA PgsStaysInStep ==
  ASSUME NEW frame, PgsFitsFrames(frame), 0 \notin FreeMinislots,
         TypeOK, PgsInStep(frame), [Next]_vars
  PROVE  PgsInStep(frame)'
<1> SUFFICES ASSUME PgsMinislots > 0
             PROVE  /\ lastPgs' < MinislotsPerMap /\ lastPgs' + PgsGap >= 0
                    /\ \E k \in Int : lastPgs' = FirstPgs + frame * k
  BY DEF PgsInStep
<1>1. PICK k \in Int : lastPgs = FirstPgs + frame * k
  BY DEF PgsInStep
<1>2. lastPgs < MinislotsPerMap /\ lastPgs + PgsGap >= 0 /\ lastPgs \in Int
  BY DEF PgsInStep, TypeOK
<1>3. CASE UNCHANGED lastPgs
  BY <1>1, <1>2, <1>3
<1>4. ASSUME NEW free \in FreeMinislots, GenerateMap(free)
      PROVE  /\ lastPgs' < MinislotsPerMap /\ lastPgs' + PgsGap >= 0
             /\ \E j \in Int : lastPgs' = FirstPgs + frame * j
  <2>1. lastPgs' = lastPgs + PgsCount(free) * PgsGap - MinislotsPerMap
    BY <1>4, SchedulerAssumption DEF GenerateMap, ScheduleMap, AdvancePgs
  <2>2. PICK a \in Nat : PgsGap = frame * a
    BY FrameFacts
  <2>3. PICK b \in Nat : MinislotsPerMap = frame * b
    BY FrameFacts
  <2> DEFINE count == PgsCount(free)
             made  == count * PgsGap
             last  == lastPgs + made
  <2>4. count \in Nat /\ PgsGap \in Nat /\ made \in Nat /\ MinislotsPerMap \in Nat
        /\ frame \in Nat /\ PgsGap > 0
    BY PgsGrantedIsNat, SchedulerAssumption, FrameFacts
  <2>5. last \in Int /\ last < MinislotsPerMap /\ last + PgsGap >= MinislotsPerMap
    BY <1>2, LastPgsOfMap
  <2>6. lastPgs' = last - MinislotsPerMap
    <3> HIDE DEF made
    <3> QED BY <1>2, <2>1, <2>4 DEF made
  <2>7. lastPgs' = FirstPgs + frame * (k + count * a - b)
    <3> HIDE DEF count
    <3>1. made = frame * (count * a)
      BY <2>2, <2>4
    <3>2. FirstPgs \in Nat
      BY SchedulerAssumption
    <3> DEFINE e == count * a
    <3>3. e \in Nat
      BY <2>4
    <3> HIDE DEF e, made
    <3>4. lastPgs' = FirstPgs + frame * k + frame * e - frame * b
      BY <1>1, <2>3, <2>4, <2>6, <3>1, <3>2, <3>3 DEF e
    <3>5. frame * k + frame * e - frame * b = frame * (k + e - b)
      BY <2>4, <3>3
    <3>6. frame * k \in Int /\ frame * e \in Int /\ frame * b \in Int
      BY <2>4, <3>3
    <3>7. lastPgs' = FirstPgs + frame * (k + e - b)
      BY <3>2, <3>4, <3>5, <3>6
    <3> QED BY <3>7 DEF e
  <2>8. k + count * a - b \in Int
    BY <2>4
  <2> HIDE DEF last, count
  <2>9. lastPgs' < MinislotsPerMap /\ lastPgs' + PgsGap >= 0
    BY <2>4, <2>5, <2>6
  <2> QED BY <2>7, <2>8, <2>9
<1> QED BY <1>3, <1>4 DEF Next, ReceiveRequest, ReceiveUnused, vars

\* The PGS grants are low latency grants, and their minislots are counted.
LEMMA PgsGrantsFacts ==
  ASSUME NEW frame, TypeOK, PgsInStep(frame), NEW free \in FreeMinislots
  PROVE  /\ PgsGrants(free) \in Seq(GrantRecord)
         /\ Len(PgsGrants(free)) = PgsCount(free)
         /\ \A i \in 1 .. PgsCount(free) :
              PgsGrants(free)[i] = Grant(LowLatency, lastPgs + i * PgsGap, PgsLength(free))
         /\ SumOfLengths(PgsGrants(free)) = PgsGranted(free)
<1> DEFINE n == PgsCount(free)
           len == PgsLength(free)
           offset(i) == lastPgs + i * PgsGap
           list == PgsGrants(free)
<1>1. n \in Nat /\ len \in Nat /\ lastPgs \in Int /\ PgsGap \in Nat /\ PgsMinislots \in Nat
      /\ (PgsMinislots = 0 => n = 0)
  BY PgsGrantedIsNat, SchedulerAssumption DEF TypeOK
<1>2. list = [i \in 1..n |-> Grant(LowLatency, offset(i), len)]
  BY DEF PgsGrants
<1>3. PgsMinislots > 0 => lastPgs + PgsGap >= 0
  BY DEF PgsInStep
<1> HIDE DEF n, len, list
<1>4. ASSUME NEW i \in 1..n PROVE offset(i) \in Nat
  <2>1. lastPgs + PgsGap >= 0 /\ i \in Nat /\ i >= 1
    BY <1>1, <1>3
  <2>2. i * PgsGap \in Nat /\ i * PgsGap >= PgsGap
    BY <1>1, <2>1
  <2> DEFINE w == i * PgsGap
  <2>3. w \in Nat /\ w >= PgsGap
    BY <2>2
  <2> HIDE DEF w
  <2>4. lastPgs + w \in Nat
    BY <1>1, <2>1, <2>3
  <2> QED BY <2>4 DEF w
<1> HIDE DEF offset
<1>5. ASSUME NEW i \in 1..n
      PROVE  list[i] \in GrantRecord /\ list[i].length = len
  BY <1>1, <1>2, <1>4 DEF Grant, GrantRecord, Flow
<1>6. list \in Seq(GrantRecord) /\ Len(list) = n
  <2>1. list \in [1..n -> GrantRecord]
    BY <1>2, <1>5
  <2> QED BY <1>1, <2>1, SeqDef, LenProperties
<1>7. SumOfLengths(list) = n * len
  <2> DEFINE u == Weights(list, Lengths)
             cut == [i \in 0..n |-> i * len]
  <2>1. /\ u \in Seq(Nat) /\ Len(u) = n /\ SumSeq(u) = SumOfLengths(list)
        /\ \A i \in 1..n : u[i] = Lengths[list[i]]
    BY <1>6, WeightFacts, LengthFacts DEF TotalWeight
  <2>2. \A i \in 1..n : u[i] = len
    BY <1>5, <2>1, GrantFacts
  <2>3. \A i \in 0..n : cut[i] = i * len /\ cut[i] \in Nat
    BY <1>1
  <2>4. 0 \in 0..n /\ n \in 0..n /\ 0 * len = 0
    BY <1>1
  <2> HIDE DEF u, cut
  <2>5. ASSUME NEW i \in 1..n PROVE cut[i] = cut[i - 1] + u[i]
    <3>1. i - 1 \in 0..n /\ i \in 0..n /\ i \in Nat
      BY <1>1
    <3>2. cut[i] = i * len /\ cut[i - 1] = (i - 1) * len /\ u[i] = len
      BY <2>2, <2>3, <3>1
    <3>3. i * len = (i - 1) * len + len
      BY <1>1, <3>1
    <3> QED BY <3>2, <3>3
  <2>6. SumSeq(u) = cut[n]
    BY <2>1, <2>3, <2>4, <2>5, SumBetween
  <2> QED BY <2>1, <2>3, <2>4, <2>6
<1> QED BY <1>2, <1>6, <1>7 DEF n, len, list, offset, PgsGranted

\* Guaranteed grants that fit their frames lie in the MAP and do not overlap.
LEMMA PgsGrantsLie ==
  ASSUME NEW frame, PgsFitsFrames(frame), TypeOK, PgsInStep(frame),
         NEW free \in FreeMinislots, PgsLength(free) > 0
  PROVE  LieIn(PgsGrants(free), 0, MinislotsPerMap)
<1> DEFINE n == PgsCount(free)
           len == PgsLength(free)
           list == PgsGrants(free)
<1>1. /\ list \in Seq(GrantRecord) /\ Len(list) = n
      /\ \A i \in 1..n : list[i] = Grant(LowLatency, lastPgs + i * PgsGap, len)
  BY PgsGrantsFacts
<1>2. n \in Nat /\ len \in Nat /\ lastPgs \in Int /\ PgsGap \in Nat /\ MinislotsPerMap \in Nat
      /\ PgsGap > 0 /\ PgsMinislots \in Nat
  BY PgsGrantedIsNat, SchedulerAssumption DEF TypeOK
<1>3. len = PgsMinislots /\ len > 0 /\ free # 0
  BY SchedulerAssumption DEF PgsLength
<1>4. PICK k \in Int : lastPgs = FirstPgs + frame * k
  BY <1>3 DEF PgsInStep
<1>5. lastPgs < MinislotsPerMap
  BY <1>3 DEF PgsInStep
<1>6. frame \in Nat /\ frame > 0
  BY FrameFacts
<1>7. PICK a \in Nat : PgsGap = frame * a /\ a > 0
  BY FrameFacts
<1>8. PICK b \in Nat : MinislotsPerMap = frame * b
  BY FrameFacts
<1>9. PICK q, r \in Nat : FirstPgs = frame * q + r /\ r + PgsMinislots <= frame
  BY FrameFacts
<1> HIDE DEF n, len, list
<1>10. len <= PgsGap
  <2>1. frame * a >= frame
    BY <1>6, <1>7
  <2>2. len <= frame
    BY <1>2, <1>3, <1>6, <1>9
  <2> QED BY <1>2, <1>6, <1>7, <2>1, <2>2
<1>11. ASSUME NEW i \in 1..n
       PROVE  /\ lastPgs + i * PgsGap + len <= MinislotsPerMap
              /\ lastPgs + i * PgsGap \in Int
  <2> DEFINE o == lastPgs + i * PgsGap
             m == q + k + i * a
  <2>1. i \in Nat /\ i <= n
    BY <1>2
  <2>2. lastPgs + n * PgsGap < MinislotsPerMap
    BY <1>2, <1>3, <1>5, LastPgsOfMap DEF n
  <2>3. o \in Int /\ o < MinislotsPerMap
    <3> DEFINE w == i * PgsGap
               all == n * PgsGap
    <3>1. w \in Nat /\ all \in Nat /\ w <= all
      BY <1>2, <2>1
    <3>2. lastPgs + all < MinislotsPerMap
      BY <2>2
    <3> HIDE DEF w, all
    <3>3. lastPgs + w \in Int /\ lastPgs + w < MinislotsPerMap
      BY <1>2, <3>1, <3>2
    <3> QED BY <3>3 DEF w
  <2>4. m \in Int
    BY <1>7, <2>1
  <2>5. o = frame * m + r
    <3> DEFINE e == i * a
    <3>1. e \in Nat
      BY <1>7, <2>1
    <3>2. i * PgsGap = frame * e
      BY <1>6, <1>7, <2>1
    <3> HIDE DEF e
    <3>3. frame * q + frame * k + frame * e = frame * (q + k + e)
      BY <1>6, <3>1
    <3>4. frame * q \in Int /\ frame * k \in Int /\ frame * e \in Int
      BY <1>6, <3>1
    <3>5. lastPgs + frame * e = frame * (q + k + e) + r
      BY <1>4, <1>9, <3>3, <3>4
    <3>6. m = q + k + e
      BY DEF e
    <3> QED BY <3>2, <3>5, <3>6
  <2> HIDE DEF o, m
  <2>6. frame * m < frame * b
    <3> DEFINE x == frame * m
               y == frame * b
    <3>1. x \in Int /\ y \in Int /\ o = x + r /\ o < y
      BY <1>6, <1>8, <2>3, <2>4, <2>5
    <3> HIDE DEF x, y
    <3>2. x < y
      BY <1>9, <3>1
    <3> QED BY <3>2 DEF x, y
  <2>7. m + 1 <= b
    <3>1. SUFFICES ASSUME m >= b PROVE FALSE
      BY <2>4
    <3>2. frame * m >= frame * b
      BY <1>6, <2>4, <3>1
    <3>3. frame * m \in Int /\ frame * b \in Int
      BY <1>6, <2>4
    <3> QED BY <2>6, <3>2, <3>3
  <2>8. frame * (m + 1) <= frame * b /\ frame * (m + 1) = frame * m + frame
    BY <1>6, <2>4, <2>7
  <2>9. o + len <= MinislotsPerMap
    <3> DEFINE x == frame * m
               y == frame * b
    <3>1. x \in Int /\ y \in Int /\ o = x + r /\ x + frame <= y
      BY <1>6, <2>4, <2>5, <2>8
    <3>2. MinislotsPerMap = y
      BY <1>8
    <3> HIDE DEF x, y
    <3> QED BY <1>2, <1>3, <1>6, <1>9, <3>1, <3>2
  <2> QED BY <2>3, <2>9 DEF o
<1>12. ASSUME NEW i \in 1..n
       PROVE  /\ list[i] \in GrantRecord /\ list[i].offset = lastPgs + i * PgsGap
              /\ list[i].length = len /\ End(list[i]) = lastPgs + i * PgsGap + len
  <2>1. list[i] \in GrantRecord
    BY <1>1, ElementOfSeq
  <2> QED BY <1>1, <2>1 DEF Grant, End
<1>13. ASSUME NEW i \in 1..n
       PROVE  list[i].length > 0 /\ 0 <= list[i].offset /\ End(list[i]) <= MinislotsPerMap
  <2>1. list[i].offset \in Nat
    BY <1>12, GrantFacts
  <2> QED BY <1>3, <1>11, <1>12, <2>1
<1>14. ASSUME NEW i \in 1..n, NEW j \in 1..n, i < j
       PROVE  End(list[i]) <= list[j].offset
  <2> DEFINE x == i * PgsGap
             y == j * PgsGap
  <2>1. x \in Int /\ y \in Int /\ x + PgsGap <= y
    <3>1. i \in Nat /\ j \in Nat /\ i + 1 <= j
      BY <1>2, <1>14
    <3>2. (i + 1) * PgsGap <= j * PgsGap /\ (i + 1) * PgsGap = i * PgsGap + PgsGap
      BY <1>2, <3>1
    <3> QED BY <1>2, <3>1, <3>2
  <2>2. End(list[i]) = lastPgs + x + len /\ list[j].offset = lastPgs + y
    BY <1>12
  <2> HIDE DEF x, y
  <2> QED BY <1>2, <1>10, <2>1, <2>2
<1> QED BY <1>1, <1>13, <1>14 DEF LieIn, list

-----------------------------------------------------------------------------
(* The placement of a MAP.                                                 *)

\* What is allocated is a number of minislots.
LEMMA AllocatedIsNat ==
  ASSUME TypeOK, NEW free \in FreeMinislots
  PROVE  Allocated(free).c \in Nat /\ Allocated(free).l \in Nat
<1>1. CASE AvailableTokens > 0 /\ \E f \in Flow : requests[f] > 0
  <2> DEFINE avail == Available(free, AvailableTokens)
             maxC  == MinislotCeil(requests[Classic])
             maxL  == MaxLowLatency(requests[LowLatency], PgsGranted(free))
  <2>1. avail \in Nat /\ maxC \in Nat /\ maxL \in Nat /\ PgsGranted(free) \in Nat
    BY SplitArguments, PgsGrantedIsNat
  <2>2. Allocated(free) = Split(avail, maxC, maxL, PgsGranted(free))
    BY <1>1 DEF Allocated, Allocate
  <2> HIDE DEF avail, maxC, maxL
  <2> QED BY <2>1, <2>2, SplitIsNat
<1>2. CASE ~(AvailableTokens > 0 /\ \E f \in Flow : requests[f] > 0)
  BY <1>2 DEF Allocated
<1> QED BY <1>1, <1>2

\* Every layout of a MAP grants what was scheduled, inside the MAP.
LEMMA LayoutsArePlaced ==
  ASSUME TypeOK, NEW free \in FreeMinislots, SumOfLengths(PgsGrants(free)) = PgsGranted(free),
         \A i \in 1 .. Len(PgsGrants(free)) : PgsGrants(free)[i].sfid = LowLatency,
         PgsGranted(free) > 0 => LieIn(PgsGrants(free), 0, MinislotsPerMap),
         NEW layout \in Layouts(free)
  PROVE  Placed(layout, Scheduled(free, Classic), Scheduled(free, LowLatency))
<1> DEFINE c == Allocated(free).c
           l == Allocated(free).l
           pgs == PgsGrants(free)
           made == PgsGranted(free)
           n == Scheduled(free, Classic) + Scheduled(free, LowLatency)
<1>1. c \in Nat /\ l \in Nat /\ made \in Nat
  BY AllocatedIsNat, PgsGrantedIsNat
<1>2. Scheduled(free, Classic) = c /\ Scheduled(free, LowLatency) = Larger(l, made)
  BY DEF Scheduled, Classic, LowLatency
<1>3. SumOfLengths(pgs) = made
  OBVIOUS
<1>4. MinislotsPerMap \in Nat /\ made <= MinislotsPerMap
  <2>1. MinislotsPerMap \in Nat /\ 0 <= MinislotsPerMap
    BY SchedulerAssumption
  <2>2. CASE made > 0
    <3>1. LieIn(pgs, 0, MinislotsPerMap)
      BY <2>2
    <3>2. SumSeq(RoomsOf(pgs)) + SumOfLengths(pgs) = MinislotsPerMap
      BY <3>1, RoomsAreTheRest
    <3>3. SumSeq(RoomsOf(pgs)) \in Nat
      BY <3>1, HoleFacts, SumIsNat
    <3> HIDE DEF made
    <3> QED BY <1>1, <1>3, <2>1, <3>2, <3>3
  <2>3. CASE made = 0
    BY <2>1, <2>3
  <2> QED BY <1>1, <2>1, <2>2, <2>3
<1>5. c + Larger(l, made) <= MinislotsPerMap
  <2>1. n = made \/ n <= Available(free, AvailableTokens)
    BY ScheduledFacts
  <2>2. Available(free, AvailableTokens) \in Nat /\ Available(free, AvailableTokens) <= free
        /\ free \in Nat /\ free <= MinislotsPerMap
    BY SplitArguments, SchedulerAssumption
  <2>3. n = c + Larger(l, made) /\ n \in Nat
    BY <1>2, ScheduledFacts
  <2> HIDE DEF n, made
  <2> QED BY <1>1, <1>4, <2>1, <2>2, <2>3
<1>6. CASE ~GrantsMade(free)
  <2>1. layout.left = 0 /\ layout.list = <<>>
    BY <1>6 DEF Layouts
  <2>2. LieIn(<<>>, 0, MinislotsPerMap)
    BY <1>4, LieInEmpty
  <2>3. Classic \in Flow /\ LowLatency \in Flow
    BY DEF Flow
  <2>4. GrantedTo(<<>>, Classic) = 0 /\ GrantedTo(<<>>, LowLatency) = 0
    <3>1. <<>> \in Seq(GrantRecord)
      BY EmptySeq
    <3>2. ASSUME NEW f \in Flow PROVE GrantedTo(<<>>, f) = 0
      <4>1. GrantedTo(<<>>, f) = TotalWeight(<<>>, LengthsFor(f))
        BY <3>1, LengthFacts
      <4>2. TotalWeight(<<>>, LengthsFor(f)) = 0
        BY SumEmpty DEF TotalWeight, Weights
      <4> QED BY <4>1, <4>2
    <3> QED BY <2>3, <3>2
  <2>5. Scheduled(free, Classic) = 0 /\ Scheduled(free, LowLatency) = 0
    BY <1>6, <2>3, ScheduledFacts DEF GrantsMade
  <2> QED BY <2>1, <2>2, <2>4, <2>5 DEF Placed
<1>7. CASE GrantsMade(free) /\ made > 0
  <2>1. layout = PlaceAroundPgs(pgs, c, l)
    BY <1>3, <1>7 DEF Layouts, ScheduleGrant
  <2>2. LieIn(pgs, 0, MinislotsPerMap) /\ \A i \in 1 .. Len(pgs) : pgs[i].sfid = LowLatency
    BY <1>7
  <2> HIDE DEF pgs, c, l, made
  <2>3. Placed(PlaceAroundPgs(pgs, c, l), c, Larger(l, SumOfLengths(pgs)))
    BY <1>1, <1>3, <1>5, <2>2, PlaceAroundPgsFacts
  <2> QED BY <1>2, <1>3, <2>1, <2>3
<1>8. CASE GrantsMade(free) /\ made = 0
  <2>1. PICK start \in Starts(c, l) : layout = PlaceFrom(start, c, l)
    BY <1>3, <1>8 DEF Layouts, ScheduleGrant
  <2> HIDE DEF c, l, made
  <2>2. Larger(l, made) = l
    BY <1>1, <1>8 DEF Larger
  <2>3. Placed(PlaceFrom(start, c, l), c, l)
    BY <1>1, <1>5, <2>2, PlaceFromFacts
  <2> QED BY <1>2, <2>1, <2>2, <2>3
<1> QED BY <1>1, <1>6, <1>7, <1>8

\* A placed layout is well placed.
LEMMA PlacedIsWellPlaced ==
  ASSUME NEW list, LieIn(list, 0, MinislotsPerMap)
  PROVE  WellPlaced(list)
BY LenProperties DEF LieIn, WellPlaced

\* The conditions on guaranteed grants, if there are any: every MAP has a free
\* minislot, and a grant fits into its frame.
PgsFits ==
  PgsMinislots > 0 =>
    0 \notin FreeMinislots /\ \E frame \in Nat : PgsFitsFrames(frame)

AllPlaced ==
  \A free \in FreeMinislots : \A layout \in Layouts(free) :
    Placed(layout, Scheduled(free, Classic), Scheduled(free, LowLatency))

\* Then every layout of a MAP grants what was scheduled, inside the MAP.
LEMMA AlwaysPlaced ==
  ASSUME PgsFits
  PROVE  Spec => []AllPlaced
<1>1. \E frame \in Nat \ {0} :
        PgsMinislots = 0 \/ (0 \notin FreeMinislots /\ PgsFitsFrames(frame))
  <2>1. CASE PgsMinislots = 0
    <3>1. 1 \in Nat \ {0}
      OBVIOUS
    <3> QED BY <2>1, <3>1
  <2>2. CASE 0 \notin FreeMinislots /\ \E frame \in Nat : PgsFitsFrames(frame)
    BY <2>2 DEF PgsFitsFrames
  <2> QED BY <2>1, <2>2, SchedulerAssumption DEF PgsFits
<1>2. PICK frame \in Nat \ {0} :
        PgsMinislots = 0 \/ (0 \notin FreeMinislots /\ PgsFitsFrames(frame))
  BY <1>1
<1>3. Init => PgsInStep(frame)
  <2> SUFFICES ASSUME Init, PgsMinislots > 0 PROVE
        /\ lastPgs < MinislotsPerMap /\ lastPgs + PgsGap >= 0
        /\ \E k \in Int : lastPgs = FirstPgs + frame * k
    BY DEF PgsInStep
  <2>1. PICK a \in Nat : PgsGap = frame * a
    BY <1>2, FrameFacts
  <2>2. /\ lastPgs = FirstPgs - PgsGap /\ FirstPgs \in Nat /\ FirstPgs < MinislotsPerMap
        /\ PgsGap \in Nat /\ MinislotsPerMap \in Nat /\ frame \in Nat
    BY SchedulerAssumption DEF Init
  <2>3. -a \in Int /\ lastPgs = FirstPgs + frame * (-a)
    <3>1. frame * (-a) = - (frame * a)
      BY <2>2
    <3> QED BY <2>1, <2>2, <3>1
  <2>4. lastPgs < MinislotsPerMap /\ lastPgs + PgsGap >= 0
    BY <2>2
  <2> QED BY <2>3, <2>4
<1>4. TypeOK /\ PgsInStep(frame) /\ [Next]_vars => PgsInStep(frame)'
  <2>1. CASE PgsMinislots = 0
    BY <2>1 DEF PgsInStep
  <2>2. CASE PgsMinislots # 0
    BY <1>2, <2>2, PgsStaysInStep
  <2> QED BY <2>1, <2>2
<1>5. ASSUME TypeOK, PgsInStep(frame) PROVE AllPlaced
  <2> SUFFICES ASSUME NEW free \in FreeMinislots, NEW layout \in Layouts(free)
               PROVE  Placed(layout, Scheduled(free, Classic), Scheduled(free, LowLatency))
    BY DEF AllPlaced
  <2> DEFINE pgs == PgsGrants(free)
  <2>1. /\ Len(pgs) = PgsCount(free)
        /\ \A i \in 1 .. PgsCount(free) :
             pgs[i] = Grant(LowLatency, lastPgs + i * PgsGap, PgsLength(free))
        /\ SumOfLengths(pgs) = PgsGranted(free)
    BY <1>5, PgsGrantsFacts
  <2>2. \A i \in 1 .. Len(pgs) : pgs[i].sfid = LowLatency
    BY <2>1 DEF Grant
  <2>3. PgsGranted(free) > 0 => LieIn(pgs, 0, MinislotsPerMap)
    <3> SUFFICES ASSUME PgsGranted(free) > 0 PROVE LieIn(pgs, 0, MinislotsPerMap)
      OBVIOUS
    <3>1. PgsMinislots # 0 /\ PgsLength(free) > 0
      <4>1. /\ PgsCount(free) \in Nat /\ PgsLength(free) \in Nat
            /\ PgsMinislots = 0 => PgsGranted(free) = 0
        BY <1>5, PgsGrantedIsNat
      <4>2. PgsLength(free) = 0 => PgsGranted(free) = 0
        BY <4>1 DEF PgsGranted
      <4> QED BY <4>1, <4>2
    <3>2. PgsFitsFrames(frame)
      BY <1>2, <3>1
    <3> QED BY <1>5, <3>1, <3>2, PgsGrantsLie
  <2> QED BY <1>5, <2>1, <2>2, <2>3, LayoutsArePlaced
<1>6. TypeOK /\ PgsInStep(frame) => AllPlaced
  BY <1>5
<1> QED BY <1>3, <1>4, <1>6, TypeCorrect, PTL DEF Spec

\* When a guaranteed grant fits into its frame and every MAP has a free
\* minislot, ScheduleGrant finds a place for everything it is to grant, in
\* every reachable state and for any random start: the grants of a MAP do not
\* overlap, end with the MAP, and are what the flows are charged for.  The
\* conditions are about guaranteed grants only.
THEOREM GrantsAlwaysPlaced ==
  ASSUME PgsFits
  PROVE  Spec => []GrantsArePlaced
<1>1. AllPlaced => GrantsArePlaced
  BY PlacedIsWellPlaced DEF AllPlaced, GrantsArePlaced, Placed, Flow
<1> QED BY <1>1, AlwaysPlaced, PTL

-----------------------------------------------------------------------------
(* The information elements of a MAP.                                      *)

IeRecord == [sfid : Flow \cup {NoFlow}, offset : Nat]

\* Grant k stands at e[k] of the elements, the next element starts where it
\* ends, and what is between two grants, or before the first, is a null element.
Encodes(ies, e, list) ==
  /\ ies \in Seq(IeRecord)
  /\ \A k \in 1 .. Len(list) :
       /\ e[k] \in Nat /\ e[k] > 0 /\ e[k] < Len(ies)
       /\ ies[e[k]] = Ie(list[k].sfid, list[k].offset)
       /\ ies[e[k] + 1].offset = End(list[k])
  /\ \A k \in 2 .. Len(list) :
       \/ e[k] = e[k - 1] + 1
       \/ e[k] = e[k - 1] + 2 /\ ies[e[k - 1] + 1].sfid = NoFlow
  /\ e[1] = 1 \/ (e[1] = 2 /\ ies[1].sfid = NoFlow)
  /\ Len(ies) = e[Len(list)] + 1

\* A grant follows grant k at once.
Adjacent(list, k) == k < Len(list) /\ list[k + 1].offset = End(list[k])

\* The elements of one grant.
ElementOf(list, k) ==
  <<Ie(list[k].sfid, list[k].offset)>>
    \o (IF Adjacent(list, k) THEN <<>> ELSE <<Ie(NoFlow, End(list[k]))>>)

\* There are one or two of them.
LEMMA ElementFacts ==
  ASSUME NEW list \in Seq(GrantRecord), NEW k \in 1 .. Len(list)
  PROVE  /\ ElementOf(list, k) \in Seq(IeRecord)
         /\ ElementOf(list, k)[1] = Ie(list[k].sfid, list[k].offset)
         /\ Len(ElementOf(list, k)) = IF Adjacent(list, k) THEN 1 ELSE 2
         /\ ~Adjacent(list, k) => ElementOf(list, k)[2] = Ie(NoFlow, End(list[k]))
<1> DEFINE own  == Ie(list[k].sfid, list[k].offset)
           null == Ie(NoFlow, End(list[k]))
<1>1. list[k] \in GrantRecord
  BY ElementOfSeq
<1>2. own \in IeRecord /\ null \in IeRecord
  BY <1>1, GrantFacts DEF Ie, IeRecord
<1> HIDE DEF own, null
<1>3. CASE Adjacent(list, k)
  <2>1. ElementOf(list, k) = <<own>> \o <<>>
    BY <1>3 DEF ElementOf, own
  <2>2. <<own>> \in Seq(IeRecord) /\ <<own>>[1] = own /\ Len(<<own>>) = 1
    BY <1>2
  <2>3. <<own>> \o <<>> = <<own>>
    BY <2>2, ConcatEmptySeq
  <2> QED BY <1>3, <2>1, <2>2, <2>3 DEF own
<1>4. CASE ~Adjacent(list, k)
  <2>1. ElementOf(list, k) = <<own>> \o <<null>>
    BY <1>4 DEF ElementOf, own, null
  <2> DEFINE a == <<own>>
             b == <<null>>
  <2>2. /\ a \in Seq(IeRecord) /\ Len(a) = 1 /\ a[1] = own
        /\ b \in Seq(IeRecord) /\ Len(b) = 1 /\ b[1] = null
    BY <1>2
  <2>3. ElementOf(list, k) = a \o b
    BY <2>1
  <2> HIDE DEF a, b
  <2>4. /\ a \o b \in Seq(IeRecord) /\ Len(a \o b) = Len(a) + Len(b)
        /\ \A i \in 1 .. Len(a) + Len(b) :
             (a \o b)[i] = IF i <= Len(a) THEN a[i] ELSE b[i - Len(a)]
    BY <2>2, ConcatProperties
  <2>5. 1 \in 1 .. Len(a) + Len(b) /\ 2 \in 1 .. Len(a) + Len(b)
        /\ Len(a) + Len(b) = 2 /\ 1 <= Len(a) /\ ~(2 <= Len(a)) /\ 2 - Len(a) = 1
    BY <2>2
  <2>6. (a \o b)[1] = own /\ (a \o b)[2] = null
    BY <2>2, <2>4, <2>5
  <2> QED BY <1>4, <2>3, <2>4, <2>5, <2>6 DEF own, null
<1> QED BY <1>3, <1>4

\* BuildMapMessage encodes the grants.
LEMMA MessageEncodes ==
  ASSUME NEW list, LieIn(list, 0, MinislotsPerMap), list # <<>>
  PROVE  \E e : Encodes(BuildMapIes(list), e, list)
<1> DEFINE n == Len(list)
           lead == IF list[1].offset > 0 THEN <<Ie(NoFlow, 0)>> ELSE <<>>
           parts == [k \in 1..n |-> ElementOf(list, k)]
           ies == BuildMapIes(list)
           h == Len(lead)
<1>1. list \in Seq(GrantRecord) /\ n \in Nat /\ n > 0 /\ DOMAIN list = 1..n
  BY LenProperties, EmptySeq DEF LieIn
<1>2. ies = lead \o FlattenSeq(parts)
  <2>1. parts = [i \in DOMAIN list |->
                   <<Ie(list[i].sfid, list[i].offset)>>
                     \o (IF i < Len(list) /\ list[i + 1].offset = End(list[i]) THEN <<>>
                         ELSE <<Ie(NoFlow, End(list[i]))>>)]
    BY <1>1 DEF ElementOf, Adjacent
  <2> QED BY <2>1 DEF BuildMapIes
<1>3. /\ lead \in Seq(IeRecord) /\ h \in {0, 1}
      /\ h = 1 => lead[1].sfid = NoFlow
  <2>1. Ie(NoFlow, 0) \in IeRecord /\ Ie(NoFlow, 0).sfid = NoFlow
    BY DEF Ie, IeRecord
  <2> DEFINE null == Ie(NoFlow, 0)
  <2> HIDE DEF null
  <2>2. <<null>> \in Seq(IeRecord) /\ Len(<<null>>) = 1 /\ <<null>>[1] = null
    BY <2>1 DEF null
  <2>3. <<>> \in Seq(IeRecord) /\ Len(<<>>) = 0
    BY EmptySeq
  <2>4. lead \in {<<null>>, <<>>}
    BY DEF null
  <2>5. null.sfid = NoFlow
    BY <2>1 DEF null
  <2> HIDE DEF lead
  <2>6. CASE lead = <<null>>
    BY <2>2, <2>5, <2>6
  <2>7. CASE lead = <<>>
    BY <2>3, <2>7
  <2> QED BY <2>4, <2>6, <2>7
<1>4. ASSUME NEW k \in 1..n
      PROVE  /\ parts[k] \in Seq(IeRecord)
             /\ parts[k][1] = Ie(list[k].sfid, list[k].offset)
             /\ Len(parts[k]) = IF Adjacent(list, k) THEN 1 ELSE 2
             /\ ~Adjacent(list, k) => parts[k][2] = Ie(NoFlow, End(list[k]))
  BY <1>1, ElementFacts
<1>5. parts \in Seq(Seq(IeRecord)) /\ Len(parts) = n
  <2>1. parts = [k \in 1..n |-> parts[k]]
    OBVIOUS
  <2> HIDE DEF parts
  <2>2. parts \in [1..n -> Seq(IeRecord)]
    BY <1>4, <2>1
  <2> QED BY <1>1, <2>2, SeqDef, LenProperties
<1> HIDE DEF parts, lead, ies
<1>6. PICK F : Flattened(IeRecord, parts, n, F) /\ FlattenSeq(parts) = F[n]
  BY <1>1, <1>5, FlattenSteps
<1>7. ASSUME NEW k \in 1..n
      PROVE  /\ Len(F[k - 1]) \in Nat /\ Len(F[k]) = Len(F[k - 1]) + Len(parts[k])
             /\ Len(F[k]) <= Len(F[n]) /\ Len(F[n]) \in Nat
             /\ \A j \in 1 .. Len(parts[k]) : F[n][Len(F[k - 1]) + j] = parts[k][j]
  <2>1. StandsIn(parts, n, F, k)
    BY <1>5, <1>6, FlattenParts
  <2> QED BY <2>1 DEF StandsIn
<1> HIDE DEF n, h
<1>8. /\ ies \in Seq(IeRecord) /\ Len(ies) = h + Len(F[n])
      /\ \A j \in 1 .. Len(F[n]) : ies[h + j] = F[n][j]
      /\ h = 1 => ies[1] = lead[1]
  <2> DEFINE G == F[n]
  <2>1. G \in Seq(IeRecord) /\ Len(G) \in Nat /\ ies = lead \o G /\ h = Len(lead) /\ h \in Nat
    <3>1. n \in 0..n
      BY <1>1
    <3>2. G \in Seq(IeRecord)
      BY <1>6, <3>1 DEF Flattened
    <3> HIDE DEF G
    <3>3. h = Len(lead) /\ h \in Nat
      BY <1>3 DEF h
    <3>4. Len(G) \in Nat
      BY <3>2, LenProperties
    <3>5. ies = lead \o G
      BY <1>2, <1>6 DEF G
    <3> QED BY <3>2, <3>3, <3>4, <3>5
  <2> HIDE DEF G
  <2>2. /\ lead \o G \in Seq(IeRecord) /\ Len(lead \o G) = Len(lead) + Len(G)
        /\ \A j \in 1 .. Len(lead) + Len(G) :
             (lead \o G)[j] = IF j <= Len(lead) THEN lead[j] ELSE G[j - Len(lead)]
    BY <1>3, <2>1, ConcatProperties
  <2>3. ASSUME NEW j \in 1 .. Len(G) PROVE ies[h + j] = G[j]
    <3>1. h + j \in 1 .. h + Len(G) /\ ~(h + j <= h) /\ (h + j) - h = j
      BY <2>1
    <3> QED BY <2>1, <2>2, <3>1
  <2>4. h = 1 => ies[1] = lead[1]
    <3>1. h = 1 => 1 \in 1 .. h + Len(G) /\ 1 <= h
      BY <2>1
    <3> QED BY <2>1, <2>2, <3>1
  <2> QED BY <2>1, <2>2, <2>3, <2>4 DEF G
<1> DEFINE e == [k \in 1..n |-> h + Len(F[k - 1]) + 1]
<1>9. ASSUME NEW k \in 1..n
      PROVE  /\ e[k] = h + Len(F[k - 1]) + 1 /\ e[k] \in Nat /\ e[k] > 0 /\ e[k] <= Len(ies)
             /\ Len(F[k - 1]) \in Nat
             /\ ies[e[k]] = Ie(list[k].sfid, list[k].offset)
             /\ Adjacent(list, k) => h + Len(F[k]) = e[k]
             /\ ~Adjacent(list, k) => /\ h + Len(F[k]) = e[k] + 1 /\ e[k] < Len(ies)
                                      /\ ies[e[k] + 1] = Ie(NoFlow, End(list[k]))
  <2> DEFINE x == Len(F[k - 1])
             y == Len(F[k])
             z == Len(F[n])
             m == Len(parts[k])
  <2>1. /\ x \in Nat /\ z \in Nat /\ y = x + m /\ y <= z /\ Len(ies) = h + z /\ h \in Nat
        /\ m = IF Adjacent(list, k) THEN 1 ELSE 2
    <3>1. m = IF Adjacent(list, k) THEN 1 ELSE 2
      BY <1>4
    <3>2. x \in Nat /\ y = x + m /\ y <= z /\ z \in Nat
      BY <1>7
    <3>3. Len(ies) = h + z /\ h \in Nat
      BY <1>3, <1>8
    <3> QED BY <3>1, <3>2, <3>3
  <2>2. e[k] = h + x + 1
    OBVIOUS
  <2>3. \A j \in 1..m : F[n][x + j] = parts[k][j]
    BY <1>7
  <2>4. \A j \in 1..z : ies[h + j] = F[n][j]
    BY <1>8
  <2> HIDE DEF x, y, z, m, e
  <2>5. 1 \in 1..m /\ x + 1 \in 1..z /\ e[k] = h + (x + 1)
    BY <2>1, <2>2
  <2>6. ies[e[k]] = parts[k][1]
    BY <2>3, <2>4, <2>5
  <2>7. ~Adjacent(list, k) => 2 \in 1..m /\ x + 2 \in 1..z /\ e[k] + 1 = h + (x + 2)
    BY <2>1, <2>2
  <2>8. ~Adjacent(list, k) => ies[e[k] + 1] = parts[k][2]
    BY <2>3, <2>4, <2>7
  <2>9. /\ e[k] \in Nat /\ e[k] > 0 /\ e[k] <= Len(ies)
        /\ Adjacent(list, k) => h + y = e[k]
        /\ ~Adjacent(list, k) => h + y = e[k] + 1 /\ e[k] < Len(ies)
    BY <2>1, <2>2
  <2> QED BY <1>4, <2>1, <2>2, <2>6, <2>8, <2>9 DEF x, y
<1> HIDE DEF e
<1>10. ASSUME NEW k \in 2..n
       PROVE  /\ k - 1 \in 1..n
              /\ Adjacent(list, k - 1) => e[k] = e[k - 1] + 1
              /\ ~Adjacent(list, k - 1) => e[k] = e[k - 1] + 2
  <2>1. k - 1 \in 1..n /\ k \in 1..n
    BY <1>1
  <2>2. e[k] = h + Len(F[k - 1]) + 1
    BY <1>9, <2>1
  <2>3. /\ Adjacent(list, k - 1) => h + Len(F[k - 1]) = e[k - 1]
        /\ ~Adjacent(list, k - 1) => h + Len(F[k - 1]) = e[k - 1] + 1
        /\ e[k - 1] \in Nat
    BY <1>9, <2>1
  <2> DEFINE x == h + Len(F[k - 1])
  <2>4. e[k] = x + 1 /\ (Adjacent(list, k - 1) => x = e[k - 1])
        /\ (~Adjacent(list, k - 1) => x = e[k - 1] + 1)
    BY <2>2, <2>3
  <2> HIDE DEF x
  <2> QED BY <2>1, <2>3, <2>4
<1>11. ASSUME NEW k \in 1..n
       PROVE  e[k] < Len(ies) /\ ies[e[k] + 1].offset = End(list[k])
  <2>1. CASE ~Adjacent(list, k)
    <3>1. e[k] < Len(ies) /\ ies[e[k] + 1] = Ie(NoFlow, End(list[k]))
      BY <1>9, <2>1
    <3> QED BY <3>1 DEF Ie
  <2>2. CASE Adjacent(list, k)
    <3>1. k + 1 \in 2..n /\ k + 1 \in 1..n /\ (k + 1) - 1 = k
          /\ list[k + 1].offset = End(list[k])
      BY <1>1, <2>2 DEF Adjacent, n
    <3>2. e[k + 1] = e[k] + 1
      <4> DEFINE q == k + 1
      <4>1. q \in 2..n /\ q - 1 = k
        BY <3>1
      <4> HIDE DEF q
      <4>2. e[q] = e[k] + 1
        BY <1>10, <2>2, <4>1
      <4> QED BY <4>2 DEF q
    <3>3. ies[e[k + 1]] = Ie(list[k + 1].sfid, list[k + 1].offset) /\ e[k + 1] <= Len(ies)
      BY <1>9, <3>1
    <3>4. e[k] \in Nat /\ Len(ies) \in Nat
      BY <1>8, <1>9, LenProperties
    <3> QED BY <3>1, <3>2, <3>3, <3>4 DEF Ie
  <2> QED BY <2>1, <2>2
<1>12. ASSUME NEW k \in 2..n
       PROVE  \/ e[k] = e[k - 1] + 1
              \/ e[k] = e[k - 1] + 2 /\ ies[e[k - 1] + 1].sfid = NoFlow
  <2>1. k - 1 \in 1..n
    BY <1>10
  <2>2. CASE Adjacent(list, k - 1)
    BY <1>10, <2>2
  <2>3. CASE ~Adjacent(list, k - 1)
    <3>1. ies[e[k - 1] + 1] = Ie(NoFlow, End(list[k - 1]))
      BY <1>9, <2>1, <2>3
    <3>2. e[k] = e[k - 1] + 2
      BY <1>10, <2>3
    <3> QED BY <3>1, <3>2 DEF Ie
  <2> QED BY <2>2, <2>3
<1>13. e[1] = 1 \/ (e[1] = 2 /\ ies[1].sfid = NoFlow)
  <2>1. 1 \in 1..n /\ 1 - 1 = 0
    BY <1>1
  <2>2. F[0] = <<>>
    BY <1>6 DEF Flattened
  <2>3. e[1] = h + 0 + 1
    BY <1>9, <2>1, <2>2, EmptySeq
  <2> QED BY <1>3, <1>8, <2>3
<1>14. Len(ies) = e[n] + 1
  <2>1. n \in 1..n /\ ~Adjacent(list, n)
    BY <1>1 DEF Adjacent, n
  <2>2. h + Len(F[n]) = e[n] + 1
    BY <1>9, <2>1
  <2> QED BY <1>8, <2>2
<1>15. Encodes(ies, e, list)
  BY <1>8, <1>9, <1>11, <1>12, <1>13, <1>14 DEF Encodes, n
<1> QED BY <1>15 DEF ies

\* HandleMapMsg reads from the elements the grants they encode.
LEMMA MessageDecodes ==
  ASSUME NEW list, LieIn(list, 0, MinislotsPerMap), list # <<>>,
         NEW ies, NEW e, Encodes(ies, e, list)
  PROVE  UnpackMapIes(ies) = list
<1> DEFINE n == Len(list)
           m == Len(ies) - 1
           AnyGrant == [sfid : Flow, offset : Nat, length : Int]
           piece(i) == IF ies[i].sfid = NoFlow THEN <<>>
                       ELSE <<Grant(ies[i].sfid, ies[i].offset, ies[i + 1].offset - ies[i].offset)>>
           pieces == [i \in 1..m |-> piece(i)]
           first(k) == SubSeq(list, 1, k)
<1>1. list \in Seq(GrantRecord) /\ n \in Nat /\ n > 0
  BY LenProperties, EmptySeq DEF LieIn
<1>2. ies \in Seq(IeRecord) /\ Len(ies) \in Nat /\ Len(ies) = e[n] + 1
  BY LenProperties DEF Encodes
<1>3. /\ \A k \in 1..n : /\ e[k] \in Nat /\ e[k] > 0 /\ e[k] < Len(ies)
                         /\ ies[e[k]] = Ie(list[k].sfid, list[k].offset)
                         /\ ies[e[k] + 1].offset = End(list[k])
      /\ \A k \in 2..n : \/ e[k] = e[k - 1] + 1
                         \/ e[k] = e[k - 1] + 2 /\ ies[e[k - 1] + 1].sfid = NoFlow
      /\ e[1] = 1 \/ (e[1] = 2 /\ ies[1].sfid = NoFlow)
  BY DEF Encodes
<1>4. m \in Nat /\ m > 0 /\ m = e[n] /\ \A k \in 1..n : e[k] \in 1..m
  <2>1. n \in 1..n
    BY <1>1
  <2>2. \A k \in 1..n : e[k] \in Nat /\ e[k] > 0 /\ e[k] < Len(ies)
    BY <1>3
  <2>3. e[n] \in Nat /\ e[n] > 0
    BY <2>1, <2>2
  <2>4. m \in Nat /\ m > 0 /\ m = e[n]
    BY <1>2, <2>3
  <2> QED BY <1>2, <2>2, <2>4
<1>5. UnpackMapIes(ies) = FlattenSeq(pieces)
  BY DEF UnpackMapIes
<1> HIDE DEF n, m
<1>6. ASSUME NEW i \in 1..m PROVE pieces[i] \in Seq(AnyGrant)
  <2>1. i \in 1 .. Len(ies) /\ i + 1 \in 1 .. Len(ies)
    BY <1>2, <1>4 DEF m
  <2>2. ies[i] \in IeRecord /\ ies[i + 1] \in IeRecord
    BY <1>2, <2>1, ElementOfSeq
  <2>3. CASE ies[i].sfid = NoFlow
    BY <2>3, EmptySeq
  <2>4. CASE ies[i].sfid # NoFlow
    <3> DEFINE g == Grant(ies[i].sfid, ies[i].offset, ies[i + 1].offset - ies[i].offset)
    <3>1. g \in AnyGrant
      BY <2>2, <2>4 DEF Grant, IeRecord
    <3> HIDE DEF g, AnyGrant
    <3>2. <<g>> \in Seq(AnyGrant)
      BY <3>1
    <3> QED BY <2>4, <3>2 DEF g
  <2> QED BY <2>3, <2>4
<1>7. pieces \in Seq(Seq(AnyGrant)) /\ Len(pieces) = m
  <2>1. pieces = [i \in 1..m |-> pieces[i]]
    OBVIOUS
  <2> HIDE DEF pieces, AnyGrant
  <2>2. pieces \in [1..m -> Seq(AnyGrant)]
    BY <1>6, <2>1
  <2> QED BY <1>4, <2>2, SeqDef, LenProperties
<1>8. ASSUME NEW i \in 1..m, ies[i].sfid = NoFlow PROVE pieces[i] = <<>>
  BY <1>8
<1>9. ASSUME NEW k \in 1..n PROVE pieces[e[k]] = <<list[k]>>
  <2>1. list[k] \in GrantRecord
    BY <1>1, ElementOfSeq DEF n
  <2>2. /\ list[k].sfid \in Flow /\ list[k].offset \in Nat /\ list[k].length \in Nat
        /\ End(list[k]) = list[k].offset + list[k].length
        /\ list[k] = [sfid |-> list[k].sfid, offset |-> list[k].offset,
                      length |-> list[k].length]
    BY <2>1, GrantFacts DEF GrantRecord
  <2>3. list[k].sfid # NoFlow
    BY <2>2 DEF Flow, Classic, LowLatency, NoFlow
  <2>4. /\ ies[e[k]].sfid = list[k].sfid /\ ies[e[k]].offset = list[k].offset
        /\ ies[e[k] + 1].offset = End(list[k])
    <3>1. /\ ies[e[k]] = Ie(list[k].sfid, list[k].offset)
          /\ ies[e[k] + 1].offset = End(list[k])
      BY <1>3
    <3>2. /\ Ie(list[k].sfid, list[k].offset).sfid = list[k].sfid
          /\ Ie(list[k].sfid, list[k].offset).offset = list[k].offset
      BY DEF Ie
    <3> QED BY <3>1, <3>2, Zenon
  <2>5. piece(e[k]) = <<Grant(list[k].sfid, list[k].offset, End(list[k]) - list[k].offset)>>
    BY <2>3, <2>4
  <2>6. End(list[k]) - list[k].offset = list[k].length
    BY <2>2
  <2>7. Grant(list[k].sfid, list[k].offset, list[k].length) = list[k]
    BY <2>2 DEF Grant
  <2>8. pieces[e[k]] = piece(e[k])
    BY <1>4
  <2> HIDE DEF pieces, piece
  <2> QED BY <2>5, <2>6, <2>7, <2>8
<1> HIDE DEF pieces
<1>10. PICK H : Flattened(AnyGrant, pieces, m, H) /\ FlattenSeq(pieces) = H[m]
  <2> HIDE DEF AnyGrant
  <2> QED BY <1>4, <1>7, FlattenSteps
<1>11. H[0] = <<>> /\ \A i \in 1..m : H[i] = H[i - 1] \o pieces[i]
  BY <1>10 DEF Flattened
<1>12. ASSUME NEW k \in 1..n
       PROVE  /\ first(k - 1) \in Seq(GrantRecord)
              /\ first(k - 1) \o <<list[k]>> = first(k)
  <2>1. first(k - 1) \in Seq(GrantRecord)
    <3>1. \A i \in 1 .. k - 1 : list[i] \in GrantRecord
      BY <1>1, ElementOfSeq DEF n
    <3> QED BY <3>1, SubSeqProperties
  <2>2. first(k) = first(k - 1) \o <<list[k]>>
    <3>1. 1 \in 1 .. Len(list) /\ k \in 1 .. Len(list)
      BY <1>1 DEF n
    <3> QED BY <1>1, <3>1, SubSeqRecursiveSecond
  <2> QED BY <2>1, <2>2
\* What has been read before and after the k-th grant is reached.
<1>13. ASSUME NEW k \in 1..n, H[e[k] - 1] = first(k - 1) PROVE H[e[k]] = first(k)
  <2>1. e[k] \in 1..m
    BY <1>4
  <2>2. H[e[k]] = H[e[k] - 1] \o pieces[e[k]]
    BY <1>11, <2>1
  <2> QED BY <1>9, <1>12, <1>13, <2>2
<1> DEFINE T == {k \in 0 .. n - 1 : H[e[k + 1] - 1] = first(k)}
<1>14. 0 \in T
  <2>1. 0 \in 0 .. n - 1 /\ 0 + 1 = 1 /\ 1 \in 1..m
    BY <1>1, <1>4
  <2>2. first(0) = <<>>
    BY SubSeqEmpty
  <2>3. e[1] - 1 = 0 \/ (e[1] - 1 = 1 /\ ies[1].sfid = NoFlow)
    BY <1>3
  <2>4. ies[1].sfid = NoFlow => H[1] = <<>>
    <3> SUFFICES ASSUME ies[1].sfid = NoFlow PROVE H[1] = <<>>
      OBVIOUS
    <3>1. pieces[1] = <<>>
      BY <1>8, <2>1
    <3>2. H[1] = H[0] \o pieces[1]
      <4> DEFINE q == 1
      <4>1. q \in 1..m /\ q - 1 = 0
        BY <2>1
      <4> HIDE DEF q
      <4>2. H[q] = H[0] \o pieces[q]
        BY <1>11, <4>1
      <4> QED BY <4>2 DEF q
    <3>3. <<>> \o <<>> = <<>>
      BY EmptySeq, ConcatEmptySeq
    <3> QED BY <1>11, <3>1, <3>2, <3>3
  <2>5. H[e[1] - 1] = <<>>
    BY <1>11, <2>3, <2>4
  <2> HIDE DEF first
  <2> QED BY <2>1, <2>2, <2>5
<1>15. ASSUME NEW k \in 1 .. n - 1, k - 1 \in T PROVE k \in T
  <2>1. k \in 1..n /\ k \in 0 .. n - 1 /\ k + 1 \in 2..n /\ (k - 1) + 1 = k /\ (k + 1) - 1 = k
    BY <1>1
  <2>2. H[e[k] - 1] = first(k - 1)
    <3>1. H[e[(k - 1) + 1] - 1] = first(k - 1)
      BY <1>15
    <3> HIDE DEF first
    <3> QED BY <2>1, <3>1, Zenon
  <2>3. H[e[k]] = first(k)
    BY <1>13, <2>1, <2>2
  <2>4. e[k + 1] = e[k] + 1 \/ (e[k + 1] = e[k] + 2 /\ ies[e[k] + 1].sfid = NoFlow)
    <3> DEFINE q == k + 1
    <3>1. q \in 2..n /\ q - 1 = k
      BY <2>1
    <3> HIDE DEF q
    <3>2. e[q] = e[k] + 1 \/ (e[q] = e[k] + 2 /\ ies[e[k] + 1].sfid = NoFlow)
      BY <1>3, <3>1
    <3> QED BY <3>2 DEF q
  <2>5. e[k] \in Nat /\ e[k + 1] \in 1..m
    BY <1>1, <1>4, <2>1
  <2>6. H[e[k + 1] - 1] = first(k)
    <3>1. CASE e[k + 1] = e[k] + 1
      <4>1. e[k + 1] - 1 = e[k]
        BY <2>5, <3>1
      <4> QED BY <2>3, <4>1
    <3>2. CASE e[k + 1] = e[k] + 2 /\ ies[e[k] + 1].sfid = NoFlow
      <4>1. e[k + 1] - 1 = e[k] + 1 /\ e[k] + 1 \in 1..m /\ (e[k] + 1) - 1 = e[k]
        BY <1>4, <2>5, <3>2
      <4>2. pieces[e[k] + 1] = <<>>
        BY <1>8, <3>2, <4>1
      <4>3. H[e[k] + 1] = H[e[k]] \o pieces[e[k] + 1]
        BY <1>11, <4>1
      <4>4. H[e[k] + 1] = first(k) \o <<>>
        BY <2>3, <4>2, <4>3
      <4>5. first(k) \in Seq(GrantRecord)
        <5> DEFINE q == k + 1
        <5>1. q \in 1..n /\ q - 1 = k
          BY <1>1, <2>1
        <5> HIDE DEF q, first
        <5> QED BY <1>12, <5>1
      <4>6. first(k) \o <<>> = first(k)
        BY <4>5, ConcatEmptySeq
      <4> QED BY <4>1, <4>4, <4>6
    <3> QED BY <2>4, <3>1, <3>2
  <2> HIDE DEF first
  <2> QED BY <2>1, <2>6
<1>16. \A k \in 0 .. n - 1 : k \in T
  <2>1. n - 1 \in Nat
    BY <1>1
  <2> HIDE DEF T
  <2> QED BY <1>14, <1>15, <2>1, CountUp
<1>17. H[m] = first(n)
  <2>1. n \in 1..n /\ n - 1 \in 0 .. n - 1 /\ (n - 1) + 1 = n
    BY <1>1
  <2>2. H[e[(n - 1) + 1] - 1] = first(n - 1)
    BY <1>16, <2>1
  <2> HIDE DEF first
  <2>3. H[e[n] - 1] = first(n - 1)
    BY <2>1, <2>2, Zenon
  <2>4. H[e[n]] = first(n)
    BY <1>13, <2>1, <2>3
  <2> QED BY <1>4, <2>4
<1>18. first(n) = list
  BY <1>1, SubSeqFull DEF n
<1> QED BY <1>5, <1>10, <1>17, <1>18

\* A message without elements has no grants.
LEMMA NoMessageDecodes == UnpackMapIes(BuildMapIes(<<>>)) = <<>>
<1>1. BuildMapIes(<<>>) = <<>>
  BY DEF BuildMapIes
<1>2. Len(<<>>) = 0 /\ 1 .. Len(<<>>) - 1 = 1..0
  OBVIOUS
<1> DEFINE pieces == [i \in 1 .. Len(<<>>) - 1 |->
                        IF <<>>[i].sfid = NoFlow THEN <<>>
                        ELSE <<Grant(<<>>[i].sfid, <<>>[i].offset,
                                     <<>>[i + 1].offset - <<>>[i].offset)>>]
<1>3. pieces = <<>>
  BY <1>2
<1>4. UnpackMapIes(<<>>) = FlattenSeq(pieces)
  BY DEF UnpackMapIes
<1> HIDE DEF pieces
<1>5. FlattenSeq(<<>>) = <<>>
  BY <1>2 DEF FlattenSeq
<1> QED BY <1>1, <1>3, <1>4, <1>5

\* The cable modem reads in every MAP message exactly the grants that were
\* placed: a null element wherever no grant follows at once, one before the
\* first grant unless it starts the MAP, and one behind the last.  The
\* conditions on guaranteed grants are those of GrantsAlwaysPlaced.
THEOREM MessageAlwaysFaithful ==
  ASSUME PgsFits
  PROVE  Spec => []MessageIsFaithful
<1>1. ASSUME NEW list, LieIn(list, 0, MinislotsPerMap)
      PROVE  UnpackMapIes(BuildMapIes(list)) = list
  <2>1. CASE list = <<>>
    BY <2>1, NoMessageDecodes
  <2>2. CASE list # <<>>
    <3>1. PICK e : Encodes(BuildMapIes(list), e, list)
      BY <1>1, <2>2, MessageEncodes
    <3> QED BY <1>1, <2>2, <3>1, MessageDecodes
  <2> QED BY <2>1, <2>2
<1>2. AllPlaced => MessageIsFaithful
  BY <1>1 DEF AllPlaced, MessageIsFaithful, Placed
<1> QED BY <1>2, AlwaysPlaced, PTL
=============================================================================
