-------------------------- MODULE UpstreamScheduler --------------------------
(***************************************************************************)
(* The CMTS upstream scheduler (CmtsUpstreamScheduler) for an aggregate of *)
(* a classic and a low latency service flow: it collects requests, and     *)
(* once per MAP interval divides the minislots of a MAP between proactive  *)
(* grants (PGS) and the requested backlog, shaped by two token buckets.    *)
(* The cable modem is reduced to what it sends back: requests, and the     *)
(* bytes of each MAP's grants that it left unused.                         *)
(***************************************************************************)
EXTENDS Allocation, MapLayout, TLC

CONSTANTS
  FreeMinislots,     \* what CalculateFreeCapacity may return
  PgsMinislots,      \* m_pgsMinislotsPerInterval; 0: no guaranteed grants
  PgsGap,            \* minislots from one PGS grant to the next
  FirstPgs,          \* offset of the first PGS grant, minislots
  MsrIncrement,      \* bytes of m_maxSustainedRate in a MAP interval
  PeakIncrement,     \* bytes of m_peakRate in a MAP interval
  MaxTrafficBurst,   \* m_maxTrafficBurst
  PeakBurst,         \* m_peakRateBurstSize
  RequestSizes,      \* bytes the CM may request at a time
  MaxBacklog,        \* bound of the model: requested bytes of a flow
  MaxOutstanding     \* bound of the model: MAPs the CM has not reported on

ASSUME SchedulerAssumption ==
  /\ MinislotsPerMap \in Nat \ {0}
  /\ FreeMinislots \subseteq 0..MinislotsPerMap /\ FreeMinislots # {}
  /\ PgsMinislots \in Nat /\ PgsGap \in Nat \ {0} /\ FirstPgs \in 0..MinislotsPerMap - 1
  /\ MsrIncrement \in Nat /\ PeakIncrement \in Nat
  /\ MaxTrafficBurst \in Nat /\ PeakBurst \in Nat
  /\ RequestSizes \subseteq Nat \ {0}
  /\ MaxBacklog \in Nat /\ MaxOutstanding \in Nat \ {0}

Flow == {Classic, LowLatency}

VARIABLES
  requests,          \* m_requests: bytes requested and not granted, per flow
  msrTokens,         \* m_tokenBucketState.m_msrTokens
  peakTokens,        \* m_tokenBucketState.m_peakTokens
  accrued,           \* bytes of m_maxSustainedRate since m_lastDrain
  lastPgs,           \* m_lastPgsGrantTime - m_allocStartTime, minislots
  outstanding,       \* per MAP with grants, the bytes of each flow's grants
                     \* whose unused part the CM has not reported
  message            \* the information elements of the last MAP

buckets == <<msrTokens, peakTokens, accrued>>
vars == <<requests, buckets, lastPgs, outstanding, message>>

NoDrain == -1        \* nothing granted since provisioning: m_lastDrain is zero

\* Provisioning (full bucket, no peak tokens) and Start (the first PGS grant
\* is due at FirstPgs of the first MAP).
Init ==
  /\ requests = [f \in Flow |-> 0]
  /\ msrTokens = MaxTrafficBurst /\ peakTokens = 0
  /\ accrued = NoDrain
  /\ lastPgs = FirstPgs - PgsGap
  /\ outstanding = <<>>
  /\ message = <<>>

-----------------------------------------------------------------------------
(* What the cable modem sends.                                             *)

ReceiveRequest(flow, bytes) ==
  /\ requests[flow] + bytes <= MaxBacklog
  /\ requests' = [requests EXCEPT ![flow] = @ + bytes]
  /\ UNCHANGED <<buckets, lastPgs, outstanding, message>>

\* ReceiveUnusedLGrantUpdate, ReceiveUnusedCGrantUpdate: the unused bytes are
\* redeposited, above the bucket's size if need be.
ReceiveUnused(flow) ==
  /\ outstanding # <<>>
  /\ Head(outstanding)[flow] > 0
  /\ \E unused \in 0..Head(outstanding)[flow] : msrTokens' = msrTokens + unused
  /\ LET rest == [Head(outstanding) EXCEPT ![flow] = 0]
     IN  outstanding' = IF \A f \in Flow : rest[f] = 0 THEN Tail(outstanding)
                        ELSE <<rest>> \o Tail(outstanding)
  /\ UNCHANGED <<requests, peakTokens, accrued, lastPgs, message>>

-----------------------------------------------------------------------------
(* The steps of GenerateMap.                                               *)

\* PGS grants that are due in the MAP; none, and none is noted as made, when
\* there is no free minislot.
PgsCount(free) ==
  IF PgsMinislots = 0 \/ free = 0 THEN 0
  ELSE Larger((MinislotsPerMap - 1 - lastPgs) \div PgsGap, 0)

\* A PGS grant keeps the length zero unless it is shorter than the free part.
PgsLength(free) == IF PgsMinislots < free THEN PgsMinislots ELSE 0
PgsGranted(free) == PgsCount(free) * PgsLength(free)
PgsGrants(free) ==
  [i \in 1..PgsCount(free) |-> Grant(LowLatency, lastPgs + i * PgsGap, PgsLength(free))]

\* Mutant: the bucket is not held to the maximum traffic burst.
MsrTokensUncapped == msrTokens + MsrIncrement
\* IncrementTokenBucketCounters
MsrTokens == Smaller(msrTokens + MsrIncrement, MaxTrafficBurst)
PeakTokens == Smaller(peakTokens + PeakIncrement, PeakBurst)
AvailableTokens == Smaller(MsrTokens, PeakTokens)

\* Minislots for each flow's backlog, PGS minislots included.
Allocated(free) ==
  IF AvailableTokens > 0 /\ \E f \in Flow : requests[f] > 0
  THEN Allocate(free, PgsGranted(free), AvailableTokens,
                requests[Classic], requests[LowLatency])
  ELSE [c |-> 0, l |-> 0]

\* Minislots that ScheduleGrant grants to a flow: its allocation, and all PGS
\* grants whatever the tokens.
Scheduled(free, flow) ==
  IF flow = Classic THEN Allocated(free).c
  ELSE Larger(Allocated(free).l, PgsGranted(free))

GrantsMade(free) ==
  PgsCount(free) > 0 \/ \E f \in Flow : Scheduled(free, f) > 0

\* The placements of the grants, one for each random start.
Layouts(free) ==
  IF GrantsMade(free)
  THEN ScheduleGrant(PgsGrants(free), Allocated(free).c, Allocated(free).l)
  ELSE {[left |-> 0, list |-> <<>>]}

\* Bytes of the grants, minislot round-up and PGS included.
Charge(free) == MinislotsToBytes(Scheduled(free, Classic) + Scheduled(free, LowLatency))

\* The rate's bytes since the last drain, up to what a MAP can grant.
Accrued ==
  IF accrued = NoDrain THEN NoDrain
  ELSE Smaller(accrued + MsrIncrement, MinislotsToBytes(MinislotsPerMap))

\* Mutant: the overage is owed to the next MAPs.
DrainBucketsBelowZero(free) ==
  /\ msrTokens' = MsrTokens - Charge(free)
  /\ peakTokens' = Monus(PeakTokens, Charge(free))
  /\ accrued' = IF GrantsMade(free) THEN 0 ELSE Accrued

\* DecrementTokenBucketCounters, if grants are made.
DrainBuckets(free) ==
  IF GrantsMade(free)
  THEN /\ msrTokens' = Monus(MsrTokens, Charge(free))
       /\ peakTokens' = Monus(PeakTokens, Charge(free))
       /\ accrued' = 0
  ELSE /\ msrTokens' = MsrTokens
       /\ peakTokens' = PeakTokens
       /\ accrued' = Accrued

\* "Subtract the full number of bytes granted from the request backlog".
ReduceBacklog(free) ==
  requests' = [f \in Flow |-> Monus(requests[f], MinislotsToBytes(Scheduled(free, f)))]

\* Mutant: the PGS clock is not moved back with the start of the MAP.
AdvancePgsWithoutMap(free) == lastPgs' = lastPgs + PgsCount(free) * PgsGap

\* The PGS clock moves to the last grant made, then back one MAP interval
\* because m_allocStartTime moves on.
AdvancePgs(free) ==
  lastPgs' = IF PgsMinislots = 0 THEN lastPgs
             ELSE lastPgs + PgsCount(free) * PgsGap - MinislotsPerMap

NoteOutstanding(free) ==
  outstanding' =
    IF \A f \in Flow : Scheduled(free, f) = 0 THEN outstanding
    ELSE Append(outstanding, [f \in Flow |-> MinislotsToBytes(Scheduled(free, f))])

\* Decide what the MAP grants and account for it.
ScheduleMap(free) ==
  /\ Len(outstanding) < MaxOutstanding
  /\ ReduceBacklog(free)
  /\ DrainBuckets(free)
  /\ AdvancePgs(free)
  /\ NoteOutstanding(free)

\* Place the grants and send the MAP to the cable modem.
SendMap(free) == \E layout \in Layouts(free) : message' = BuildMapIes(layout.list)

GenerateMap(free) == ScheduleMap(free) /\ SendMap(free)

-----------------------------------------------------------------------------

Next ==
  \/ \E flow \in Flow, bytes \in RequestSizes : ReceiveRequest(flow, bytes)
  \/ \E flow \in Flow : ReceiveUnused(flow)
  \/ \E free \in FreeMinislots : GenerateMap(free)

Spec == Init /\ [][Next]_vars

-----------------------------------------------------------------------------
(* Properties.                                                             *)

TypeOK ==
  /\ requests \in [Flow -> Nat]
  /\ msrTokens \in Nat
  /\ peakTokens \in 0..PeakBurst
  /\ accrued \in Nat \cup {NoDrain}
  /\ lastPgs \in Int
  /\ outstanding \in Seq([Flow -> Nat])

\* Whatever the backlogs, the tokens and the PGS grants, Allocate grants each
\* flow its weighted share or all it asks for, gives what one leaves over to
\* the other, and grants the low latency flow its PGS minislots.
AllocationIsFair ==
  \A free \in FreeMinislots :
    LET pgs   == PgsGranted(free)
        avail == Available(free, AvailableTokens)
        maxC  == MinislotCeil(requests[Classic])
        maxL  == MaxLowLatency(requests[LowLatency], pgs)
    IN  AvailableTokens > 0 /\ (\E f \in Flow : requests[f] > 0) =>
          SplitIsFair(avail, maxC, maxL, pgs, Allocated(free))

\* ScheduleGrant finds room for all that was allocated, so none of its aborts
\* is reached; no two grants overlap or leave the MAP, and what they grant to
\* a flow is what its backlog and the token bucket are charged for.
GrantsArePlaced ==
  \A free \in FreeMinislots : \A layout \in Layouts(free) :
    /\ layout.left = 0
    /\ WellPlaced(layout.list)
    /\ \A f \in Flow : GrantedTo(layout.list, f) = Scheduled(free, f)

\* The cable modem reads in a MAP message the grants that were placed.
MessageIsFaithful ==
  \A free \in FreeMinislots : \A layout \in Layouts(free) :
    UnpackMapIes(BuildMapIes(layout.list)) = layout.list

\* The conformance check of DecrementTokenBucketCounters, which ends the
\* simulation when a MAP grants more than the rate since the last drain and
\* the burst together: redeposited unused bytes and the round-up to minislots
\* never push a grant over it.
WithinTokenLimits ==
  accrued # NoDrain =>
    \A free \in FreeMinislots :
      GrantsMade(free) => Charge(free) <= Accrued + MaxTrafficBurst

\* Rounding up to minislots costs less than one minislot in a MAP, although two
\* flows round up, and only PGS grants exceed the free minislots.
OverageIsSmall ==
  \A free \in FreeMinislots :
    \/ Charge(free) = MinislotsToBytes(PgsGranted(free))
    \/ /\ Charge(free) < AvailableTokens + Capacity
       /\ Charge(free) <= MinislotsToBytes(free)

\* Guaranteed grants neither fall behind nor run ahead: the next one is due in
\* or after the MAP to be made, and the last one lies before it.  The assert
\* of GenerateMap on a negative offset rests on this.
PgsOnTime ==
  PgsMinislots > 0 => lastPgs < 0 /\ lastPgs + PgsGap >= 0

-----------------------------------------------------------------------------
(* Liveness.                                                               *)

\* GenerateMap reschedules itself every MAP interval, and the cable modem
\* reports on every grant.  The placement in the message plays no part in it.
accounts == <<requests, buckets, lastPgs, outstanding>>
Fairness ==
  /\ WF_accounts(\E free \in FreeMinislots : ScheduleMap(free))
  /\ WF_vars(\E flow \in Flow : ReceiveUnused(flow))
FairSpec == Spec /\ Fairness

\* No flow with a backlog waits for ever, however the other one requests.
Served(flow) ==
  []<>(requests[flow] = 0) \/ []<><<requests'[flow] < requests[flow]>>_vars
NoFlowStarves == Served(Classic) /\ Served(LowLatency)
=============================================================================
