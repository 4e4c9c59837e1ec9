---------------------------- MODULE Configuration ----------------------------
(***************************************************************************)
(* From the helper's Install to the first MAP: the user gives each device  *)
(* its service flows, and DoInitialize of the two devices, in the order of *)
(* their nodes, hands them to the scheduler and to the dual queues and     *)
(* derives every parameter from them and from the physical layer.  A       *)
(* service flow is an object that more than one party may hold, and one of *)
(* them changes it.  An NS_ABORT ends the simulation (aborted).            *)
(***************************************************************************)
EXTENDS QueueParameters, FiniteSets

CONSTANTS
  Cases,            \* initial configurations, see CaseAssumption
  Distances,        \* what SetMaximumDistance may be called with
  MeanPacketSize,   \* m_meanPacketSize of the scheduler
  UsMacHdrSize,     \* m_usMacHdrSize of the cable modem
  DsSymbolCapacity, \* GetDsSymbolCapacity of the CMTS
  MaxPdu,           \* m_maxPdu of the CMTS
  FirstPgsGrantFrameOffset

Cm == "cm"
Cmts == "cmts"
Devices == {Cm, Cmts}
Nobody == "nobody"

ASSUME SizeAssumption ==
  /\ MeanPacketSize \in Nat \ {0} /\ UsMacHdrSize \in Nat /\ MaxPdu \in Nat
  /\ DsSymbolCapacity \in Nat /\ FirstPgsGrantFrameOffset \in Nat

\* A MAP interval shorter than half a frame, for which StartScheduler never
\* ends, and a channel narrower than a minislot are not configurations.
ASSUME CaseAssumption ==
  \A k \in Cases : /\ AttributesChecked(k.phy)
                    /\ MinislotsPerFrame(k.phy) > 0 /\ FramesPerMap(k.phy) > 0
ASSUME FlowAssumption ==
  \A k \in Cases : {k.upstream, k.downstream} \subseteq AggregateServiceFlows
ASSUME DistanceAssumption == Distances \subseteq ChannelLengths

VARIABLES
  phy,           \* the physical attributes of each device
  object,        \* the AggregateServiceFlow or ServiceFlow made for each device
  given,         \* whose object the device has in m_asf or m_sf
  ready,         \* IsInitialized
  queue,         \* the dual queue of each device
  scheduler,     \* CmtsUpstreamScheduler
  device,        \* what DoInitialize computes for the device itself
  channelDelay,  \* the channel's Delay attribute
  aborted,
  configured     \* history: the objects as the user made them

setup == <<phy, object, given, channelDelay>>
vars == <<setup, ready, queue, scheduler, device, aborted, configured>>

Unprovisioned ==
  [flow |-> AggregateServiceFlow(NoFlow, NoFlow), schedulingWeight |-> 230, msrTokens |-> 0, started |-> FALSE,
   allocStartTime |-> 0, minReqGntDelaySlots |-> 0, pgsFrameInterval |-> 0,
   pgsBytesPerInterval |-> 0, pgsMinislotsPerInterval |-> 0,
   excessPgsBytesPerInterval |-> 0, lastPgsGrantTime |-> 0]

\* Install: the devices are attached to one channel, the CMTS estimates the
\* low latency delay from the queue and the cable modem from a virtual queue.
Init ==
  \E k \in Cases :
    /\ phy = [d \in Devices |-> k.phy]
    /\ object = [d \in Devices |-> IF d = Cm THEN k.upstream ELSE k.downstream]
    /\ configured = object
    /\ given = [d \in Devices |-> Nobody]
    /\ ready = [d \in Devices |-> FALSE]
    /\ queue = [d \in Devices |->
                  DefaultQueue(IF d = Cm THEN "QDelayCoupledV" ELSE "QDelayCoupledL")]
    /\ scheduler = Unprovisioned
    /\ device = [d \in Devices |-> [deviceQueueSize |-> 0]]
    /\ channelDelay = 0
    /\ aborted = FALSE

Abort ==
  /\ aborted' = TRUE
  /\ UNCHANGED <<setup, ready, queue, scheduler, device, configured>>

-----------------------------------------------------------------------------
(* Calls of the user before the simulation starts.                         *)

\* SetUpstreamAsf, SetUpstreamSf, SetDownstreamAsf, SetDownstreamSf
SetFlow(d, owner) ==
  /\ ~aborted
  /\ IF \/ ready[d]
        \/ given[d] # Nobody /\ object[given[d]].single # object[owner].single
        \/ ~QosSupported(object[owner])
     THEN Abort
     ELSE /\ given' = [given EXCEPT ![d] = owner]
          /\ UNCHANGED <<phy, object, channelDelay>>
          /\ UNCHANGED <<ready, queue, scheduler, device, aborted, configured>>

\* Both devices are attached, so the channel follows the last call.
SetMaximumDistance(d, distance) ==
  /\ ~aborted /\ ~ready[d]
  /\ phy' = [phy EXCEPT ![d].maximumDistance = distance]
  /\ channelDelay' = Rtt(phy'[d]) \div 2
  /\ UNCHANGED <<object, given>>
  /\ UNCHANGED <<ready, queue, scheduler, device, aborted, configured>>

-----------------------------------------------------------------------------
(* DoInitialize.                                                           *)

\* The checks of DocsisNetDevice::DoInitialize and of the common part.
PhyIsLegal(c) ==
  /\ c.usScSpacing = 50000 => c.numUsSc <= 1900
  /\ c.dsScSpacing = 50000 => c.numDsSc <= 3745
  /\ c.dsScSpacing = 25000 => c.dsIntlvM <= 16
  /\ c.ncpModulation \in {2, 4, 6}

\* A single service flow, or an aggregate of one; an aggregate of none is not.
OneFlow(flow) == flow.single \/ GetNumServiceFlows(flow) = 1

\* Coupled is off for one service flow, before the TLVs may change it; the
\* queue refuses a single low latency flow.
AttachFlow(q, flow) ==
  ApplyOverrides([q EXCEPT !.coupled = @ /\ ~OneFlow(flow)], flow)
QueueAccepts(flow) ==
  ~(flow.single /\ Has(flow.lowLatency)) /\ OverridesAreLegal(flow)
InitializeQueue(q, flow) == InitializeParams(CheckConfig(q, flow), flow)

\* "MSR_to_use = MSR_Configured*(MeanPktSize + DOCSISHeaderSize)/MeanPktSize"
Scaled(rate) == (rate * (MeanPacketSize + UsMacHdrSize)) \div MeanPacketSize
ScaleRates(flow) ==
  IF flow.single /\ Has(flow.classic)
  THEN [flow EXCEPT !.maxSustainedRate = Scaled(@), !.peakRate = Scaled(@),
                    !.classic.maxSustainedRate = Scaled(@), !.classic.peakRate = Scaled(@)]
  ELSE [flow EXCEPT !.maxSustainedRate = Scaled(@), !.peakRate = Scaled(@)]

\* Mutant: the aggregate is not copied before its rates are changed.
ProvisionInPlace(owner) ==
  /\ scheduler' = [scheduler EXCEPT
       !.flow = ScaleRates(object[owner]),
       !.schedulingWeight = Override(@, object[owner].schedulingWeight, 0),
       !.msrTokens = object[owner].maxTrafficBurst]
  /\ object' = [object EXCEPT ![owner] = ScaleRates(@)]
\* ProvisionAggregateServiceFlow scales a copy, ProvisionSingleServiceFlow the
\* object itself.
Provision(owner) ==
  /\ scheduler' = [scheduler EXCEPT
       !.flow = ScaleRates(object[owner]),
       !.schedulingWeight = Override(@, object[owner].schedulingWeight, 0),
       !.msrTokens = object[owner].maxTrafficBurst]
  /\ object' = IF object[owner].single
               THEN [object EXCEPT ![owner] = ScaleRates(@)] ELSE object

\* "Negative latency" of a MAP
MapLatency(c) == MinReqGntDelay(c) * FrameDuration(c) - CmMapProcTime(c)

\* When the contention request of each MAP interval before the first
\* allocation may be sent: at a frame drawn at random.
StartupRequests(c) ==
  [i \in 1..FirstMapInterval(c) |->
     {(i - 1) * ActualMapInterval(c) + f * FrameDuration(c) : f \in 0 .. FramesPerMap(c) - 1}]

InitializeCm ==
  /\ ~aborted /\ ~ready[Cm]
  /\ IF \/ ~PhyIsLegal(phy[Cm]) \/ given[Cm] = Nobody
        \/ MapLatency(phy[Cm]) <= 0 \/ ~QueueAccepts(object[given[Cm]])
     THEN Abort
     ELSE LET c == phy[Cm] IN
       /\ channelDelay' = Rtt(c) \div 2
       /\ Provision(given[Cm])
       /\ LET flow == object'[given[Cm]]
              q    == [AttachFlow(queue[Cm], flow) EXCEPT
                         !.vqMapInterval = ActualMapInterval(c),
                         !.vqFramesPerMap = FramesPerMap(c)]
          IN  /\ queue' = [queue EXCEPT ![Cm] = InitializeQueue(q, flow)]
              /\ device' = [device EXCEPT ![Cm] =
                   [deviceQueueSize |->
                      2 * FramesPerMap(c) * MinislotCapacity(c) * MinislotsPerFrame(c),
                    msrTokens |-> IF Has(flow.classic) THEN flow.classic.maxTrafficBurst ELSE 0,
                    startupRequests |-> StartupRequests(c)]]
       /\ ready' = [ready EXCEPT ![Cm] = TRUE]
       /\ UNCHANGED <<phy, given, aborted, configured>>

InitializeCmts ==
  /\ ~aborted /\ ~ready[Cmts]
  /\ IF \/ ~PhyIsLegal(phy[Cmts]) \/ given[Cmts] = Nobody
        \/ ~QueueAccepts(object[given[Cmts]])
     THEN Abort
     ELSE LET c    == phy[Cmts]
              flow == object[given[Cmts]]
              q    == InitializeQueue(AttachFlow(queue[Cmts], flow), flow)
          IN
       /\ channelDelay' = Rtt(c) \div 2
       /\ queue' = [queue EXCEPT ![Cmts] = [q EXCEPT !.vqMapInterval = ActualMapInterval(c)]]
       /\ device' = [device EXCEPT ![Cmts] =
            [maxSustainedRate |-> flow.maxSustainedRate, peakRate |-> flow.peakRate,
             maxTrafficBurst |-> flow.maxTrafficBurst,
             deviceQueueSize |-> Larger(3 * DsSymbolCapacity, 3 * 1518),
             freeCapacityMean |-> flow.peakRate,
             reqCount |-> c.cmtsDsPipelineFactor + 1,
             msrTokens |-> flow.maxTrafficBurst, peakTokens |-> MaxPdu]]
       /\ ready' = [ready EXCEPT ![Cmts] = TRUE]
       /\ UNCHANGED <<phy, object, given, scheduler, aborted, configured>>

-----------------------------------------------------------------------------
(* CmtsUpstreamScheduler::Start, which StartScheduler has scheduled.       *)

\* The frame in microseconds, truncated, as the grants' interval counts it.
FrameIntervalUs(c) == (ActualMapInterval(c) \div 1000) \div FramesPerMap(c)

\* The guaranteed grants of a flow, from its TLVs.
Pgs(c, sf) ==
  LET ggi       == Override(ActualMapInterval(c) \div 1000, sf.guaranteedGrantInterval, 0)
      frames    == ggi \div FrameIntervalUs(c)
      bytes     == CeilDiv(Scaled(sf.guaranteedGrantRate) * (frames * FrameIntervalUs(c)), 8000)
      minislots == MinislotCeil(c, bytes)
  IN  [pgsFrameInterval |-> frames, pgsBytesPerInterval |-> bytes,
       pgsMinislotsPerInterval |-> minislots,
       excessPgsBytesPerInterval |-> MinislotsToBytes(c, minislots) - bytes,
       lastPgsGrantTime |-> FirstAllocStartTime(c)
         + FirstPgsGrantFrameOffset * MinislotsPerFrame(c) - frames * MinislotsPerFrame(c)]

StartScheduler ==
  LET c   == phy[Cm]
      sf  == scheduler.flow.lowLatency
      pgs == Pgs(c, sf)
      started == [scheduler EXCEPT !.started = TRUE,
                    !.allocStartTime = FirstAllocStartTime(c),
                    !.minReqGntDelaySlots = MinReqGntDelaySlots(c)]
  IN  /\ ~aborted /\ \A d \in Devices : ready[d]
      /\ ~scheduler.started
      /\ IF sf.guaranteedGrantRate > 0
            /\ \/ pgs.pgsFrameInterval = 0
               \/ FirstPgsGrantFrameOffset >= FramesPerMap(c)
               \/ pgs.lastPgsGrantTime < 0
         THEN Abort
         ELSE /\ scheduler' = IF sf.guaranteedGrantRate = 0 THEN started
                              ELSE [started EXCEPT
                !.pgsFrameInterval = pgs.pgsFrameInterval,
                !.pgsBytesPerInterval = pgs.pgsBytesPerInterval,
                !.pgsMinislotsPerInterval = pgs.pgsMinislotsPerInterval,
                !.excessPgsBytesPerInterval = pgs.excessPgsBytesPerInterval,
                !.lastPgsGrantTime = pgs.lastPgsGrantTime]
              /\ UNCHANGED <<setup, ready, queue, device, aborted, configured>>

-----------------------------------------------------------------------------

\* The downstream may be given the object made for the upstream as well.
Next ==
  \/ SetFlow(Cm, Cm)
  \/ \E owner \in Devices : SetFlow(Cmts, owner)
  \/ \E d \in Devices, distance \in Distances : SetMaximumDistance(d, distance)
  \/ InitializeCm
  \/ InitializeCmts
  \/ StartScheduler

Spec == Init /\ [][Next]_vars

-----------------------------------------------------------------------------
(* Properties.                                                             *)

\* What a device has been given is fit for use: no rate of its own for a low
\* latency flow, and nothing computed from it is negative.
TypeOK ==
  /\ given \in [Devices -> Devices \cup {Nobody}]
  /\ ready \in [Devices -> BOOLEAN] /\ aborted \in BOOLEAN
  /\ channelDelay \in Nat
  /\ scheduler.allocStartTime \in Nat /\ scheduler.lastPgsGrantTime \in Nat
  /\ scheduler.excessPgsBytesPerInterval \in Nat
  /\ \A d \in Devices :
       /\ given[d] # Nobody =>
            LET sf == object[given[d]].lowLatency
            IN  sf.maxSustainedRate = 0 /\ sf.peakRate = 0
       /\ queue[d].minTh \in Nat /\ queue[d].maxTh \in Nat
       /\ device[d].deviceQueueSize \in Nat

Leq(p, r) ==   \* of two values of CalcProbNative
  p[1] = 0 \/ r[1] = r[2] \/ (p[2] = r[2] /\ p[1] <= r[1])
Delays(q) ==
  {0, q.minTh, q.minTh + 1, q.maxTh - 1, q.maxTh, MaxTh}

\* The default of the attribute, or the TLV.
ConfiguredMaxTh(flow) == Override(1000000, 1000 * flow.lowLatency.iaqmMaxThresh, 0)

\* Whatever the TLVs and the rates, while the immediate AQM is not disabled:
\* no threshold is beyond MaxTh, the one that is in force is never below the
\* one that was configured, the ramp runs upwards, the marking probability is
\* a probability and grows with the delay, and the queue protection protects
\* the threshold in force unless the TLV configures another latency.  A
\* disabled AQM and a QPLatencyThreshold of zero are not what their texts say
\* (README, section 5) and are left out.
RampIsSane ==
  \A d \in Devices : ready[d] /\ ~configured[given[d]].lowLatency.aqmDisable =>
    LET q == queue[d]
        flow == configured[given[d]]
    IN  /\ ConfiguredMaxTh(flow) <= q.maxTh /\ q.maxTh <= MaxTh
        /\ \/ q.maxTh = q.minTh + 2 ^ q.lgRange
           \/ q.maxTh = MaxTh /\ q.minTh <= MaxTh
        /\ \A s \in Delays(q) :
             LET p == CalcProbNative(q, s) IN p[2] > 0 /\ p[1] \in 0..p[2]
        /\ \A s, t \in Delays(q) :
             s <= t => Leq(CalcProbNative(q, s), CalcProbNative(q, t))
        /\ flow.qpLatencyThreshold # 0 =>
             GetCriticalQl(q) = IF flow.qpLatencyThreshold = 65535 THEN q.maxTh
                                ELSE 1000 * flow.qpLatencyThreshold

\* The schedule that the cable modem's attributes give: the first MAP is made
\* neither in the past nor for a negative Ack Time, every MAP reaches the
\* modem its processing time before the allocation starts, requests up to the
\* Ack Time are known when it is made but for Lateness, and before the first
\* MAP there is a contention request in each MAP interval, before its end.
MapsAreOnTime ==
  ready[Cm] =>
    LET c == phy[Cm] IN
    /\ FirstGenerateMapTime(c) >= 0
    /\ \A n \in 0..2 :
         LET start == MinislotsToTime(c, AllocStartTime(c, n))
             ack   == MinislotsToTime(c, AckTime(c, n))
         IN  /\ AckTime(c, n) >= 0
             /\ MapArrivalTime(c, n) = start - CmMapProcTime(c)
             /\ MapArrivalTime(c, n) > ack
             /\ ack + RequestDelay(c) <= GenerateMapTime(c, n) + Lateness(c)
    /\ LET requests == device[Cm].startupRequests IN
       /\ Cardinality(DOMAIN requests) * ActualMapInterval(c)
            = MinislotsToTime(c, FirstAllocStartTime(c))
       /\ \A i \in DOMAIN requests : \A t \in requests[i] :
            (i - 1) * ActualMapInterval(c) <= t /\ t < i * ActualMapInterval(c)

\* Parties that hold the same service flow use it alike: the scheduler's rates
\* are the configured ones scaled once, the queue's rate, the weights of queue
\* and scheduler, the intervals of guaranteed grants and the channel's delay
\* match, one flow by itself is not coupled and others are but for a TLV, a
\* configured interval of guaranteed grants is overshot by no more than the
\* truncation of a frame, and the downstream keeps its configured rate unless
\* it was given the upstream's single flow.
SidesAgree ==
  /\ ready[Cm] =>
       LET flow == configured[given[Cm]]
           sides == scheduler.flow
       IN  /\ sides.maxSustainedRate = Scaled(flow.maxSustainedRate)
           /\ sides.peakRate = Scaled(flow.peakRate)
           /\ sides.lowLatency = flow.lowLatency
           /\ ~flow.single => queue[Cm].maxRate = flow.maxSustainedRate
           /\ queue[Cm].schedulingWeight = scheduler.schedulingWeight
           /\ queue[Cm].coupled <=>
                \/ flow.coupled = "true"
                \/ flow.coupled = "unspecified" /\ ~OneFlow(flow)
  /\ ready[Cmts] =>
       LET flow == configured[given[Cmts]] IN
       given[Cmts] = Cmts \/ ~flow.single =>
         /\ device[Cmts].maxSustainedRate = flow.maxSustainedRate
         /\ device[Cmts].peakRate = flow.peakRate
  /\ scheduler.started /\ scheduler.flow.lowLatency.guaranteedGrantRate > 0 =>
       LET c == phy[Cm]
           frames == scheduler.pgsFrameInterval
           ggi == scheduler.flow.lowLatency.guaranteedGrantInterval
       IN  /\ queue[Cm].pgsGrantInterval = frames * FrameIntervalUs(c)
           /\ ggi # 0 => frames * FrameDuration(c) < 1000 * (ggi + frames)
  /\ (\A d \in Devices : ready[d]) /\ phy[Cm].maximumDistance = phy[Cmts].maximumDistance
       => \A d \in Devices : channelDelay = Rtt(phy[d]) \div 2
=============================================================================
