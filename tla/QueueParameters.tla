-------------------------- MODULE QueueParameters --------------------------
(***************************************************************************)
(* Service flows as the user writes them (docsis-configuration), and what  *)
(* DualQueueCoupledAqm and QueueProtection make of them: the attributes    *)
(* that a flow's TLVs override, the buffer sizes of CheckConfig, and the   *)
(* thresholds of the immediate AQM.  Rates are kbit/s, sizes bytes, times  *)
(* nanoseconds where no other unit is named.                               *)
(***************************************************************************)
EXTENDS Timing

CONSTANT DisabledTh   \* MaxTh of a disabled IAQM, 10 s in the code
ASSUME DisabledThAssumption == DisabledTh \in Nat /\ DisabledTh > 200000000

Classic == 1          \* CLASSIC_SFID
LowLatency == 2       \* LOW_LATENCY_SFID
None == 0             \* no service flow

\* A service flow with the initial values of its members.
ServiceFlow(sfid) ==
  [sfid |-> sfid, maxSustainedRate |-> 0, peakRate |-> 0, maxTrafficBurst |-> 3044,
   tosOverwrite |-> 0, targetBuffer |-> 0, aqmDisable |-> FALSE, classicAqmTarget |-> 0,
   iaqmMaxThresh |-> 0, iaqmRangeExponent |-> 0,
   guaranteedGrantRate |-> 0, guaranteedGrantInterval |-> 0]
NoFlow == ServiceFlow(None)

AggregateServiceFlow(classic, lowLatency) ==
  [single |-> FALSE, classic |-> classic, lowLatency |-> lowLatency,
   maxSustainedRate |-> 0, peakRate |-> 0, maxTrafficBurst |-> 3044,
   coupled |-> "unspecified", aqmCouplingFactor |-> 255, schedulingWeight |-> 0,
   queueProtectionEnable |-> "unspecified", qpLatencyThreshold |-> 65535,
   qpQueuingScoreThreshold |-> 65535, qpDrainRateExponent |-> 0]

\* A service flow without an aggregate, in the same form: the rates are the
\* flow's, and there is nothing in the aggregate's TLVs.
SingleServiceFlow(sf) ==
  [AggregateServiceFlow(IF sf.sfid = Classic THEN sf ELSE NoFlow,
                        IF sf.sfid = LowLatency THEN sf ELSE NoFlow)
     EXCEPT !.single = TRUE, !.maxSustainedRate = sf.maxSustainedRate,
            !.peakRate = sf.peakRate, !.maxTrafficBurst = sf.maxTrafficBurst]

\* What the user may write: members of these widths, of a flow of either kind
\* ("Only values of 1 and 2 supported") or of none, and of an aggregate.
Uint8 == 0..255
Uint16 == 0..65535
ServiceFlows ==
  {NoFlow} \cup
  [sfid : {Classic, LowLatency}, maxSustainedRate : Nat, peakRate : Nat,
   maxTrafficBurst : Nat, tosOverwrite : Nat, targetBuffer : Nat,
   aqmDisable : BOOLEAN, classicAqmTarget : Uint8,
   iaqmMaxThresh : Uint16, iaqmRangeExponent : Uint8,
   guaranteedGrantRate : Nat, guaranteedGrantInterval : Uint16]
TriStates == {"true", "false", "unspecified"}
AggregateServiceFlows ==
  [single : BOOLEAN, classic : ServiceFlows, lowLatency : ServiceFlows,
   maxSustainedRate : Nat, peakRate : Nat, maxTrafficBurst : Nat,
   coupled : TriStates, aqmCouplingFactor : Uint8, schedulingWeight : Uint8,
   queueProtectionEnable : TriStates, qpLatencyThreshold : Uint16,
   qpQueuingScoreThreshold : Uint16, qpDrainRateExponent : Uint8]

Has(sf) == sf # NoFlow
GetNumServiceFlows(flow) ==
  (IF Has(flow.classic) THEN 1 ELSE 0) + (IF Has(flow.lowLatency) THEN 1 ELSE 0)

\* Mutant: the setters take any flow.
QosUnchecked(flow) == TRUE
\* "QoS parameters on the Low Latency Service Flow are not supported".
QosSupported(flow) ==
  Has(flow.lowLatency) =>
    /\ flow.lowLatency.maxSustainedRate = 0 /\ flow.lowLatency.peakRate = 0
    /\ flow.lowLatency.maxTrafficBurst = 3044

-----------------------------------------------------------------------------
(* The queue's attributes.                                                 *)

\* The attributes' defaults, with the estimator the helper sets.
DefaultQueue(estimator) ==
  [llEstimator |-> estimator, coupled |-> TRUE, couplingFactor |-> 20,
   schedulingWeight |-> 230, maxTh |-> 1000000, minTh |-> 0, lgRange |-> 19,
   maxFrameSize |-> 2000, maxRate |-> 0, classicAqmLatencyTarget |-> 10,
   classicDscpOverwrite |-> 0, lowLatencyDscpOverwrite |-> 0,
   classicBufferSize |-> 0, lowLatencyConfigBufferSize |-> 0,
   vqMapInterval |-> 0, vqFramesPerMap |-> 0, pgsGrantInterval |-> 0,
   qProtectOn |-> TRUE, configureQpLatencyThreshold |-> FALSE,
   qpLatencyThreshold |-> 1000, qpQueuingScoreThreshold |-> 4000,
   qpDrainRateExponent |-> 19]

Override(default, value, unset) == IF value = unset THEN default ELSE value
TriState(default, value) ==
  IF value = "unspecified" THEN default ELSE value = "true"

\* The checkers of LgRange and QpDrainRateExponent end the simulation.
OverridesAreLegal(flow) ==
  flow.lowLatency.iaqmRangeExponent <= 25 /\ flow.qpDrainRateExponent <= 30

\* The TLV processing in DoInitialize: a flow that is not there overrides
\* nothing, as its initial values stand for absent TLVs.
ClassicOverrides(q, sf) ==
  [q EXCEPT
    !.classicDscpOverwrite = Override(@, sf.tosOverwrite, 0),
    !.classicBufferSize = Override(@, sf.targetBuffer, 0),
    !.classicAqmLatencyTarget =
      Override(IF sf.aqmDisable THEN 10000 ELSE @, sf.classicAqmTarget, 0)]
LowLatencyOverrides(q, sf) ==
  [q EXCEPT
    !.lowLatencyDscpOverwrite = Override(@, sf.tosOverwrite, 0),
    !.lowLatencyConfigBufferSize = Override(@, sf.targetBuffer, 0),
    !.maxTh = Override(IF sf.aqmDisable THEN DisabledTh ELSE @, 1000 * sf.iaqmMaxThresh, 0),
    !.lgRange = Override(@, sf.iaqmRangeExponent, 0),
    !.couplingFactor = IF sf.aqmDisable THEN 0 ELSE @]
AggregateOverrides(q, flow) ==
  [q EXCEPT
    !.coupled = TriState(@, flow.coupled),
    !.couplingFactor = Override(@, flow.aqmCouplingFactor, 255),
    !.schedulingWeight = Override(@, flow.schedulingWeight, 0),
    !.qProtectOn = TriState(@, flow.queueProtectionEnable),
    !.configureQpLatencyThreshold = @ \/ flow.qpLatencyThreshold # 65535,
    !.qpLatencyThreshold = Override(@, flow.qpLatencyThreshold, 65535),
    !.qpQueuingScoreThreshold = Override(@, flow.qpQueuingScoreThreshold, 65535),
    !.qpDrainRateExponent = Override(@, flow.qpDrainRateExponent, 0)]
\* The order matters: an aggregate's coupling factor overrides the 0 of a
\* disabled AQM.
ApplyOverrides(q, flow) ==
  AggregateOverrides(
    LowLatencyOverrides(ClassicOverrides(q, flow.classic), flow.lowLatency), flow)

-----------------------------------------------------------------------------
(* CheckConfig: the sizes of the internal queues.                          *)

\* The rate D of equation (4) in C.1.2.17.
BufferRate(flow) ==
  LET sf == flow.classic
  IN  IF ~flow.single /\ sf.maxSustainedRate = 0 /\ sf.peakRate = 0
      THEN flow.maxSustainedRate
      ELSE Larger(sf.peakRate, sf.maxSustainedRate)

\* 100 ms of that rate for the classic queue; 10 ms of the aggregate's rate,
\* and 20 frames at least, for the low latency queue.
CheckConfig(q, flow) ==
  [q EXCEPT
    !.classicBufferSize = Override((25 * BufferRate(flow)) \div 2, @, 0),
    !.lowLatencyConfigBufferSize =
      Override(Larger(IF flow.single THEN 0 ELSE (5 * flow.maxSustainedRate) \div 4,
                      20 * q.maxFrameSize), @, 0)]

-----------------------------------------------------------------------------
(* InitializeParams: thresholds of the immediate AQM.                      *)

MaxTh == 65535000     \* the largest threshold that a TLV can express

\* MAX_RATE: the smaller of the limits that are set.
MaxRate(flow) ==
  LET amsr == IF flow.single THEN 0 ELSE flow.maxSustainedRate
      msrL == IF flow.single THEN 0 ELSE flow.lowLatency.maxSustainedRate
  IN  IF amsr = 0 THEN msrL ELSE IF msrL = 0 THEN amsr ELSE Smaller(amsr, msrL)

\* Mutant: the floor of a slow link may pass the largest threshold.
FloorUncapped(maxRate, maxFrameSize) ==
  IF maxRate = 0 THEN 0 ELSE MulDiv(16000 * maxFrameSize, 1000, maxRate)
\* "Minimum marking threshold of 2 MTU for slow links".
Floor(maxRate, maxFrameSize) ==
  IF maxRate = 0 THEN 0
  ELSE Smaller(MaxTh, MulDiv(16000 * maxFrameSize, 1000, maxRate))

\* m_pgsGrantInterval in microseconds: whole frames, of whole microseconds.
PgsGrantInterval(q, flow) ==
  LET interval == q.vqMapInterval \div 1000
      frame    == interval \div q.vqFramesPerMap
      ggi      == Override(interval, flow.lowLatency.guaranteedGrantInterval, 0)
  IN  IF q.llEstimator = "QDelayCoupledV" /\ ~flow.single /\ Has(flow.lowLatency)
         /\ q.vqFramesPerMap > 0 /\ q.vqMapInterval > 0
      THEN (ggi \div frame) * frame ELSE q.pgsGrantInterval

InitializeParams(q, flow) ==
  LET range == 2 ^ q.lgRange
      minTh == Larger(q.maxTh - range, Floor(MaxRate(flow), q.maxFrameSize))
  IN  [q EXCEPT !.maxRate = MaxRate(flow), !.minTh = minTh,
                !.maxTh = Smaller(minTh + range, MaxTh),
                !.pgsGrantInterval = PgsGrantInterval(q, flow)]

\* CalcProbNative as a fraction: <<numerator, denominator>>.
CalcProbNative(q, qDelay) ==
  IF qDelay >= q.maxTh THEN <<1, 1>>
  ELSE IF qDelay > q.minTh THEN <<qDelay - q.minTh, q.maxTh - q.minTh>>
  ELSE <<0, 1>>

\* GetCriticalQl of the queue protection.
GetCriticalQl(q) ==
  IF q.configureQpLatencyThreshold THEN q.qpLatencyThreshold * 1000 ELSE q.maxTh
GetCriticalQlScore(q, tRes) == (q.qpQueuingScoreThreshold * 1000) \div tRes
=============================================================================
