----------------------------- MODULE CmUpstream -----------------------------
(***************************************************************************)
(* The upstream of the cable modem (CmNetDevice), for the classic and the  *)
(* low latency service flow, with the scheduler that serves them reduced   *)
(* to the MAPs it may issue.                                               *)
(*                                                                         *)
(* Everything the CM does is a simulator event, kept in `agenda'.  Times   *)
(* are ticks from now, so AdvanceTime subtracts; the only other source of  *)
(* steps is SendFrom, the arrival of a packet from the node, which may     *)
(* fall between any two events.                                            *)
(***************************************************************************)
EXTENDS EventList

CONSTANTS
  Flows,               \* the provisioned service flows
  FrameTicks,          \* GetFrameDuration
  FramesPerMap,        \* GetFramesPerMap
  MinislotsPerFrame,   \* GetMinislotsPerFrame
  Capacity,            \* GetMinislotCapacity, bytes
  ProcTicks,           \* GetCmMapProcTime
  PrepTicks,           \* m_burstPreparationTime
  RequestTicks,        \* requestDelay of MakeRequest
  MapTicks,            \* mapMessageArrivalDelay of GenerateMap
  StartupMaps,         \* MAP intervals before the first one a MAP describes
  Layouts,             \* the grants a MAP may give: flow to grant list
  Sizes,               \* MAC frame sizes of arriving packets, bytes
  MaxUnsent,           \* bound of the model: bytes a flow's AQM and device hold
  MaxBacklog,          \* bound of the model: no arrivals above this backlog
  Rate,                \* m_maxSustainedRate in bytes per tick; 0: no shaping
  PeakRate,            \* m_peakRate in bytes per tick; 0: no peak limit
  MaxTrafficBurst,     \* m_maxTrafficBurst, bytes
  DefaultBurst         \* burst UpdateTokenBucket assumes when that is zero

CLASSIC_SFID     == 1
LOW_LATENCY_SFID == 2

ASSUME FlowAssumption ==
  Flows \in {{CLASSIC_SFID}, {CLASSIC_SFID, LOW_LATENCY_SFID}}

ASSUME TimingAssumption ==
  /\ FrameTicks \in Nat /\ FrameTicks > 1
  /\ FramesPerMap \in Nat \ {0} /\ MinislotsPerFrame \in Nat \ {0}
  /\ Capacity \in Nat \ {0} /\ StartupMaps \in Nat \ {0}
  /\ ProcTicks \in Nat /\ PrepTicks \in 0..ProcTicks
  /\ RequestTicks \in Nat /\ MapTicks \in Nat
  /\ MapTicks + ProcTicks <= StartupMaps * FramesPerMap * FrameTicks

ASSUME TrafficAssumption ==
  /\ Sizes \subseteq Nat \ {0}
  /\ MaxUnsent \in Nat /\ MaxBacklog \in Nat
  /\ Rate \in Nat /\ PeakRate \in Nat
  /\ MaxTrafficBurst \in Nat /\ DefaultBurst \in Nat

\* Each is kept per flow, but for the shaper, the simulator and its events.
VARIABLES
  aqm,                 \* MAC frame sizes in the flow's queue of the dual queue
  device,              \* MAC frame sizes in the staging queue (m_cQueue, m_lQueue)
  frag,                \* the partly sent packet (m_cFragment, m_lFragment)
  requestPipeline,     \* m_cRequestPipeline.GetTotal(), m_lRequestPipeline
  grantPipeline,       \* m_cGrantPipeline: grants whose burst is not prepared
  transmitPipeline,    \* m_cTransmitPipeline: bytes and the frame that may send
  mapState,            \* m_cMapState, m_lMapState
  msrTokens,           \* m_msrTokens of the shaper of classic requests
  sinceUpdate,         \* Now - m_lastUpdateTime
  backlog,             \* m_requests of the scheduler
  agenda,              \* the simulator's event list
  usedInMap            \* history: bytes sent since the last LoadMapState

queues    == <<aqm, device, frag>>
pipelines == <<requestPipeline, grantPipeline, transmitPipeline>>
shaper    == <<msrTokens, sinceUpdate>>
vars == <<queues, pipelines, mapState, shaper, backlog, agenda, usedInMap>>

-----------------------------------------------------------------------------
(* Bytes and grants.                                                       *)

TotalOf(pipe) == SumSeq([i \in DOMAIN pipe |-> pipe[i].bytes])

\* CmPipeline::GetEligible(Now): bytes whose time has come.
GetEligible(pipe) ==
  SumSeq([i \in DOMAIN pipe |-> IF pipe[i].in <= 0 THEN pipe[i].bytes ELSE 0])

\* CmPipeline::Remove(value): take value bytes off the front, trimming.
TakeFrom(acc, e) ==
  IF acc.left = 0 \/ e.bytes > acc.left
  THEN [left |-> 0, out |-> Append(acc.out, [e EXCEPT !.bytes = @ - acc.left])]
  ELSE [acc EXCEPT !.left = @ - e.bytes]
RemoveBytes(pipe, value) ==
  FoldLeft(TakeFrom, [left |-> value, out |-> <<>>], pipe).out

NoFragment == [size |-> 0, sent |-> 0]

\* The counter the AQM's trace callbacks keep (m_cAqmFramedBytes).
AqmBytes(f) == SumSeq(aqm[f])

\* GetCDeviceBytes, GetLDeviceBytes: the fragment's rest and the staging queue.
DeviceBytes(f) == SumSeq(device[f]) + frag[f].size - frag[f].sent
Unsent(f) == AqmBytes(f) + DeviceBytes(f)

MinislotsToBytes(n) == n * Capacity
MinislotsPerMap == FramesPerMap * MinislotsPerFrame

\* The grants of a MAP follow each other and lie in it (GrantsArePlaced of
\* UpstreamScheduler).
ASSUME LayoutAssumption ==
  \A layout \in Layouts :
    /\ DOMAIN layout = Flows
    /\ \A f \in Flows :
         /\ layout[f] \in Seq([offset : Nat, length : Nat \ {0}])
         /\ \A i \in DOMAIN layout[f] :
              layout[f][i].offset + layout[f][i].length <= MinislotsPerMap
         /\ \A i, j \in DOMAIN layout[f] :
              i < j => layout[f][i].offset + layout[f][i].length <= layout[f][j].offset

DeviceQueueSizeOneMap == MinislotsToBytes(MinislotsPerMap)   \* mutant
DeviceQueueSize == 2 * MinislotsToBytes(MinislotsPerMap)
GetFrameForMinislot(offset) == offset \div MinislotsPerFrame
GrantedMinislots(grants) == SumSeq([i \in DOMAIN grants |-> grants[i].length])
GrantedBytes(grants) == MinislotsToBytes(GrantedMinislots(grants))

Due(name) == HeadIsDue(agenda, name)
DueFor(name, f) == Due(name) /\ Head(agenda).arg.sfid = f
Arg == Head(agenda).arg
Rest == Tail(agenda)
FlowEvent(delay, name, f, n) == Event(delay, name, [sfid |-> f, n |-> n])

PendingBytes(name, bytesOf(_)) ==
  SumSeq([i \in DOMAIN agenda |->
            IF agenda[i].event = name THEN bytesOf(agenda[i].arg) ELSE 0])

-----------------------------------------------------------------------------
(* Start of the simulation and the passing of time.                        *)

MapInterval == FramesPerMap * FrameTicks
RequestOffsets == {f * FrameTicks : f \in 0..FramesPerMap - 1}
FirstGenerateMap == StartupMaps * MapInterval - ProcTicks - MapTicks

\* The startup requests of a flow: one per MAP interval until the first
\* interval that a MAP can describe.
StartupRequests(f, offset) ==
  [i \in 1..StartupMaps |->
     FlowEvent((i - 1) * MapInterval + offset[i], "MakeRequest", f, 0)]

ForAllFlows(value) == [f \in Flows |-> value]

\* The events of all flows, those of the classic flow first.
InFlowOrder(events) ==
  events[CLASSIC_SFID] \o IF LOW_LATENCY_SFID \in Flows THEN events[LOW_LATENCY_SFID]
                                                      ELSE <<>>

\* DoInitialize with StartScheduler.
Init ==
  /\ aqm = ForAllFlows(<<>>) /\ device = ForAllFlows(<<>>)
  /\ frag = ForAllFlows(NoFragment)
  /\ requestPipeline = ForAllFlows(0)
  /\ grantPipeline = ForAllFlows(<<>>) /\ transmitPipeline = ForAllFlows(<<>>)
  /\ mapState = ForAllFlows([granted |-> 0, unused |-> 0])
  /\ msrTokens = MaxTrafficBurst /\ sinceUpdate = 0
  /\ backlog = ForAllFlows(0)
  /\ usedInMap = ForAllFlows(0)
  /\ \E offset \in [Flows -> [1..StartupMaps -> RequestOffsets]] :
       agenda = ScheduleAll(<<Event(FirstGenerateMap, "GenerateMap", 0)>>,
                  InFlowOrder([f \in Flows |-> StartupRequests(f, offset[f])]))

EffectiveBurst ==
  IF MaxTrafficBurst = 0 THEN DefaultBurst ELSE MaxTrafficBurst

\* Ticks after which both buckets of the shaper are full whatever they held.
FullAfter ==
  IF Rate = 0 THEN 0
  ELSE Max({EffectiveBurst \div Rate + 1,
            IF PeakRate = 0 THEN 0 ELSE MaxUnsent \div PeakRate + 1})

\* A pipeline when `ticks' have passed; what is eligible stays so.
Aged(pipe, ticks) ==
  [i \in DOMAIN pipe |-> [pipe[i] EXCEPT !.in = Max({@ - ticks, 0})]]

AdvanceTime ==
  /\ agenda # <<>>
  /\ LET ticks == Head(agenda).in
     IN /\ ticks > 0
        /\ agenda' = Later(agenda, ticks)
        /\ grantPipeline' = [f \in Flows |-> Later(grantPipeline[f], ticks)]
        /\ transmitPipeline' = [f \in Flows |-> Aged(transmitPipeline[f], ticks)]
        /\ sinceUpdate' = Min({sinceUpdate + ticks, FullAfter})
  /\ UNCHANGED <<queues, requestPipeline, mapState, msrTokens, backlog, usedInMap>>

\* A packet that the dual queue accepts; one that it drops changes nothing.
SendFrom(f, size) ==
  /\ Unsent(f) + size <= MaxUnsent
  /\ backlog[f] <= MaxBacklog
  /\ aqm' = [aqm EXCEPT ![f] = Append(@, size)]
  /\ UNCHANGED <<device, frag, pipelines, mapState, shaper, backlog, agenda, usedInMap>>

-----------------------------------------------------------------------------
(* Requests.                                                               *)

\* What the CM has to ask for: all it holds, less what it asked for already
\* and less the next grant.
GrantInFront(f) == IF grantPipeline[f] = <<>> THEN 0 ELSE Head(grantPipeline[f]).bytes
NewRequestOverGrant(f) == Unsent(f) - requestPipeline[f]   \* mutant: next grant forgotten
NewRequest(f) == Unsent(f) - (requestPipeline[f] + GrantInFront(f))

\* ShapeRequest after UpdateTokenBucket: <<shaped request, tokens left>>.
ShapeRequest(request) ==
  LET tokens == Min({msrTokens + sinceUpdate * Rate, EffectiveBurst})
      peak   == IF PeakRate = 0 THEN request ELSE sinceUpdate * PeakRate
      shaped == Min({request, tokens, peak})
  IN  <<shaped, tokens - shaped>>

\* A request of `bytes' leaves for the scheduler.
SendRequest(f, bytes) ==
  /\ requestPipeline' = [requestPipeline EXCEPT ![f] = @ + bytes]
  /\ agenda' = Schedule(Rest, FlowEvent(RequestTicks, "ReceiveRequest", f, bytes))

NothingToRequest(f) ==
  /\ NewRequest(f) <= 0
  /\ agenda' = Rest
  /\ UNCHANGED <<requestPipeline, shaper>>

\* Requests of the classic flow are shaped, if it has a sustained rate.
MakeClassicRequest ==
  /\ NewRequest(CLASSIC_SFID) > 0
  /\ \/ /\ Rate = 0
        /\ SendRequest(CLASSIC_SFID, NewRequest(CLASSIC_SFID))
        /\ UNCHANGED shaper
     \/ /\ Rate # 0
        /\ \E shaped \in {ShapeRequest(NewRequest(CLASSIC_SFID))} :
             /\ SendRequest(CLASSIC_SFID, shaped[1])
             /\ msrTokens' = shaped[2]
             /\ sinceUpdate' = 0

MakeLowLatencyRequest ==
  /\ NewRequest(LOW_LATENCY_SFID) > 0
  /\ SendRequest(LOW_LATENCY_SFID, NewRequest(LOW_LATENCY_SFID))
  /\ UNCHANGED shaper

MakeRequest(f) ==
  /\ DueFor("MakeRequest", f)
  /\ \/ NothingToRequest(f)
     \/ f = CLASSIC_SFID /\ MakeClassicRequest
     \/ f = LOW_LATENCY_SFID /\ MakeLowLatencyRequest
  /\ UNCHANGED <<queues, grantPipeline, transmitPipeline, mapState, backlog, usedInMap>>

\* Mutant: the request replaces the backlog.
ReceiveRequestReplacing(f) ==
  /\ DueFor("ReceiveRequest", f)
  /\ backlog' = [backlog EXCEPT ![f] = Arg.n]
  /\ agenda' = Rest
  /\ UNCHANGED <<queues, pipelines, mapState, shaper, usedInMap>>

ReceiveRequest(f) ==
  /\ DueFor("ReceiveRequest", f)
  /\ backlog' = [backlog EXCEPT ![f] = @ + Arg.n]
  /\ agenda' = Rest
  /\ UNCHANGED <<queues, pipelines, mapState, shaper, usedInMap>>

-----------------------------------------------------------------------------
(* MAP messages.                                                           *)

\* Mutant: the backlog is not held at zero when the flow is granted more.
GenerateMapUnsaturated(layout) ==
  /\ Due("GenerateMap")
  /\ backlog' = [f \in Flows |-> backlog[f] - GrantedBytes(layout[f])]
  /\ agenda' = ScheduleAll(Rest, <<Event(MapTicks, "HandleMapMsg", layout),
                                   Event(MapInterval, "GenerateMap", 0)>>)
  /\ UNCHANGED <<queues, pipelines, mapState, shaper, usedInMap>>

\* The scheduler grants `layout' and takes the grants off the backlogs.
GenerateMap(layout) ==
  /\ Due("GenerateMap")
  /\ backlog' = [f \in Flows |-> Max({backlog[f] - GrantedBytes(layout[f]), 0})]
  /\ agenda' = ScheduleAll(Rest, <<Event(MapTicks, "HandleMapMsg", layout),
                                   Event(MapInterval, "GenerateMap", 0)>>)
  /\ UNCHANGED <<queues, pipelines, mapState, shaper, usedInMap>>

GrantTime(grant) == ProcTicks + GetFrameForMinislot(grant.offset) * FrameTicks

\* Mutant: the last minislot of the frame is left out.
AllocationInFrameShort(grants, k) ==
  Cardinality({m \in k * MinislotsPerFrame .. (k + 1) * MinislotsPerFrame - 2 :
                 \E i \in DOMAIN grants :
                   m \in grants[i].offset .. grants[i].offset + grants[i].length - 1})

\* Minislots of the grants that fall into frame k.
AllocationInFrame(grants, k) ==
  Cardinality({m \in k * MinislotsPerFrame .. (k + 1) * MinislotsPerFrame - 1 :
                 \E i \in DOMAIN grants :
                   m \in grants[i].offset .. grants[i].offset + grants[i].length - 1})

\* Each grant has a last chance to request and a burst to prepare.
BurstEvents(f, grants) ==
  FlattenSeq([i \in DOMAIN grants |->
    LET before == GrantTime(grants[i]) - PrepTicks
    IN  <<FlowEvent(before, "MakeRequest", f, 0),
          FlowEvent(before, "PrepareBurst", f, grants[i].length)>>])

\* Each frame with minislots of the grants sends once.
FrameEvents(f, grants) ==
  FlattenSeq([k \in 1..FramesPerMap |->
    LET minislots == AllocationInFrame(grants, k - 1)
    IN  IF minislots = 0 THEN <<>>
        ELSE <<FlowEvent(ProcTicks + (k - 1) * FrameTicks, "SendFrame", f, minislots)>>])

\* The events of ScheduleGrantEvents, in the order in which it makes them.
GrantEvents(f, grants) ==
  BurstEvents(f, grants)
    \o <<FlowEvent(ProcTicks, "LoadMapState", f, GrantedBytes(grants))>>
    \o FrameEvents(f, grants)
    \o <<FlowEvent(Last(FrameEvents(f, grants)).in + 1, "DumpGrant", f, 0)>>

\* A contention request at an offset drawn in the interval of the MAP.
ContentionRequest(f, offset) ==
  <<FlowEvent(ProcTicks + offset, "MakeRequest", f, 0)>>

\* Mutant: a flow without a grant has to wait for the next MAP, if the other
\* has one on which the modem could piggyback.
FlowEventsPiggybackOnly(f, layout, offset) ==
  IF layout[f] # <<>> THEN GrantEvents(f, layout[f])
  ELSE IF \A g \in Flows : layout[g] = <<>> THEN ContentionRequest(f, offset)
  ELSE <<>>

\* A flow that is given no grant to piggyback on contends.
FlowEvents(f, layout, offset) ==
  IF layout[f] # <<>> THEN GrantEvents(f, layout[f]) ELSE ContentionRequest(f, offset)

\* What remains in the request pipeline: Remove or Clear.
StillRequested(f, layout) == Max({requestPipeline[f] - GrantedBytes(layout[f]), 0})

\* Mutant: every grant enters the pipeline with the time of the first frame.
PipelinedAtStart(grants) ==
  [i \in DOMAIN grants |-> [bytes |-> MinislotsToBytes(grants[i].length), in |-> ProcTicks]]

\* The grants as the grant pipeline holds them.
Pipelined(grants) ==
  [i \in DOMAIN grants |-> [bytes |-> MinislotsToBytes(grants[i].length),
                            in    |-> GrantTime(grants[i])]]

\* The grants of a MAP leave the request pipelines, enter the grant pipelines
\* and schedule the events of their bursts and frames.
HandleMapMsg ==
  /\ Due("HandleMapMsg")
  /\ LET layout == Arg
     IN /\ requestPipeline' = [f \in Flows |-> StillRequested(f, layout)]
        /\ grantPipeline' = [f \in Flows |-> grantPipeline[f] \o Pipelined(layout[f])]
        /\ \E offset \in [Flows -> RequestOffsets] :
             agenda' = ScheduleAll(Rest,
                         InFlowOrder([f \in Flows |-> FlowEvents(f, layout, offset[f])]))
  /\ UNCHANGED <<queues, transmitPipeline, mapState, shaper, backlog, usedInMap>>

-----------------------------------------------------------------------------
(* Bursts and frames.                                                      *)

\* Bytes in the device once `moved' packets join it, less those that an
\* earlier burst holds: internalBytes - scheduledBytes.
Unscheduled(f, moved) ==
  DeviceBytes(f) + SumSeq(SubSeq(aqm[f], 1, moved)) - TotalOf(transmitPipeline[f])

\* Packets that move to the device so that `bytes' can be sent.
PacketsToStage(f, bytes) ==
  Min({k \in 0..Len(aqm[f]) : bytes <= Unscheduled(f, k) \/ k = Len(aqm[f])})

PrepareBurstFrom(f, bytes) ==
  LET moved == PacketsToStage(f, bytes)
      burst == Min({bytes, Unscheduled(f, moved)})
  IN  /\ aqm' = [aqm EXCEPT ![f] = SubSeq(@, moved + 1, Len(@))]
      /\ device' = [device EXCEPT ![f] = @ \o SubSeq(aqm[f], 1, moved)]
      /\ grantPipeline' = [grantPipeline EXCEPT ![f] = Tail(@)]
      /\ transmitPipeline' =
           IF burst > 0
           THEN [transmitPipeline EXCEPT ![f] =
                   Append(@, [bytes |-> burst, in |-> PrepTicks])]
           ELSE transmitPipeline

PrepareBurstFromCQueue(bytes) == PrepareBurstFrom(CLASSIC_SFID, bytes)
PrepareBurstFromLQueue(bytes) == PrepareBurstFrom(LOW_LATENCY_SFID, bytes)

PrepareBurst(f) ==
  /\ DueFor("PrepareBurst", f)
  /\ grantPipeline[f] # <<>>
  /\ \/ f = CLASSIC_SFID /\ PrepareBurstFromCQueue(MinislotsToBytes(Arg.n))
     \/ f = LOW_LATENCY_SFID /\ PrepareBurstFromLQueue(MinislotsToBytes(Arg.n))
  /\ agenda' = Rest
  /\ UNCHANGED <<frag, requestPipeline, mapState, shaper, backlog, usedInMap>>

LoadMapState(f) ==
  /\ DueFor("LoadMapState", f)
  /\ mapState' = [mapState EXCEPT ![f] = [granted |-> Arg.n, unused |-> 0]]
  /\ usedInMap' = [usedInMap EXCEPT ![f] = 0]
  /\ agenda' = Rest
  /\ UNCHANGED <<queues, pipelines, shaper, backlog>>

\* What finishing the fragment puts on the wire.
FragmentLeft(f) == frag[f].size - frag[f].sent

\* `bytes' of the fragment go out, and it stays one.
ContinueFragment(f, bytes) ==
  /\ bytes < FragmentLeft(f)
  /\ frag' = [frag EXCEPT ![f].sent = @ + bytes]
  /\ UNCHANGED device

\* The fragment's rest goes out and then packets of the staging queue, as many
\* as `bytes' allow; one that does not fit becomes the fragment.
SendOutPackets(f, bytes) ==
  LET left  == bytes - FragmentLeft(f)
      whole == Max({k \in 0..Len(device[f]) : SumSeq(SubSeq(device[f], 1, k)) <= left}
                     \cup {0})
      over  == left - SumSeq(SubSeq(device[f], 1, whole))
      split == over > 0 /\ whole < Len(device[f])
  IN  /\ left >= 0
      /\ frag' = [frag EXCEPT ![f] = IF split
                                     THEN [size |-> device[f][whole + 1], sent |-> over]
                                     ELSE NoFragment]
      /\ device' = [device EXCEPT ![f] =
                      SubSeq(@, IF split THEN whole + 2 ELSE whole + 1, Len(@))]

SendOutFromCQueue(bytes) == SendOutPackets(CLASSIC_SFID, bytes)
SendOutFromLQueue(bytes) == SendOutPackets(LOW_LATENCY_SFID, bytes)

\* Mutant: minislots without eligible bytes are not counted as unused.
UnusedOfEligible(allocated, toSend, used) == toSend - used

\* Bytes of the frame's minislots that carry no data.
Unused(allocated, toSend, used) == allocated - used

SendFrameFrom(f, allocated) ==
  LET toSend == Min({allocated, GetEligible(transmitPipeline[f])})
      used   == Min({toSend, DeviceBytes(f)})
  IN  /\ \/ ContinueFragment(f, toSend)
         \/ f = CLASSIC_SFID /\ SendOutFromCQueue(toSend)
         \/ f = LOW_LATENCY_SFID /\ SendOutFromLQueue(toSend)
      /\ transmitPipeline' = [transmitPipeline EXCEPT ![f] = RemoveBytes(@, used)]
      /\ mapState' = [mapState EXCEPT ![f].unused = @ + Unused(allocated, toSend, used)]
      /\ usedInMap' = [usedInMap EXCEPT ![f] = @ + used]

SendFrameFromCQueue(allocated) == SendFrameFrom(CLASSIC_SFID, allocated)
SendFrameFromLQueue(allocated) == SendFrameFrom(LOW_LATENCY_SFID, allocated)

SendFrame(f) ==
  /\ DueFor("SendFrame", f)
  /\ \/ f = CLASSIC_SFID /\ SendFrameFromCQueue(MinislotsToBytes(Arg.n))
     \/ f = LOW_LATENCY_SFID /\ SendFrameFromLQueue(MinislotsToBytes(Arg.n))
  /\ agenda' = Rest
  /\ UNCHANGED <<aqm, requestPipeline, grantPipeline, shaper, backlog>>

DumpGrant(f) ==
  /\ DueFor("DumpGrant", f)
  /\ mapState' = [mapState EXCEPT ![f] = [granted |-> 0, unused |-> 0]]
  /\ agenda' = Rest
  /\ UNCHANGED <<queues, pipelines, shaper, backlog, usedInMap>>

-----------------------------------------------------------------------------

FlowStep(f) ==
  \/ MakeRequest(f)
  \/ ReceiveRequest(f)
  \/ PrepareBurst(f)
  \/ LoadMapState(f)
  \/ SendFrame(f)
  \/ DumpGrant(f)

Simulate ==
  \/ AdvanceTime
  \/ \E layout \in Layouts : GenerateMap(layout)
  \/ HandleMapMsg
  \/ \E f \in Flows : FlowStep(f)

Next == Simulate \/ \E f \in Flows, size \in Sizes : SendFrom(f, size)

Spec == Init /\ [][Next]_vars

-----------------------------------------------------------------------------
(* Properties.                                                             *)

InFlight(f) ==
  PendingBytes("ReceiveRequest", LAMBDA arg : IF arg.sfid = f THEN arg.n ELSE 0)
Promised(f) == PendingBytes("HandleMapMsg", LAMBDA layout : GrantedBytes(layout[f]))

TypeOK ==
  /\ \A f \in Flows :
       /\ aqm[f] \in Seq(Nat \ {0}) /\ device[f] \in Seq(Nat \ {0})
       /\ grantPipeline[f] \in Seq([bytes : Nat \ {0}, in : Nat])
       /\ transmitPipeline[f] \in Seq([bytes : Nat \ {0}, in : Nat])
  /\ frag \in [Flows -> [size : Nat, sent : Nat]]
  /\ requestPipeline \in [Flows -> Nat] /\ backlog \in [Flows -> Nat]
  /\ usedInMap \in [Flows -> Nat]
  /\ mapState \in [Flows -> [granted : Nat, unused : Nat]]
  /\ msrTokens \in 0..EffectiveBurst /\ sinceUpdate \in Nat
  /\ InTimeOrder(agenda)

\* Where the event list has the PrepareBurst events of a flow.
Bursts(f) ==
  {i \in DOMAIN agenda : agenda[i].event = "PrepareBurst" /\ agenda[i].arg.sfid = f}

\* The grant pipeline holds exactly the grants whose PrepareBurst is still to
\* come, in the order of those events: what the asserts of PrepareBurst on the
\* popped element's bytes and time rely on.
PipelineAligned ==
  \A f \in Flows :
    /\ Len(grantPipeline[f]) = Cardinality(Bursts(f))
    /\ \A i \in Bursts(f) :
         LET place == Cardinality({j \in Bursts(f) : j <= i})
         IN  grantPipeline[f][place] = [bytes |-> MinislotsToBytes(agenda[i].arg.n),
                                        in    |-> agenda[i].in + PrepTicks]

\* When a MAP's grant is dumped, the bytes it reports used are those that its
\* frames put on the wire, although LoadMapState and DumpGrant of successive
\* MAPs share one map state and are scheduled a MAP ahead.
GrantReportExact ==
  \A f \in Flows :
    DueFor("DumpGrant", f) =>
      /\ mapState[f].granted > 0
      /\ mapState[f].granted - mapState[f].unused = usedInMap[f]

\* No prepared byte outlives the frames of its MAP: the transmit pipeline
\* holds nothing that could have been sent by the time the grant is dumped.
DrainedAtDump ==
  \A f \in Flows : DueFor("DumpGrant", f) => GetEligible(transmitPipeline[f]) = 0

\* What DoInitialize relies on when it sizes the staging queues to two MAPs and
\* does not look at packet sizes: a packet and the frames that fit into the burst
\* preparation time are no more than a MAP.
StagingFits ==
  \A size \in Sizes :
    (PrepTicks \div FrameTicks) * MinislotsToBytes(MinislotsPerFrame) + size
      <= MinislotsToBytes(MinislotsPerMap) + 1

\* The staging queues never fill, so the fatal error of PrepareBurst on a
\* failed Enqueue is not reached: DoInitialize sizes them to two MAPs of bytes.
DeviceQueueFits == \A f \in Flows : SumSeq(device[f]) <= DeviceQueueSize

\* Asking never runs ahead of holding: a step that raises a request pipeline
\* leaves it within the bytes held, and no other step than a request raises it.
AsksForWhatItHolds ==
  [][\A f \in Flows :
       requestPipeline'[f] > requestPipeline[f] =>
         /\ DueFor("MakeRequest", f)
         /\ requestPipeline'[f] + GrantInFront(f) <= Unsent(f)]_vars

-----------------------------------------------------------------------------
(* Liveness.                                                               *)

\* The simulator keeps serving its event list.  It never runs dry, because
\* GenerateMap reschedules itself, so Simulate is always enabled and this is
\* WF_vars(Simulate).
EventsAreServed == []<><<Simulate>>_vars

\* Whenever a flow keeps having a backlog when a MAP is made, a MAP grants it
\* something in the end: SF_vars(GrantSomething(f)), the scheduler's part.
GrantSomething(f) ==
  \E layout \in Layouts : layout[f] # <<>> /\ backlog[f] > 0 /\ GenerateMap(layout)
BacklogIsServed ==
  \A f \in Flows :
    []<>(Due("GenerateMap") /\ backlog[f] > 0) => []<><<GrantSomething(f)>>_vars

FairSpec == Spec /\ EventsAreServed /\ BacklogIsServed

\* Data that waits is sent: no state of the pipelines, of lost opportunities
\* to request, of MAPs that serve the other flow or of grants without data
\* leaves it waiting for ever.
NoStall ==
  \A f \in Flows : []<>(Unsent(f) = 0) \/ []<><<Unsent(f)' < Unsent(f)>>_vars

-----------------------------------------------------------------------------
(* The request/grant loop in bytes.                                        *)

GrantedInAMap == MinislotsToBytes(MinislotsPerMap)

Loop(f) == INSTANCE GrantLoop WITH
  MaxAmount  <- MaxUnsent + MaxBacklog + GrantedInAMap,
  unsent     <- Unsent(f),
  staged     <- TotalOf(transmitPipeline[f]),
  asked      <- requestPipeline[f],
  travelling <- InFlight(f),
  backlog    <- backlog[f],
  promised   <- Promised(f),
  granted    <- TotalOf(grantPipeline[f])

\* For each flow the event-level modem implements the byte ledger, so what is
\* proved of it holds here: every byte in a request pipeline is in a request,
\* in the scheduler's backlog or in a MAP, and no more bytes are promised to
\* frames than the device holds (PrepareBurst subtracts them in uint32_t).
ImplementsLoop ==
  /\ \A f \in Flows : Loop(f)!Init
  /\ [][\A f \in Flows : [Loop(f)!Next]_(Loop(f)!vars)]_vars
=============================================================================
