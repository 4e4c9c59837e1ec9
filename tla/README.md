# Formal models of docsis-ns3

docsis-ns3 simulates a DOCSIS 3.1 access link inside ns-3: a cable modem (CM)
and a cable modem termination system (CMTS) that share an upstream channel,
scheduled by MAP messages, and a downstream channel, shaped by token buckets,
with a low latency and a classic service flow behind a dual queue AQM. This
directory holds TLA+ specifications of its core, the TLC runs that check them
and TLAPS proofs about them. File and line references are to `src/`.

## 1. The system

| Component | State | Operations | Interacts with |
|---|---|---|---|
| CM upstream, `model/cm-net-device.cc` | queues (AQM, staging queue, fragment) and three pipelines (requested, granted, transmitting) per service flow; map state; request shaper | `SendFrom`, `MakeRequest`, `HandleMapMsg`, `ScheduleGrantEvents`, `PrepareBurst`, `SendFrame`, `LoadMapState`, `DumpGrant` | requests and unused-grant reports to the scheduler; MAPs from it; dequeues from the dual queue |
| CMTS upstream scheduler, `model/cmts-upstream-scheduler.cc` | backlog per flow, two token buckets, last drain, PGS clock | `ReceiveRequest`, `ReceiveUnused*GrantUpdate`, `GenerateMap` (PGS grants, `Allocate`, `ScheduleGrant`, `BuildMapMessage`) | the CM |
| CMTS downstream, `model/cmts-net-device.cc` | device queue, fragment, symbol pipeline, two token buckets | `HandleSymbolBoundary`, `SendSymbol`, `SendFragment`, `SendOut` | dual queue, channel |
| Dual queue AQM, `model/dual-queue-coupled-aqm.cc` | two queues, virtual queue, DRR deficits, drop probabilities | `DoEnqueue`, `DoDequeue`, periodic control laws | both net devices, queue protection |
| Queue protection, `model/queue-protection.cc` | buckets with owner and expiry, known flows | `QueueProtect` (`PickBucket`, `FillBucket`) | dual queue |
| Point-to-point mode of both devices, `model/docsis-channel.cc`, receive path | busy flag, frames in flight | `SendImmediatelyIfAvailable`, `TransmitComplete`, `TransmitStart`, `Receive`, `EndDecoding`, `ForwardUp` | dual queue, packet filter, the node |
| Common net device, `model/docsis-net-device.cc` | physical attributes and what is derived from them | `DoInitialize`, `StartScheduler`, `SetMaximumDistance`, accessors | all devices |
| Service flows, `model/docsis-configuration.*`, `helper/docsis-helper.cc` | rates, bursts, TLVs; who holds which object | `Install`, `Set*Asf`, `Set*Sf`, `Provision*`, `CheckConfig`, `InitializeParams` | both devices, scheduler, dual queues |
| Packet filter, queue item, header | packet contents | stateless | devices |
| Tests, examples, experiments, patches | - | scenarios | - |

Everything runs in one simulator thread. Concurrency is between *events*: the
simulator serves them in time order, first scheduled first served at one time,
and a packet may arrive between any two. What is hard in this code:

- **Overlap.** A MAP is handled up to a MAP interval before the time it
  describes, and a request answers a state that two or three MAPs in flight
  do not know of. Requests, grants and bursts of several MAPs are alive at once
  and share the pipelines and *one* map state.
- **Same-time order.** Burst preparation, request, map load and frame of
  adjacent grants fall on one tick; the code relies on the order in which
  they were scheduled.
- **Unsigned accounting.** Byte counters are `uint32_t` differences of
  quantities kept by different handlers (`cm-net-device.cc:1409`, `:1989`;
  `cmts-upstream-scheduler.cc:968-1025`, `:1062-1077`).
- **Rounding.** Bytes become minislots (rounded up), the scheduling weight is
  in 256ths (rounded down), buckets saturate.
- **Shared and derived parameters.** A service flow is one object in several hands,
  some of which change it; timing is derived at start-up from a dozen attributes,
  by formulas that round in different places and must fit together.
- **Liveness by opportunity.** A request is made only where an event makes
  one possible; a lost opportunity is a stall.

There are no threads, no persistence, no loss of messages and no retransmission
in this code, so the models have none.

What makes the components correct: bytes asked for are never forgotten and
never exceed what is held (CM with scheduler); the grants of a MAP share the
free minislots fairly, lie inside the MAP without overlap, survive the encoding
and respect the buckets (scheduler); guaranteed grants come on time (scheduler);
symbols are not overfilled and shaped (downstream); queues keep order and
limits, and the virtual queue its charge (dual queue); a bucket has one owner,
and a flow's score is bounded and ages (queue protection); one frame at a time is
on the way out of a device, and packets arrive once and in order (point-to-point);
MAPs are made and arrive in time, and all parties mean the same by a service flow
(configuration).

## 2. Modules

| Module | Models | Used by |
|---|---|---|
| `SequenceSums` | sums over sequences, and an amount dealt out to a sequence of rooms, as pure operators | `EventList`, `MapLayout` |
| `EventList` | the simulator's event list, as pure operators | `CmUpstream`, `CmtsDownstream`, `PointToPoint`; `EventListProofs` |
| `GrantLoop` | abstract specification of the request/grant loop, in bytes | refined by `CmUpstream` |
| `CmUpstream` | the CM's upstream for one or both service flows, every event of it | `MCCmUpstream`; `CmUpstreamProofs`, `CmUpstreamFrameProofs` |
| `Allocation` | `CmtsUpstreamScheduler::Allocate` as pure operators | `UpstreamScheduler` |
| `MapLayout` | `ScheduleGrant`, `BuildMapMessage`, and the decoding in `CmNetDevice::HandleMapMsg`, as pure operators | `UpstreamScheduler` |
| `UpstreamScheduler` | the scheduler's state machine | the scheduler's runs; `UpstreamSchedulerProofs` |
| `CmtsDownstream` | the downstream device: symbol boundaries, symbols, token buckets | `MCCmtsDownstream`; `CmtsDownstreamProofs` |
| `DualQueue` | both queues, deficit round robin, virtual queue, early drops | the dual queue's runs; `DualQueueProofs` |
| `QueueProtection` | buckets, scores and sanctions of queue protection | `MCQueueProtection`; `DualQueueProofs` |
| `PointToPoint` | both devices in point-to-point mode, channel, packet filter, receive path | `MCPointToPoint`; `PointToPointProofs` |
| `Timing` | derived attributes, delays, MAP schedule, congestion model and sizes, as pure operators | `QueueParameters` |
| `QueueParameters` | service flows, their TLVs, and what queues and queue protection derive from them, as pure operators | `Configuration` |
| `Configuration` | from `Install` to the first MAP: who is given which flow, `DoInitialize` of both devices, `Start` | `MCConfiguration`; `ConfigurationProofs` |
| `MC*` | values of the constants, bounds | the runs |
| `*Proofs` | theorems | TLAPS |

### CmUpstream

`agenda` is the simulator's event list, sorted by time and, within one time, by
the order of scheduling (`Schedule`). Times are relative to now; `AdvanceTime`
moves to the head event and shifts every pending time. Each handler is an action
guarded by its event being the head and due. `SendFrom` is not an agenda event:
a packet may arrive between any two events, also of one time.

| Code | Model |
|---|---|
| queues of the dual queue; `m_cQueue`, `m_lQueue`; `m_cFragment`, `m_lFragment` | `aqm`, `device` (sequences of MAC frame sizes), `frag` |
| `m_cRequestPipeline`, `m_lRequestPipeline` | `requestPipeline`: their totals (only the total and removal from the front are used) |
| `m_cGrantPipeline`, `m_cTransmitPipeline`, and those of `m_l` | sequences of bytes and remaining time |
| `m_cMapState`, `m_lMapState` | `mapState` |
| `m_msrTokens`, `m_lastUpdateTime`, `m_peakTokens` | `msrTokens`, `sinceUpdate`; the peak bucket is recomputed from the elapsed time |
| `m_requests` of the scheduler | `backlog` |
| scheduled events | `agenda` |

All but the shaper and the agenda are functions of the flow: the classic and the low
latency handlers are the same code on `m_c*` and `m_l*`, so an action has the flow as
a parameter. What differs is kept: only requests of the classic flow are shaped, a
MAP schedules the events of the classic flow first, and a MAP without a grant for
either flow asks by contention for both. `Flows` is `{1}` or `{1, 2}`: a low latency
flow alone is no configuration of the code, a single one is refused by the dual
queue, and in an aggregate the CM and `BuildMapMessage` dereference the classic
flow. The branches of the code for one internal queue are dead, since
`InitializeParams` always makes two.

The scheduler is reduced to the set `Layouts` of grants that a MAP may give,
chosen freely each MAP: with no backlog this is a proactive grant, with
one it is partial, exact or more. `usedInMap` is a history variable.

What is assumed of the constants: the grants of a MAP follow each other and lie in it
(`LayoutAssumption`; `GrantsArePlaced` is that of `UpstreamScheduler`); a burst is prepared
at most the processing time ahead, a frame is longer than the tick after which a grant is
dumped, and the startup requests bridge the time to the first MAP (`TimingAssumption`; the last is
a part of `MapsAreOnTime` in `Configuration`).

Abstractions: one size per packet (the code keeps PDU, MAC frame and
header sizes); the AQM is a FIFO that accepts what fits `MaxUnsent`; the
per-frame random offset of a contention request is a choice.

### Allocation, MapLayout, UpstreamScheduler

`GenerateMap(free)` is the whole of `GenerateMap`: `free` is the outcome of
`CalculateFreeCapacity` (a random variate in the code), the rest is computed in
its order: PGS grants due, bucket increment, `Allocate`, `ScheduleGrant`, charge,
backlog, MAP message. `ScheduleMap` and `SendMap` are its two conjuncts: the
accounts, and the message, whose random start of the grants is a choice. Note on
that start: `std::round<uint32_t>` of a value uniform over the free space gives
`0..max`, both included (`Starts`).

The CM is reduced to requests of any size in `RequestSizes` and to reports of
any number of unused bytes up to what was granted. `outstanding` holds the
grants that are not reported, oldest MAP first; a MAP has one report for each
flow that was granted something.

`accrued` is the conformance check's view of the time since `m_lastDrain`, in
bytes of the sustained rate, and capped: above a full MAP the check cannot fail.
`lastPgs` is `m_lastPgsGrantTime` relative to the start of the next MAP.

Details of the code that the model keeps: a PGS grant gets its length only if it
is *shorter* than the free part (`cmts-upstream-scheduler.cc:346`), so it may
have length zero; a zero-length grant still makes the grant list non-empty;
zero-length additions to the layout are ignored by `std::map::insert` because
their key exists, or skipped; the PGS loop does not reduce the free minislots.

The loops of `ScheduleGrant` take from what is left as much as the next room holds:
first the spaces behind the PGS grants, then the holes between all grants. `Dealt`
says in closed form what each turn takes (the smaller of the room and what the rooms
before it leave), and `PgsCount` how many turns the PGS loop of `GenerateMap` makes (a
division); so no step of the model is recursive, and the proofs can use it.

### CmtsDownstream

| Code | Model |
|---|---|
| the dual queue; `m_deviceQueue` | `queue`, `device`: sequences of data PDU sizes |
| `m_fragPkt`, `m_fragSentBytes` | `frag` |
| `m_req` | `req`, a function on `0..PipelineFactor` |
| `m_msrTokens`, `m_peakTokens` | `msrTokens`, `peakTokens`, modulo `Word` |
| scheduled events | `agenda`; a `SendSymbol` event carries its bytes and the symbol state |

`HandleSymbolBoundary(free)` is the whole handler: refill, schedule the next
boundary, then `SkipSymbol` (no tokens, nothing new) or `FillSymbol` (bytes for a
symbol, push, schedule `SendSymbol`, `Stage` packets into the device queue). `free`
is the outcome of `CalculateFreeCapacity`. `SendSymbol` continues the fragment
(`ContinueFragment`) or sends whole packets and the part of one more
(`SendPackets`), charges the buckets and pops the pipeline; the loop over packets
is one step, since nothing can run between its turns. Time is counted in symbols:
all delays are multiples of one. `lost` is a history variable.

Widths and headers are kept because the code depends on them. Bytes in the dual
queue and on the wire include the MAC header, `GetInternallyQueuedBytes` does not,
and a fragment of which more than the PDU size is sent makes it wrap; the wrap
hides nothing for good, which `NoStallButHeader` and `SlotHoldsSymbol` show. Adding
a `double` to a `uint32_t` that cannot hold the sum is undefined behaviour;
`AddTokens` offers what compiled code does, wrap or saturate.

Abstractions: the dual queue is a FIFO that refuses what exceeds `QueueLimit` (it
never drops later); the device is bridged, so packets come through `SendFrom`; the
channel accepts every packet.

### DualQueue

The CM and the CMTS own one dual queue each, of one class: `side` says which, and
is chosen at the start. It decides what the code decides by its device. The CMTS
dequeues with `DoDequeue` (`Dequeue`) and estimates the low latency delay from the
queue; the CM dequeues the queue a grant is for (`DequeueForGrant`), past the round
robin, and estimates from the virtual queue.

| Code | Model |
|---|---|
| the internal queues; `m_llDataPduBytes`, `m_tracePieQueueBytes` | `queue`, a sequence of data PDU sizes; `pduBytes` |
| `m_drrQueues`, `m_llDeficit`, `m_classicDeficit` | `drr` |
| `m_vq`, now minus `m_tLast`, `m_averageAqBytes` | `vq`, `elapsed`, `averageAq` |
| `m_burstState`, `m_burstAllowance`, `m_burstReset` | `burst` |
| `m_classicDropProb` | `prob`: zero, below 0.2, or more |
| `m_cqEstimateAtUpdate`, `m_prevq` | `qDelay`: equal between two updates |

`EnqueueClassic`, `EnqueueSanctioned` and `EnqueueLowLatency` are `DoEnqueue` by what
the classifier and queue protection say; each holds the overall limit, the charge
of the virtual queue, `DropEarly` or the space test, the limit of the internal queue,
and the credit that takes a charge back. `SelectLlQueue` is a loop that starts
rounds until some head is covered; the model says which round that is (`RoundOf`,
a division), and who is served then: in the round in which both are covered the
low latency queue, which then keeps its bit. `CalculateDropProb` is one action; of
the probability it keeps the sign of the increment and the two thresholds that
the code tests, and chooses among what they leave open. The random number of
`DropEarly` is a choice. Time is in bytes at `MAX_RATE`. `m_burstReset` is not
initialized, so `ResetMemory` says what its memory may hold.

`waited`, `ideal`, `aligned`, `quiet` and `settled` are history variables.

Abstractions: marking and coupled probabilities (they change packets, not
queues), DSCP, tracing, and configuration. `DrrQuantum * SchedulingWeight >= 256`
is assumed: with less, the low latency quantum rounds down to zero and the queue
is served only when it is alone. `MAX_RATE` is not zero.

### QueueProtection

`QueueProtect(f, added, delay)` is the whole of `QueueProtect` for a packet of flow
`f`: `PickBucket`, `Filled` (`FillBucket`), the decision `Sanctions`, and the claim of
the bucket. The code's `m_exp` is an absolute time; `score` is what is left of it,
and zero when it has passed. That loses nothing: the code resets an expired
`m_exp` to now before it adds to it, and otherwise only asks whether it has passed.
`Attempted` is the flow's hash, cut into the bucket indices of its attempts.
`added` is the congestion score of the packet (a product of probability, size and
constants), chosen freely. `ownScore` and `spilled` are history variables: the score
that the flow would have with a bucket to itself, and the flows part of whose
score went to the default bucket.

### PointToPoint

With `PointToPointMode` a device sends a packet when it is not busy and the next
when `TransmitComplete` fires; there are no MAPs and no symbols. A packet's way is:
`SendFrom` with the remarking of TCP and the packet filter (`Classify`) into one of the two
queues; `SendImmediatelyIfAvailable`; the channel, which delivers after the transmission
time and half a round trip; `Receive`, `EndDecoding`, `ForwardUp` to the promiscuous
callback, and to the receive callback if the packet is for this node. Which queue is
served next is a choice (the round robin is in `DualQueue`). Only the CMTS has `Send`,
for packets of its own: they go to the device queue, which nothing serves in this
mode. A packet is a kind (IPv4, TCP, ECN, DSCP, destination, duration) and a number.
`accepted`, `seen`, `received` and `corrupted` are history variables; which frames the
error model corrupts is a choice.

### Timing, QueueParameters, Configuration

`Timing` holds the formulas of `DocsisNetDevice` over a record of attributes:
`FrameDuration`, `MinislotsPerFrame`, `MinReqGntDelay` and the delays, in integer
nanoseconds (the code computes with `double` and rounds; frames and symbols of all
legal attributes are whole nanoseconds but for a fraction that is dropped). The
schedule of `StartScheduler` is given as when the n-th MAP is made, arrives and what
it describes (`GenerateMapTime`, `MapArrivalTime`, `AllocStartTime`, `AckTime`): the
loop of the code as the number of intervals that it counts (`FirstMapInterval`).
`QueueParameters` has a service flow's TLVs as a record, the overrides in the
order of the code, `CheckConfig`, `InitializeParams` and the marking ramp.

| Code | Model |
|---|---|
| physical attributes of each device | `phy` |
| `AggregateServiceFlow` and `ServiceFlow` objects; `m_asf`, `m_sf` of a device | `object`, by who it was made for; `given`, whose object the device holds |
| `IsInitialized` | `ready` |
| attributes and parameters of the dual queues | `queue` |
| `CmtsUpstreamScheduler` | `scheduler`: its copy of the flow, and what `Start` computes |
| rates, tokens, queue sizes, startup requests of a device | `device` |
| `Delay` of the channel; `NS_ABORT_MSG` | `channelDelay`; `aborted`, after which nothing happens |

`InitializeCm` and `InitializeCmts` are the whole of the two `DoInitialize`, with the
checks that abort, the provisioning of the scheduler, the overrides and the queue's
`Initialize`; `SetFlow` and `SetMaximumDistance` may be called before them, and
the order of the two initialisations is free, as it is the order of the nodes.
`ProvisionSingleServiceFlow` changes the object it is given; that the CMTS may have been
given the same one is why objects have identities here. `configured` is a history
variable: what the user wrote.

Abstractions: rates are multiples of 1 kbit/s and at least 16 kbit/s, spectral efficiency is
whole, attributes other than the distance are fixed before `Install`, MAP intervals
stay below 65 ms (a `uint16_t` of microseconds in `Start`), 10^9 ns stand for the 10 s threshold
of a disabled AQM, the downstream symbol capacity is a constant, and the
configuration cache is left out: it is filled once at initialisation with the values
that the formulas give. `FramesPerMap` is taken to be positive: with a MAP interval below
half a frame it is zero and the loop of `StartScheduler` never ends.

## 3. Runs

| Run | Question | Bounds |
|---|---|---|
| `cm_safety` | does the CM keep the accounts of both flows, implement `GrantLoop` for each, and send what waits | two flows, 2 frames of 2 minislots of 2 bytes, packets of 3 bytes (more than a minislot, less than two), one packet held per flow; MAPs that grant nothing, the classic flow across a frame boundary, or both flows with the low latency flow in two pieces |
| `cm_grants` | do pipelines, reports and staging queue hold when a MAP is filled by one grant and when adjacent grants prepare at one time | the classic flow alone, minislot of 1 byte, packets of 3, 9 bytes held (more than two MAPs grant), processing time longer than a MAP interval |
| `sched_safety` | allocation, placement, encoding, buckets and PGS clock | MAPs of 6 minislots, 1 or 6 free, PGS every 4, two MAPs unreported, backlogs of at most 8 bytes; states are compared without the last message (VIEW), which no step reads |
| `sched_liveness` | does a flow starve | at least two minislots free |
| `downstream` | do symbols, staging and arrivals fit together, and does data get out, whatever the buckets have wrapped to | pipeline factor 1, symbol of 12 bytes of which 2 or 12 are free, header of 2, PDUs of 4 and 7, buckets of 8 bytes that a symbol refills by half and by three quarters, 15 bytes queued |
| `queue_protection` | who owns a bucket, whose score is in it, who is sanctioned | three flows that address the buckets 0 and 1 in this order, in the other, and only 0; scores up to 3, pauses of 1 and 2 |
| `dual_queue` | does the round robin serve both queues, the virtual queue count, the burst machine excuse and end bursts, at either device | PDUs of 1 and 2 with a header of 1, 8 bytes in all, 7 in the classic and 5 in the low latency queue (so a delay can be long and yet fall fast enough to lower the drop probability); a classic quantum of 4 and a low latency one of 3, longer than some packets and not shorter than any (the defaults, 1500 and 1347, lie between packet sizes, and the bound is another when a quantum exceeds the longest packet); times up to 5 bytes, allowance of two updates, a reset limit of one |
| `point_to_point` | is the busy flag right, does every packet arrive, once and in order | three packets from the CM and one from the CMTS (which differs in its own `Send` only), of three kinds, with 1 and 3 ticks on the wire; decoding as long as the longest frame on one side |
| `configuration` | do thresholds, schedule and parameters fit together, whatever is configured, set and initialised in whichever order | the default configuration with one part varied at a time: frames of 6, 9 and 17 symbols, prefixes, interleavers and spacings at both ends, MAP intervals of 0.5, 2 and 4 ms, distances of 1 to 50 km that are changed to 1 and 8 km; rates from none to 50 Mbit/s, thresholds and exponents at zero, one, their limit and beyond; aggregates with one, both or no flow, and single flows |
| `sched_pgs`, `ds_rate`, `dq_align` | the disagreements of section 5 | as small as shows them |

Why the bounds are enough: the CM has at most three MAPs in one stage of the
loop at a time (in flight, waiting for its bursts, sending), which the delays
chosen reach; packets smaller and larger than a minislot and than a grant reach
every branch of `SendFrameFromCQueue`; in the scheduler every case of `Allocate`,
a PGS-only MAP, two PGS grants in a MAP, extension, hole filling and a saturated
bucket are all reached; downstream, a packet spans several symbols, a symbol
ends one packet and starts the next, and both buckets run empty and wrap; in the
point-to-point, short frames follow
long ones and arrivals, completions and decodings share a tick; in the
dual queue, deficits outlive their queue, and the classic queue does wait for as
many bytes as `NeitherQueueStarves` allows. Each property has a mutant, a plausible
bug in the code that TLC shows it to catch.

The scheduler's runs assume `FirstPgs < PgsGap` and PGS grants no longer than the
gap and inside the MAP; that of `sched_safety` meets `PgsFits` of section 4 (with a frame of
one minislot, or of two). Deadlock is checked except in `point_to_point`, where the
simulation ends when all packets have arrived, and in `configuration`, which ends with
the start of the scheduler or an abort.

### Properties

- `AsksForWhatItHolds`, `ImplementsLoop`: requests and their
  answers add up at the CM, on the way, and at the scheduler; a step that could not be
  a step of `GrantLoop` would forget a byte or prepare one twice.
- `DrainedAtDump`, `DeviceQueueFits`, `PipelineAligned`: what
  the asserts, unsigned differences and fatal errors of burst preparation rest on. Both
  instances meet `StagingFits` of section 4, that of `cm_grants` with no byte to spare.
- `GrantReportExact`: the map state shared by successive MAPs never mixes them up.
- `NoStall`: data that waits is sent.
- `AllocationIsFair`, `OverageIsSmall`, `WithinTokenLimits`: weight, demand and
  tokens are respected by every split.
- `GrantsArePlaced`, `MessageIsFaithful`: layout and its encoding.
- `PgsOnTime`, `NoFlowStarves`: guaranteed grants come on time, and no flow with a
  backlog waits for ever.
- `SlotHoldsSymbol`: boundary and symbol fall on the same time and meet in slot 0
  of the pipeline; no byte stays there, where it would hide data.
- `NothingLost`: the device queue, sized in `DoInitialize`, takes every packet that
  a boundary moves.
- `NoStallButHeader`: the pipeline, the pending bytes and the buckets never agree
  to send nothing while more than a MAC header of data waits. A rest of up to a
  header does wait for the next arrival, since it is not counted.
- `NeitherQueueStarves`, `DeficitIsSmall`: the round robin serves a waiting queue after a
  bounded number of bytes of the other, and no queue saves up for a burst.
- `VqKeepsTheCount`: charges, credits, drains and alignments of the virtual queue
  add up in any order.
- `AllowanceMeansProtecting`, `BurstTimesOut`: drops are excused while a burst is
  protected and never else, and a burst that has become quiet is over in time.
- `OneBucketPerFlow`, `NotBlamedForOthers`, `ScoreIsKept`, `SanctionIsEarned`: queue
  protection isolates flows. The default bucket is shared by design and excluded by
  name.
- `BusyUntilComplete`, `EachInOnePlace`, `InOrder`, `Arrives`: a busy device has one
  completion to come, a packet is in one place at any time, those of one queue
  arrive in order, and all that came through `SendFrom` do.
- `RampIsSane`: for all TLVs, thresholds are in range and not below the configured one,
  marking has a probability that grows with the delay, and queue protection protects the
  threshold in force. It says nothing of a disabled AQM, nor of a `qpLatencyThreshold` of zero,
  which the code treats otherwise than its texts say (section 5).
- `MapsAreOnTime`: the schedule meets its deadlines; `Lateness` says by how much the
  code misses the last of them.
- `SidesAgree`: the scheduler's, the queues' and the devices' copies of a service flow
  agree, and the guaranteed grant interval is kept if one is configured (its default is
  another than documented, section 5).

### Fairness

`CmUpstream`: the simulator serves its event list as long as it has events
(`EventsAreServed`), and it always has some because `GenerateMap` reschedules
itself (`cmts-upstream-scheduler.cc:535-538`). `BacklogIsServed` is the
scheduler's promise that a flow with a backlog at infinitely many MAPs is granted
something at infinitely many; `sched_liveness` is where that promise is checked.
No fairness is assumed of arrivals.

`UpstreamScheduler`: weak fairness of `GenerateMap` (same reason; stated on the
accounts, since the placement plays no part) and of the CM's reports (each
grant schedules a `DumpGrant`). The bound `MaxOutstanding` holds `GenerateMap`
back until a report comes, which stands for the fixed delay between them.

`PointToPoint`: weak fairness of the event list as for `CmUpstream`; none of arrivals.

`CmtsDownstream`: weak fairness of `Simulate` (boundaries reschedule themselves).
Every outcome in `FreeCapacities` leaves something free in the symbol.

Two cases starve in the code and are left out of the liveness run as
configurations: a guaranteed rate that uses up the sustained rate (the buckets
are empty whenever best-effort grants are considered) and a MAP that always has
a single free minislot (the low latency weight rounds to zero minislots, or the
classic share does).

## 4. Proofs

TLAPS checks, for all values of the constants that satisfy the named assumptions:

- `ConfigurationProofs`: `ConfigurationTypes`, `MapsAreAlwaysOnTime`, `RampIsAlwaysSane`
  and `SidesAlwaysAgree`, for any set of configurations, whatever the devices are given
  and in whatever order they are configured, moved and initialised. The assumptions say
  what the code accepts: attributes pass their checkers (`CaseAssumption`), TLVs have
  the widths and service flows the identifiers of their class (`FlowAssumption`),
  distances the range of their attribute (`DistanceAssumption`), sizes are naturals
  (`SizeAssumption`), and the threshold that stands for a disabled AQM is beyond every other
  (`DisabledThAssumption`). The inductive invariant `ConfigInv` has a part for each
  group of variables. `ScheduleInv`: attributes stay legal, of which a new distance could
  only change the delays (`LegalAtAnyDistance`), and the startup requests of an
  initialised modem belong to its present attributes, since it can no longer be moved.
  `FlowsOK`: of all objects only a single flow of the upstream changes, and only in
  the modem's own initialisation, once. `QueuesOK`: a queue has the defaults of its
  class until its device is initialised (so TLVs override defaults and never each
  other), and the ramp of its flow afterwards. `CmAgrees`, `CmtsAgrees` and
  `SchedulerOK` say what each party has taken from which flow. `RampIsAlwaysSane` rests on the
  floor being capped and on the range being positive (`FloorFacts`, `PowerOfTwo`,
  `RampFacts`, `ProbabilityFacts`). The bound on the guaranteed interval rests on a frame
  being less than a microsecond longer than its truncation (`FramesFacts`,
  `GrantFramesFacts`). The arithmetic of `Timing` stands on its own, for every
  attribute that the checkers admit and every MAP: `ScheduleStarts`, `MapsArriveInTime`,
  `RequestsAreKnown`, `FreeCapacityFits` and `SizesAreAccountedAsSent`. The schedule is a
  whole number of frames (`AllocStartFacts`), so all times are multiples of one
  duration; `MinReqGntDelay` in time is then at least what it was rounded up from
  (`DelayBudget`), and three symbols fit into one frame and the pipeline of the
  downstream, which pays for the MAP's own three symbols.
- `EventListProofs`: the lemmas that the device proofs and the scheduler's share. Inserting an event,
  folding over a set and adding up a sequence are recursions over data, about which
  the library's induction theorems cannot be used here; the lemmas argue by least
  counterexample instead (`LeastNumber`). `ScheduleInserts` and `InsertInOrder` say where
  `Schedule` puts an event; `FoldExists` and `FoldTyped`, that a fold over a finite
  set is defined, and typed, whichever element it takes first; `SumFolds`, that a sum does not
  depend on that choice, from which the sums of prefixes, suffixes and longer
  sequences follow. `ScheduleAllMerges`: events scheduled one after the other merge with
  the list, each keeping its order; `EnumerateMerged` and its companions, which place
  an event then has among those of its kind; the `Weight*` lemmas, what all events of the list carry together. `DealtFacts` says of
  an amount dealt out that it fits each room, that what is dealt and what is left add
  up to it, and that nothing is left when the rooms suffice; `FlattenParts`, where the parts of
  a flattened sequence lie in it.
- `PointToPointProofs`: `LinkTypes`, `OneTransmissionAtATime`, `NoPacketLost` and
  `PacketsInOrder`, for every kind and number of packets, any delays and any bounds
  (`LinkAssumption`). The inductive invariant `LinkInv`: the event list is sorted; a busy
  device has one completion in it and an idle one none; no frame is received later
  than a propagation delay after the completion, nor decoded later than a decoding time
  from now (`Timely`), so the next frame cannot overtake on the wire (`WireOrder`); and
  the numbers that a sender accepted are shared out among its two queues, the
  packets set aside, the wire and the two ends of the receiver (`Parted`),
  ascending in each class along the way (`FlowOrdered`). Each of the simulator's
  insertions goes behind all events that are not later: the model computes its position as a
  cardinality, `ScheduleInserts` turns it into a position (`InitialSegment`, by well-founded
  induction on the naturals), and `InsertWire`, `InsertKeeps` and `TailOK` say what an insertion
  and a removal preserve.
- `CmtsDownstreamProofs`: `DownstreamTypes`, from `DownstreamAssumption` alone;
  `SlotAlwaysHoldsSymbol`, for `PipelineFactor = 1`, the code's default (with two or more it
  is false, section 5); `NothingEverLost`, with `DeviceQueueSuffices` besides. The
  inductive invariant `PipelineInv` knows three shapes of the event list: the boundary
  alone with an empty pipeline, a symbol behind the boundary of its time, and a
  symbol whose boundary has run and put the next one, or none, behind it. So slot 0 is zero
  whenever a boundary runs, and the pipeline holds at most two budgets (what a symbol and
  a full bucket allow). `DeviceInv` adds that the device queue is within its size:
  a boundary moves a packet only while the bytes counted, without headers and without
  the part of a fragment that is sent, are less than the pipeline, and with the smallest packet
  `k` headers long, `k` times the frames are at most `k + 1` times those bytes (`RoomForPacket`).
  With the code's sizes (smallest data PDU 64, header 10, so `k` is 6; `m_maxPdu` 1532; Ethernet
  frames) `DeviceQueueSuffices` holds for symbol capacities up to 1291 bytes and from
  1705 on, which includes the default attributes (about 4800); in between, the argument
  needs fewer small packets in a row. The folds of `Stage` and `Total` are
  opened with the lemmas of `EventListProofs` (`StageFacts`, `TotalFacts`).
- `CmUpstreamProofs`: `TypeCorrect`, `PipelineStaysAligned`, `AskingIsCovered`,
  `UpstreamImplementsLoop`, `NeverForgotten`, `StagedStaysHeld` and `GrantReportsExact`,
  from the assumptions of `CmUpstream` alone. The inductive invariant `UpstreamInv` has three parts besides types. The event list is sorted, and what
  a MAP makes the modem do is done before anything of the next begins (`Spaced`): MAPs
  come an interval apart and describe successive intervals, and a burst counts for this
  at its frame, not when it is prepared. The grant pipeline has an element for each
  pending `PrepareBurst`, in the order of those events (`Aligned`). Without `Spaced` that is not
  inductive: a MAP appends to the pipeline, so its bursts must be later than all that are
  pending. The bytes promised to frames are in the device, and the device and the queue
  hold no more than the model lets in (`HeldInv`). `MapHandledAgrees` is the hard step: all events of a MAP for both flows are
  merged into the list at once (`ScheduleAllMerges`).

  The refinement goes action by action (the `*Loop` lemmas). Requests and MAPs in flight
  are weights of the event list (`OnItsWay`): removing the head takes its weight
  away (`WeightTail`), scheduling adds the weight of what is scheduled, wherever it is
  inserted (`WeightScheduled`). What a layout grants in minislots is what its pipeline elements
  hold in bytes, and no more than a MAP has (`GrantedFacts`, by `SumScaled` and `SumPlaced`). The ledger is then
  kept by each step of `GrantLoop` (`LedgerStep`): both saturating subtractions (`Monus` of the
  backlog at the scheduler, of the request pipeline at the CM) remove at most what
  `promised` gains or at least what it loses. So the ledger's invariants hold of the
  modem itself, whatever its MAPs, requests and bursts overlap with.

  For the reports, an account is kept along the event list of what is left of a flow's
  loaded grant (`Accounted`, `Reported`): `LoadMapState` opens it with the bytes granted, each `SendFrame` takes
  its minislots off, and `DumpGrant` must find zero. That it does is a fact about a layout:
  its frames, cut at the frame boundaries, cover each minislot of its grants once
  (`GrantsCover`). That no account is opened before the last is closed is `Spaced` again: the
  events of a new MAP lie behind those of every earlier one.

- `CmUpstreamFrameProofs`, which continues it: `AlwaysDrained`, from the same assumptions. That
  a MAP's frames send all that is prepared for them is a statement about windows of time (`Backs`): from any time on, the frames before the dump of a MAP have room for
  the bytes, prepared or still granted, whose frame comes by then. It holds within a MAP because
  its frames from one on cover the grants that start there or later (`FramesSend`,
  `GrantsBy`), and for MAPs in succession because they do not overlap (`MapBacks`). A frame then
  sends what is ready or fills up (`SendBacks`); the second would leave bytes behind if a
  grant of the same frame were not prepared yet, which is why a burst's event must stand before its
  frame's even if no time is between them (`InTurn`), and bytes are taken from the front, so
  the transmit pipeline must be in the order of its frames (`Ascending`). The three
  together are inductive (`Drained`).

  `DeviceNeverFull` rests on it, and on `StagingFits` besides: a packet and the frames that fit
  into the burst preparation time are no more than a MAP. The code sizes the staging queues to
  two MAPs (`cm-net-device.cc:338`) without a look at packet sizes, so something of the kind is
  needed: a packet of more than two MAPs would not fit at all. With the default
  attributes one frame of the fourteen of a MAP fits into the preparation time, which leaves
  thirteen for a packet. Of the
  device's bytes less than a packet is not yet promised to a frame (`Spare`), since `PrepareBurst`
  moves no packet more than the burst needs. What is promised is for frames before one dump,
  the next one when the last burst was prepared (`Await`, which needs the same of grants,
  `Follow`, and `DrainedAtDump` when that dump comes); by `Backs` it is no more than these frames
  send. And frames of a flow are a frame apart, those of a MAP before all that a later MAP
  may bring (`Paced`), so until then there are no more of them than fit into the
  preparation time and a MAP (`FramesHold`, `FewFrames`). The inductive invariant is `UpstreamInv`
  with `Drained`, `Spared` and `Reached`.
- `UpstreamSchedulerProofs`: of `Allocation`, `SplitFair`, that the five cases of
  `Allocate` satisfy one specification of a fair split, and `SplitAssertsHold`, when the asserts
  hold (a weight of at least one half, and two minislots or more to allocate); of
  the scheduler, `TypeCorrect`; on it rest `AlwaysFair` and
  `OverageBounded`, state facts that follow from the types and the lemmas about
  `Allocate`; `NeverOverLimits` for best-effort traffic, under
  `Capacity <= MsrIncrement + 1`: the charge of a MAP is less than a minislot
  above tokens that are at most the burst; `PgsNeverLate`, an invariant of the
  PGS clock that is inductive when every MAP has a free minislot. `GrantsAlwaysPlaced` and
  `MessageAlwaysFaithful` hold for every MAP size, share, backlog and random start, under
  `PgsFits`, which is about guaranteed grants only: every MAP has a free minislot
  (`sched_pgs` shows what happens otherwise), MAPs and PGS intervals are whole frames (the
  code counts both in frames), and a grant does not reach beyond its frame (the code does
  not check it; the hazard at `cmts-upstream-scheduler.cc:1074`). The PGS clock then keeps in
  step with the frames (`PgsInStep`, inductive), so guaranteed grants are disjoint and end with the
  MAP (`PgsGrantsLie`). From there the layout is followed through `ScheduleGrant`: grants
  grow by no more than the space behind them (`ExtendFacts`); holes and grants
  together are the whole MAP, so filling keeps the order, and leaves nothing
  when as many minislots are free as are asked (`FillFacts`, `FillCounts`); and
  `Allocate` asks for no more than that (`LayoutsArePlaced`). The low latency flow
  alone holds the extended grants (`LowLatencyOnly`), so each flow gets what was
  scheduled for it. `Encodes` says of a message where the element of each grant is, and that
  null elements are all the rest; the decoder yields a grant for the first and nothing for
  the others (`ElementFacts`, `MessageEncodes`, `MessageDecodes`).
- `DualQueueProofs`: `TypeCorrect`, `NeitherStarves`, `DeficitsStaySmall`,
  `VqAlwaysKeepsTheCount`, `AllowanceOnlyProtects` and `BurstsTimeOut`, from
  `DualQueueAssumption`. The round robin needs `Turns`, what a queue is left with
  outside its turn: the classic queue loses its bit only together with its deficit,
  and the low latency queue loses it when its head is not covered and keeps that
  head; so whoever is served is served in the *first* round that covers its head
  (`BetweenFacts`). On it rests an account for each queue (`LlOwed`, `ClassicOwed`):
  in the rounds since it was served the waiting queue has saved that many quanta,
  which did not cover its head before the last of them, and the other has sent
  its old deficit and as many quanta, less the deficit it still has. The bound
  follows by division (`FewerRounds`). The virtual queue needs to know that the CMTS
  never charges; the burst machine, that its timer is zero outside a burst
  (`TimerIsSet`).

  Of queue protection the same module proves `NeverTwoBuckets`, `NeverBlamed`, `NeverShed`,
  `SanctionedFairly` and `ProtectionTypeCorrect`, for any set of flows and buckets and any
  hash; its definitions do not share names with those of `DualQueue`. The inductive invariant `Isolation` is their conjunction with `Hashed`: a
  dedicated bucket is owned by a flow that addresses it. `Hashed` is what turns "no
  attempt found a bucket of the flow" into "the flow has none" (`PickBucketFacts`),
  and with it every claim starts from an empty bucket (`PacketKeepsIsolation`).
  `ScoreIsKept` needs `NotBlamedForOthers` for a flow without a score, and
  `OneBucketPerFlow` to know which bucket is picked.

Every safety invariant, action property and refinement that a passing run checks is thus stated
by a theorem, some under the assumptions named. Model-checked only: all liveness
(`NoStall`, `NoFlowStarves`, `Arrives`, `NoStallButHeader`) and `ENABLED`. Without the assumptions named,
`WithinTokenLimits` and `PgsOnTime` are false (section 5 for the latter).

## 5. Where code and text disagree

- `sched_pgs`: a MAP without free minislots makes no PGS grant and leaves the PGS
  clock behind; the next MAP runs into the assert at
  `cmts-upstream-scheduler.cc:376`.
- `ds_rate`: downstream tokens are found eligible twice before they are charged
  once (`cmts-net-device.cc:626` and `:682`), the unsigned bucket wraps, and the
  flow sends more than rate and burst allow
  (`doc/source/model-overview.rst:104-106`). The run compares with a bucket that
  cannot wrap, and grants it the one symbol that is charged late.
- `dq_align`: `AlignVq` "will drain the virtual queue ... and align" it
  (`model/dual-queue-coupled-aqm.h:421-423`); it compares and assigns `m_vq` as of the last
  low latency arrival (`model/dual-queue-coupled-aqm.cc:575`) and leaves `m_tLast` alone, so
  it skips an alignment for bytes that have drained, and time that passed before it
  drains what it has set.

Read in the code and not made a run: the assert at `cmts-upstream-scheduler.cc:1018`
is one too strict, a MAP with one minislot to allocate violates it (`SplitAssertsHold`
says when it holds). A sustained rate of zero stops best-effort grants, where
`doc/source/model-overview.rst:420-421` promises no shaping. The scheduler
dereferences `m_classicSf` without a test at `cmts-upstream-scheduler.cc:413`.
`m_burstReset` has no initial value, so the first burst may end early: the reason
why `BurstTimesOut` speaks of assigned timers only. `MakeRequest` subtracts the front of the grant
pipeline only, its comment (`cm-net-device.cc:2014-2015`) speaks of the whole, so
bytes that a second grant covers are requested again. With a
`CmtsDsPipelineFactor` of two or more, which `doc/source/system-configuration.rst:65`
allows, `SendSymbol` runs before the boundary that brings its bytes to slot 0, and
the assert at `cmts-net-device.cc:510` fails (`SlotHoldsSymbol` is violated at once
with `PipelineFactor = 2` in `CmtsDownstream.cfg`). Downstream,
`CalculateFreeCapacity` (`cmts-net-device.cc:831`) takes bytes per second for bytes
per symbol.

At configuration: `GetMinReqGntDelay` promises "the closest (in frames) a request can be generated
in order to be taken into account in a MAP" (`docsis-net-device.cc:1286`) and leaves the
downstream cyclic prefixes out, so a request at the Ack Time may come up to three
prefixes after the MAP was made (`Lateness`; with the default attributes there is slack
enough, as the delay is rounded up to frames). Disabling the low latency
AQM by TLV sets its threshold to 10 s (`cm-net-device.cc:446`) and still marks at 65.535 ms, to which `InitializeParams` cuts it, and the coupling
factor of zero that it sets is lost if the aggregate has a TLV of its own. A
`qpLatencyThreshold` of zero is documented to default to the effective threshold
(`docsis-configuration.h:259-260`); the code takes the zero. The guaranteed grant interval is the
MAP interval by default, not "one frame" (`docsis-configuration.h:166-167`), and its length in
frames is computed from a frame truncated to microseconds, so it may overshoot
(`cmts-upstream-scheduler.cc:232-244`; `SidesAgree` bounds it). A single service flow given to both
directions has its rates scaled once by the upstream, and the downstream has the scaled or the
configured ones by the order of initialisation. `RemarkTcpEcnValue` looks for an IPv4 header
without a test of the protocol. A low latency aggregate without classic flow is accepted
(`docsis-configuration.h:181`) and fails later at a null pointer; one without any flow is accepted
too, and its queue stays coupled (`cm-net-device.cc:316`).

## 6. Plan

Next, in this order:

1. `DualQueue` composed with `QueueProtection` (a sanction is then no longer a choice)
   and in place of the FIFO of `CmtsDownstream`.
2. The CM composed with `UpstreamScheduler` instead of `Layouts`.
3. An abstract specification of each queue (bounded, in order, nothing but drops
   lost) that `DualQueue` and the queues of both devices implement.
4. Proofs: `WithinTokenLimits` with guaranteed grants; the size of the downstream device queue
   for the symbol capacities in between.

Not modelled, and not planned: floating-point control laws, byte formats,
attribute and trace plumbing, the configuration cache, the scenario helper's topologies,
tests, examples and patches. Two hazards are listed without a property: a guaranteed grant longer
than its interval, and the request that counts one pending grant only; both are what the code does.
