-------------------------- MODULE CmUpstreamProofs --------------------------
(***************************************************************************)
(* Proofs about the upstream of the cable modem, for every frame, MAP and  *)
(* minislot size, every delay, rate and burst, every grant a MAP may give  *)
(* and every packet size.                                                  *)
(***************************************************************************)
EXTENDS CmUpstream, EventListProofs

-----------------------------------------------------------------------------
(* The inductive invariant.                                                *)

\* The events of the list, by what they do.
EventsOf(name, args) == [in : Nat, event : {name}, arg : args]
FlowArgs(n) == [sfid : Flows, n : n]

MapsMade == EventsOf("GenerateMap", {0})
MapsSent == EventsOf("HandleMapMsg", Layouts)
RequestsDue == EventsOf("MakeRequest", FlowArgs({0}))
RequestsSent == EventsOf("ReceiveRequest", FlowArgs(0..MaxUnsent))
BurstsDue == EventsOf("PrepareBurst", FlowArgs(1..MinislotsPerMap))
LoadsDue == EventsOf("LoadMapState", FlowArgs(Nat))
FramesDue == EventsOf("SendFrame", FlowArgs(Nat))
DumpsDue == EventsOf("DumpGrant", FlowArgs({0}))
Events == MapsMade \cup MapsSent \cup RequestsDue \cup RequestsSent
            \cup BurstsDue \cup LoadsDue \cup FramesDue \cup DumpsDue

\* What a MAP makes the modem do, and when that counts: a burst is prepared
\* ahead of its frame.
OfMap(e) == e.event \in {"PrepareBurst", "LoadMapState", "SendFrame", "DumpGrant"}
Counts(e) == e.in + (IF e.event = "PrepareBurst" THEN PrepTicks ELSE 0)

\* A MAP is still to come, and when the interval it describes begins.
ToCome(e) == e.event \in {"GenerateMap", "HandleMapMsg"}
Begins(e) == e.in + ProcTicks + (IF e.event = "GenerateMap" THEN MapTicks ELSE 0)

\* There is one scheduler, MAPs describe intervals that follow each other, and
\* what a MAP made the modem do is done before the next interval begins.
Apart(d, e) ==
  /\ ~ (d.event = "GenerateMap" /\ e.event = "GenerateMap")
  /\ d.event = "HandleMapMsg" /\ e.event = "GenerateMap" =>
       Begins(d) + MapInterval <= Begins(e)
  /\ d.event = "HandleMapMsg" /\ e.event = "HandleMapMsg" =>
       Begins(d) + MapInterval <= Begins(e) \/ Begins(e) + MapInterval <= Begins(d)
  /\ OfMap(d) /\ ToCome(e) => Counts(d) < Begins(e)

Spaced(list) == \A i, j \in 1 .. Len(list) : i # j => Apart(list[i], list[j])

\* A grant pipeline holds the grants of the bursts to prepare.
BurstsOf(f) == {e \in BurstsDue : e.arg.sfid = f}
GrantOf(burst) == [bytes |-> MinislotsToBytes(burst.arg.n), in |-> burst.in + PrepTicks]
Aligned(pipe, list, f) ==
  \E p : /\ Enumerates(p, Len(pipe), list, BurstsOf(f))
         /\ \A k \in 1 .. Len(pipe) : pipe[k] = GrantOf(list[p[k]])

Grants == [bytes : Nat \ {0}, in : Nat]

\* An event list and grant pipelines that belong together.
Agrees(list, pipes) ==
  /\ list \in Seq(Events) /\ Sorted(list) /\ Spaced(list)
  /\ \A f \in Flows : pipes[f] \in Seq(Grants) /\ Aligned(pipes[f], list, f)

AgendaInv == Agrees(agenda, grantPipeline)

QueuesTyped ==
  \A f \in Flows :
    /\ aqm[f] \in Seq(Nat \ {0}) /\ device[f] \in Seq(Nat \ {0})
    /\ frag[f] \in [size : Nat, sent : Nat] /\ frag[f].sent <= frag[f].size
    /\ transmitPipeline[f] \in Seq(Grants)

CountersTyped ==
  /\ requestPipeline \in [Flows -> Nat] /\ backlog \in [Flows -> Nat]
  /\ usedInMap \in [Flows -> Nat]
  /\ mapState \in [Flows -> [granted : Nat, unused : Nat]]
  /\ msrTokens \in 0..EffectiveBurst /\ sinceUpdate \in Nat

\* Bytes promised to a frame are in the device, and no more is held than the
\* model lets in.
HeldInv ==
  \A f \in Flows :
    TotalOf(transmitPipeline[f]) <= DeviceBytes(f) /\ Unsent(f) <= MaxUnsent

\* The variables that hold something for each flow.
PerFlow ==
  /\ DOMAIN aqm = Flows /\ DOMAIN device = Flows /\ frag \in [Flows -> [size : Nat, sent : Nat]]
  /\ DOMAIN grantPipeline = Flows /\ DOMAIN transmitPipeline = Flows

UpstreamInv == AgendaInv /\ QueuesTyped /\ CountersTyped /\ HeldInv /\ PerFlow

-----------------------------------------------------------------------------
(* Constants and times.                                                    *)

\* What is assumed of the constants.
LEMMA ConstantFacts ==
  /\ CLASSIC_SFID \in Flows /\ CLASSIC_SFID # LOW_LATENCY_SFID
  /\ \A f \in Flows : f \in {CLASSIC_SFID, LOW_LATENCY_SFID}
  /\ FrameTicks \in Nat /\ FrameTicks > 1 /\ FramesPerMap \in Nat \ {0}
  /\ MinislotsPerFrame \in Nat \ {0} /\ Capacity \in Nat \ {0}
  /\ StartupMaps \in Nat \ {0} /\ ProcTicks \in Nat /\ PrepTicks \in Nat
  /\ PrepTicks <= ProcTicks /\ RequestTicks \in Nat /\ MapTicks \in Nat
  /\ Rate \in Nat /\ PeakRate \in Nat /\ MaxUnsent \in Nat /\ MaxBacklog \in Nat
  /\ EffectiveBurst \in Nat /\ MaxTrafficBurst \in 0..EffectiveBurst
BY FlowAssumption, TimingAssumption, TrafficAssumption
   DEF CLASSIC_SFID, LOW_LATENCY_SFID, EffectiveBurst

\* A product of naturals is a natural, and grows with its factors.
LEMMA ProductFacts ==
  ASSUME NEW a \in Nat, NEW b \in Nat
  PROVE  /\ a * b \in Nat
         /\ \A c \in Nat : c <= a => c * b <= a * b
         /\ \A c \in Nat : c < a => c * b + b <= a * b
         /\ a # 0 /\ b # 0 => a * b # 0
<1>1. a * b \in Nat
  BY Z3
<1>2. ASSUME NEW c \in Nat, c <= a PROVE c * b <= a * b
  <2>1. a - c \in Nat /\ (a - c) * b \in Nat /\ (a - c) * b = a * b - c * b /\ c * b \in Nat
    BY <1>2, Z3
  <2> QED BY <2>1, <1>1
<1>3. ASSUME NEW c \in Nat, c < a PROVE c * b + b <= a * b
  <2>1. c + 1 \in Nat /\ c + 1 <= a
    BY <1>3
  <2>2. (c + 1) * b <= a * b
    BY <2>1, <1>2
  <2>3. (c + 1) * b = c * b + b
    BY Z3
  <2> QED BY <2>2, <2>3
<1>4. ASSUME a # 0, b # 0 PROVE a * b # 0
  BY <1>4, Z3
<1> QED BY <1>1, <1>2, <1>3, <1>4

\* A number of frames takes less time than a MAP, if it is smaller.
LEMMA MapIntervalFacts ==
  /\ MapInterval \in Nat /\ MapInterval > 0
  /\ \A k \in 0 .. FramesPerMap - 1 :
       k * FrameTicks \in Nat /\ k * FrameTicks + FrameTicks <= MapInterval
  /\ FirstGenerateMap \in Nat
<1>1. MapInterval \in Nat /\ MapInterval # 0
  BY ConstantFacts, ProductFacts DEF MapInterval
<1>2. ASSUME NEW k \in 0 .. FramesPerMap - 1
      PROVE  k * FrameTicks \in Nat /\ k * FrameTicks + FrameTicks <= MapInterval
  <2>1. k \in Nat /\ k < FramesPerMap /\ FramesPerMap \in Nat /\ FrameTicks \in Nat
    BY ConstantFacts
  <2>2. k * FrameTicks \in Nat
    BY <2>1, ProductFacts
  <2>3. k * FrameTicks + FrameTicks <= FramesPerMap * FrameTicks
    BY <2>1, ProductFacts
  <2> QED BY <2>2, <2>3 DEF MapInterval
<1>3. FirstGenerateMap \in Nat
  <2>1. StartupMaps * FramesPerMap * FrameTicks = StartupMaps * MapInterval
    <3>1. StartupMaps \in Nat /\ FramesPerMap \in Nat /\ FrameTicks \in Nat
      BY ConstantFacts
    <3> QED BY <3>1, Z3 DEF MapInterval
  <2>2. MapTicks + ProcTicks <= StartupMaps * MapInterval
    BY <2>1, TimingAssumption
  <2>3. StartupMaps * MapInterval \in Nat
    BY <1>1, ConstantFacts, ProductFacts
  <2> QED BY <2>2, <2>3, ConstantFacts DEF FirstGenerateMap
<1> QED BY <1>1, <1>2, <1>3

\* Frame k holds the minislots from k times to k + 1 times MinislotsPerFrame.
LEMMA FrameFacts ==
  ASSUME NEW offset \in Nat, offset < MinislotsPerMap
  PROVE  LET k == GetFrameForMinislot(offset) IN
         /\ k \in 0 .. FramesPerMap - 1
         /\ offset \in k * MinislotsPerFrame .. (k + 1) * MinislotsPerFrame - 1
         /\ \A earlier \in Nat : earlier <= offset =>
              GetFrameForMinislot(earlier) \in 0..k
<1> DEFINE m == MinislotsPerFrame
           k == offset \div m
<1>0. m \in Nat /\ m > 0 /\ FramesPerMap \in Nat
  BY ConstantFacts
<1> HIDE DEF m
<1>1. \A n \in Nat : /\ n \div m \in Nat
                     /\ (n \div m) * m <= n /\ n < (n \div m) * m + m
  BY <1>0, Z3
<1>2. k \in Nat /\ k * m <= offset /\ offset < k * m + m /\ k * m \in Nat
  <2>1. k \in Nat /\ k * m <= offset /\ offset < k * m + m
    BY <1>1
  <2> QED BY <2>1, <1>0, ProductFacts
<1>3. (k + 1) * m = k * m + m
  BY <1>0, <1>2, Z3
<1>4. offset < FramesPerMap * m
  BY DEF MinislotsPerMap, m
<1> HIDE DEF k
<1>5. k < FramesPerMap
  <2> SUFFICES ASSUME FramesPerMap <= k PROVE FALSE
    BY <1>0, <1>2
  <2>1. FramesPerMap * m <= k * m
    BY <1>0, <1>2, ProductFacts
  <2>2. FramesPerMap * m \in Nat
    BY <1>0, ProductFacts
  <2> QED BY <2>1, <2>2, <1>2, <1>4
<1>6. ASSUME NEW n \in Nat, n <= offset PROVE n \div m \in 0..k
  <2> DEFINE j == n \div m
  <2>1. j \in Nat /\ j * m <= n
    BY <1>1
  <2> HIDE DEF j
  <2>2. j * m \in Nat
    BY <2>1, <1>0, ProductFacts
  <2>3. ~ (k < j)
    <3> SUFFICES ASSUME k < j PROVE FALSE
      OBVIOUS
    <3>1. k * m + m <= j * m
      BY <1>0, <1>2, <2>1, ProductFacts
    <3> QED BY <3>1, <2>1, <2>2, <1>2, <1>6, <1>0
  <2> QED BY <2>1, <2>3, <1>2 DEF j
<1>7. GetFrameForMinislot(offset) = k /\ \A n \in Nat : GetFrameForMinislot(n) = n \div m
  BY DEF GetFrameForMinislot, k, m
<1>8. k \in 0 .. FramesPerMap - 1 /\ offset \in k * m .. (k + 1) * m - 1
  BY <1>0, <1>2, <1>3, <1>5
<1> QED BY <1>6, <1>7, <1>8 DEF m

\* Grants are at the times of their frames, and later ones not earlier.
LEMMA GrantTimeFacts ==
  ASSUME NEW g, g.offset \in Nat, g.offset < MinislotsPerMap
  PROVE  /\ GrantTime(g) \in Nat /\ GrantTime(g) >= ProcTicks
         /\ GrantTime(g) + FrameTicks <= ProcTicks + MapInterval
         /\ \A d : d.offset \in Nat /\ d.offset <= g.offset => GrantTime(d) <= GrantTime(g)
<1> DEFINE k == GetFrameForMinislot(g.offset)
<1>1. k \in 0 .. FramesPerMap - 1
  BY FrameFacts
<1>2. \A n \in Nat : n <= g.offset => GetFrameForMinislot(n) \in 0..k
  BY FrameFacts
<1> HIDE DEF k
<1>3. k * FrameTicks \in Nat /\ k * FrameTicks + FrameTicks <= MapInterval
  BY <1>1, MapIntervalFacts
<1>4. GrantTime(g) = ProcTicks + k * FrameTicks
  BY DEF GrantTime, k
<1>5. ASSUME NEW d, d.offset \in Nat, d.offset <= g.offset PROVE GrantTime(d) <= GrantTime(g)
  <2> DEFINE j == GetFrameForMinislot(d.offset)
  <2>1. j \in 0..k
    BY <1>2, <1>5
  <2>2. GrantTime(d) = ProcTicks + j * FrameTicks
    BY DEF GrantTime
  <2> HIDE DEF j
  <2>3. j \in Nat /\ k \in Nat /\ j <= k /\ FrameTicks \in Nat
    BY <2>1, <1>1, ConstantFacts
  <2>4. j * FrameTicks <= k * FrameTicks /\ j * FrameTicks \in Nat
    BY <2>3, ProductFacts
  <2> QED BY <1>3, <1>4, <2>2, <2>4, ConstantFacts
<1> QED BY <1>3, <1>4, <1>5, MapIntervalFacts, ConstantFacts

-----------------------------------------------------------------------------
(* The event list.                                                         *)

\* What an event is.
LEMMA EventFacts ==
  ASSUME NEW e \in Events
  PROVE  /\ e.in \in Nat
         /\ e.event = "GenerateMap" => e \in MapsMade
         /\ e.event = "HandleMapMsg" => e \in MapsSent
         /\ e.event = "MakeRequest" => e \in RequestsDue
         /\ e.event = "ReceiveRequest" => e \in RequestsSent
         /\ e.event = "PrepareBurst" => e \in BurstsDue
         /\ e.event = "LoadMapState" => e \in LoadsDue
         /\ e.event = "SendFrame" => e \in FramesDue
         /\ e.event = "DumpGrant" => e \in DumpsDue
BY DEF Events, EventsOf, MapsMade, MapsSent, RequestsDue, RequestsSent, BurstsDue,
       LoadsDue, FramesDue, DumpsDue

\* What a list of events is.
LEMMA ListFacts ==
  ASSUME NEW list \in Seq(Events)
  PROVE  /\ Timed(list) /\ Len(list) \in Nat /\ DOMAIN list = 1 .. Len(list)
         /\ \A i \in 1 .. Len(list) : list[i] \in Events /\ list[i].in \in Nat
         /\ list # <<>> => Len(list) > 0 /\ Head(list) = list[1]
<1>1. Len(list) \in Nat /\ DOMAIN list = 1 .. Len(list)
  BY LenProperties
<1>2. \A i \in 1 .. Len(list) : list[i] \in Events /\ list[i].in \in Nat
  BY ElementOfSeq, EventFacts
<1>3. list # <<>> => Len(list) > 0 /\ Head(list) = list[1]
  BY EmptySeq, HeadTailProperties
<1> QED BY <1>1, <1>2, <1>3 DEF Timed

\* When the event in front is taken from the list.
LEMMA RestFacts ==
  ASSUME NEW list \in Seq(Events), Sorted(list), Spaced(list), list # <<>>
  PROVE  /\ Tail(list) \in Seq(Events) /\ Sorted(Tail(list)) /\ Spaced(Tail(list))
         /\ Len(Tail(list)) = Len(list) - 1
         /\ \A i \in 1 .. Len(Tail(list)) :
              Tail(list)[i] = list[i + 1] /\ Apart(Tail(list)[i], Head(list))
                /\ Apart(Head(list), Tail(list)[i]) /\ Head(list).in <= Tail(list)[i].in
<1> DEFINE n == Len(list)
           t == Tail(list)
<1>1. n \in Nat /\ n > 0 /\ DOMAIN list = 1..n /\ Head(list) = list[1]
  BY ListFacts
<1>2. t \in Seq(Events) /\ Len(t) = n - 1 /\ \A i \in 1 .. n - 1 : t[i] = list[i + 1]
  BY HeadTailProperties
<1>3. DOMAIN t = 1 .. n - 1
  BY <1>2, ListFacts
<1>4. \A i, j \in 1..n : i <= j => list[i].in <= list[j].in
  BY <1>1 DEF Sorted
<1>5. \A i, j \in 1..n : i # j => Apart(list[i], list[j])
  BY DEF Spaced
<1> HIDE DEF n, t
<1>6. \A i \in 1 .. n - 1 : i + 1 \in 1..n /\ i + 1 # 1 /\ 1 <= i + 1 /\ 1 \in 1..n
  BY <1>1
<1>7. Sorted(t)
  <2> SUFFICES ASSUME NEW i \in 1 .. n - 1, NEW j \in 1 .. n - 1, i <= j
               PROVE  t[i].in <= t[j].in
    BY <1>3 DEF Sorted
  <2>1. i + 1 <= j + 1
    OBVIOUS
  <2> QED BY <2>1, <1>2, <1>4, <1>6
<1>8. Spaced(t)
  <2> SUFFICES ASSUME NEW i \in 1 .. n - 1, NEW j \in 1 .. n - 1, i # j
               PROVE  Apart(t[i], t[j])
    BY <1>2 DEF Spaced
  <2>1. i + 1 # j + 1
    OBVIOUS
  <2> QED BY <2>1, <1>2, <1>5, <1>6
<1>9. ASSUME NEW i \in 1 .. n - 1
      PROVE  /\ t[i] = list[i + 1] /\ Apart(t[i], list[1]) /\ Apart(list[1], t[i])
             /\ list[1].in <= t[i].in
  BY <1>2, <1>4, <1>5, <1>6
<1> QED BY <1>1, <1>2, <1>7, <1>8, <1>9 DEF n, t

\* Merging in events that keep apart from each other and from the list.
LEMMA MergeSpaced ==
  ASSUME NEW old, NEW new, NEW events, NEW a, NEW b,
         Len(old) \in Nat, Len(events) \in Nat,
         Merged(new, old, events, Len(events), a, b), Spaced(old), Spaced(events),
         \A i \in 1 .. Len(old), j \in 1 .. Len(events) :
           Apart(old[i], events[j]) /\ Apart(events[j], old[i])
  PROVE  Spaced(new)
<1> DEFINE n == Len(old)
           m == Len(events)
<1>1. ASSUME NEW p \in 1 .. Len(new)
      PROVE  \/ \E i \in 1..n : p = a[i] /\ new[p] = old[i]
             \/ \E j \in 1..m : p = b[j] /\ new[p] = events[j]
  <2>1. (\E i \in 1..n : p = a[i]) \/ (\E j \in 1..m : p = b[j])
    BY DEF Merged
  <2>2. \A i \in 1..n : new[a[i]] = old[i]
    BY DEF Merged
  <2>3. \A j \in 1..m : new[b[j]] = events[j]
    BY DEF Merged
  <2> HIDE DEF n, m
  <2> QED BY <2>1, <2>2, <2>3
<1>2. /\ \A i, j \in 1..n : i # j => Apart(old[i], old[j])
      /\ \A i, j \in 1..m : i # j => Apart(events[i], events[j])
      /\ \A i \in 1..n, j \in 1..m : Apart(old[i], events[j]) /\ Apart(events[j], old[i])
  BY DEF Spaced
<1> HIDE DEF n, m
<1> SUFFICES ASSUME NEW p \in 1 .. Len(new), NEW q \in 1 .. Len(new), p # q
             PROVE  Apart(new[p], new[q])
  BY DEF Spaced
<1>3. CASE (\E i \in 1..n : p = a[i] /\ new[p] = old[i])
             /\ (\E j \in 1..n : q = a[j] /\ new[q] = old[j])
  BY <1>2, <1>3
<1>4. CASE (\E i \in 1..n : p = a[i] /\ new[p] = old[i])
             /\ (\E j \in 1..m : q = b[j] /\ new[q] = events[j])
  BY <1>2, <1>4
<1>5. CASE (\E i \in 1..m : p = b[i] /\ new[p] = events[i])
             /\ (\E j \in 1..n : q = a[j] /\ new[q] = old[j])
  BY <1>2, <1>5
<1>6. CASE (\E i \in 1..m : p = b[i] /\ new[p] = events[i])
             /\ (\E j \in 1..m : q = b[j] /\ new[q] = events[j])
  BY <1>2, <1>6
<1> QED BY <1>1, <1>3, <1>4, <1>5, <1>6

\* An event with an earlier list is merged into it.
LEMMA ScheduleMerges ==
  ASSUME NEW list \in Seq(Events), Sorted(list), NEW event \in Events
  PROVE  /\ Schedule(list, event) \in Seq(Events)
         /\ Sorted(Schedule(list, event))
         /\ \E a, b : Merged(Schedule(list, event), list, <<event>>, 1, a, b)
<1> DEFINE new == Schedule(list, event)
           id == [i \in 1 .. Len(list) |-> i]
<1>1. Timed(list) /\ event.in \in Nat /\ Len(list) \in Nat
  BY ListFacts, EventFacts
<1>2. PICK k \in Nat : Inserted(new, list, k, event)
  BY <1>1, ScheduleInserts
<1>3. new \in Seq(Events)
  BY <1>1, ScheduleInserts
<1>4. Sorted(new)
  BY <1>1, <1>2, <1>3, InsertInOrder
<1>5. Merged(list, list, <<event>>, 0, id, id)
  <2>1. \A i \in 1 .. Len(list) : id[i] = i
    OBVIOUS
  <2> HIDE DEF id
  <2> QED BY <2>1, <1>1 DEF Merged
<1>6. <<event>>[0 + 1] = event /\ 0 + 1 = 1
  OBVIOUS
<1> HIDE DEF new, id
<1>7. \E c, d : Merged(new, list, <<event>>, 0 + 1, c, d)
  <2>1. Inserted(new, list, k, <<event>>[0 + 1])
    BY <1>2, <1>6
  <2> QED BY <2>1, <1>1, <1>5, MergeOneMore
<1> QED BY <1>3, <1>4, <1>6, <1>7 DEF new

-----------------------------------------------------------------------------
(* Grant pipelines.                                                        *)

\* The event in front is no burst of the flow.
LEMMA AlignedOthers ==
  ASSUME NEW list \in Seq(Events), list # <<>>, NEW f, Head(list) \notin BurstsOf(f),
         NEW pipe, Aligned(pipe, list, f)
  PROVE  Aligned(pipe, Tail(list), f)
<1>1. PICK p : /\ Enumerates(p, Len(pipe), list, BurstsOf(f))
               /\ \A k \in 1 .. Len(pipe) : pipe[k] = GrantOf(list[p[k]])
  BY DEF Aligned
<1>2. PICK r : EnumeratesOthers(r, p, Len(pipe), list, BurstsOf(f))
  BY <1>1, EnumerateOthers
<1>3. \A k \in 1 .. Len(pipe) : pipe[k] = GrantOf(Tail(list)[r[k]])
  BY <1>1, <1>2 DEF EnumeratesOthers
<1> QED BY <1>2, <1>3 DEF Aligned, EnumeratesOthers

\* The event in front is a burst of the flow: it is for the grant in front.
LEMMA AlignedFront ==
  ASSUME NEW list \in Seq(Events), list # <<>>, NEW f, Head(list) \in BurstsOf(f),
         NEW pipe \in Seq(Grants), Aligned(pipe, list, f)
  PROVE  /\ pipe # <<>> /\ Head(pipe) = GrantOf(Head(list))
         /\ Tail(pipe) \in Seq(Grants) /\ Aligned(Tail(pipe), Tail(list), f)
<1> DEFINE m == Len(pipe)
<1>1. PICK p : /\ Enumerates(p, m, list, BurstsOf(f))
               /\ \A k \in 1..m : pipe[k] = GrantOf(list[p[k]])
  BY DEF Aligned
<1>2. m > 0 /\ p[1] = 1 /\ m \in Nat
  <2>1. m > 0 /\ p[1] = 1
    BY <1>1, EnumerateRest
  <2> QED BY <2>1, LenProperties
<1>a. PICK r : EnumeratesRest(r, p, m, list, BurstsOf(f))
  BY <1>1, EnumerateRest
<1>3. /\ Enumerates(r, m - 1, Tail(list), BurstsOf(f))
      /\ \A k \in 1 .. m - 1 : Tail(list)[r[k]] = list[p[k + 1]]
  BY <1>a DEF EnumeratesRest
<1>4. pipe # <<>>
  <2>1. Len(<<>>) = 0
    OBVIOUS
  <2> QED BY <1>2, <2>1
<1>5. /\ Head(pipe) = pipe[1] /\ Tail(pipe) \in Seq(Grants) /\ Len(Tail(pipe)) = m - 1
      /\ \A k \in 1 .. m - 1 : Tail(pipe)[k] = pipe[k + 1]
  BY <1>4, HeadTailProperties
<1>6. Head(list) = list[1]
  BY ListFacts
<1> HIDE DEF m
<1>7. pipe[1] = GrantOf(list[1])
  <2>1. 1 \in 1..m
    BY <1>2
  <2> QED BY <2>1, <1>1, <1>2
<1>8. \A k \in 1 .. m - 1 : Tail(pipe)[k] = GrantOf(Tail(list)[r[k]])
  <2> SUFFICES ASSUME NEW k \in 1 .. m - 1 PROVE Tail(pipe)[k] = GrantOf(Tail(list)[r[k]])
    OBVIOUS
  <2>1. k + 1 \in 1..m
    BY <1>2
  <2> QED BY <2>1, <1>1, <1>3, <1>5
<1>9. Aligned(Tail(pipe), Tail(list), f)
  <2>1. /\ Enumerates(r, Len(Tail(pipe)), Tail(list), BurstsOf(f))
        /\ \A k \in 1 .. Len(Tail(pipe)) : Tail(pipe)[k] = GrantOf(Tail(list)[r[k]])
    BY <1>3, <1>5, <1>8
  <2> QED BY <2>1, Zenon DEF Aligned
<1> QED BY <1>4, <1>5, <1>6, <1>7, <1>9

\* A MAP's grants join the pipeline behind those of earlier MAPs.
LEMMA AlignedMerged ==
  ASSUME NEW old \in Seq(Events), NEW new, NEW events \in Seq(Events), NEW a, NEW b,
         Merged(new, old, events, Len(events), a, b), NEW f,
         NEW pipe \in Seq(Grants), NEW added \in Seq(Grants),
         Aligned(pipe, old, f), Aligned(added, events, f),
         \A k \in 1 .. Len(pipe), l \in 1 .. Len(added) : pipe[k].in <= added[l].in,
         \A k, l \in 1 .. Len(added) : k < l => added[k].in <= added[l].in
  PROVE  pipe \o added \in Seq(Grants) /\ Aligned(pipe \o added, new, f)
<1> DEFINE x == Len(pipe)
           y == Len(added)
           T == BurstsOf(f)
<1>1. PICK p : Enumerates(p, x, old, T) /\ \A k \in 1..x : pipe[k] = GrantOf(old[p[k]])
  BY DEF Aligned
<1>2. PICK q : Enumerates(q, y, events, T)
                 /\ \A k \in 1..y : added[k] = GrantOf(events[q[k]])
  BY DEF Aligned
<1>3. /\ x \in Nat /\ y \in Nat /\ pipe \o added \in Seq(Grants)
      /\ Len(pipe \o added) = x + y
      /\ \A k \in 1 .. x + y :
           (pipe \o added)[k] = IF k <= x THEN pipe[k] ELSE added[k - x]
  BY LenProperties, ConcatProperties
<1>4. ASSUME NEW e \in T PROVE e.in \in Nat /\ GrantOf(e).in = e.in + PrepTicks
  BY EventFacts DEF BurstsOf, BurstsDue, EventsOf, GrantOf
<1>5. \A d, e \in T : GrantOf(d).in <= GrantOf(e).in => d.in <= e.in
  BY <1>4, ConstantFacts
<1>6. Len(old) \in Nat /\ Len(events) \in Nat
  BY LenProperties
<1> HIDE DEF x, y, T
<1>7. (\A k \in 1..x : old[p[k]] \in T) /\ (\A k \in 1..y : events[q[k]] \in T)
  BY <1>1, <1>2 DEF Enumerates
<1>8. \A k \in 1..x, l \in 1..y : old[p[k]].in <= events[q[l]].in
  BY <1>1, <1>2, <1>5, <1>7 DEF x, y
<1>9. \A k, l \in 1..y : k < l => events[q[k]].in <= events[q[l]].in
  BY <1>2, <1>5, <1>7 DEF y
<1>a. PICK r : EnumeratesBoth(r, new, p, x, old, q, y, events, T)
  BY <1>1, <1>2, <1>6, <1>8, <1>9, EnumerateMerged
<1>10. /\ Enumerates(r, x + y, new, T)
       /\ \A k \in 1..x : new[r[k]] = old[p[k]]
       /\ \A k \in 1..y : new[r[x + k]] = events[q[k]]
  BY <1>a DEF EnumeratesBoth
<1>11. ASSUME NEW k \in 1 .. x + y PROVE (pipe \o added)[k] = GrantOf(new[r[k]])
  <2>1. CASE k <= x
    <3>1. k \in 1..x
      BY <1>3, <2>1
    <3> QED BY <3>1, <1>1, <1>3, <1>10, <2>1
  <2>2. CASE ~ (k <= x)
    <3> DEFINE j == k - x
    <3>1. j \in 1..y /\ k = x + j
      BY <1>3, <2>2
    <3>2. (pipe \o added)[k] = added[j]
      BY <1>3, <2>2
    <3> HIDE DEF j
    <3>3. added[j] = GrantOf(new[r[x + j]])
      BY <3>1, <1>2, <1>10
    <3> QED BY <3>1, <3>2, <3>3
  <2> QED BY <2>1, <2>2
<1> QED BY <1>3, <1>10, <1>11 DEF Aligned, T

\* Without a burst of the flow there is nothing to align.
LEMMA AlignedNone ==
  ASSUME NEW list \in Seq(Events), NEW f, \A i \in 1 .. Len(list) : list[i] \notin BurstsOf(f)
  PROVE  Aligned(<<>>, list, f)
<1> DEFINE none == [k \in 1..0 |-> 0]
<1>1. Len(<<>>) = 0 /\ ~ \E k : k \in 1..0
  OBVIOUS
<1>2. Enumerates(none, 0, list, BurstsOf(f))
  BY <1>1 DEF Enumerates
<1> HIDE DEF none
<1> QED BY <1>1, <1>2 DEF Aligned

\* One list after the other.
LEMMA AlignedConcat ==
  ASSUME NEW s \in Seq(Events), NEW t \in Seq(Events), NEW f,
         NEW pipe \in Seq(Grants), NEW added \in Seq(Grants),
         Aligned(pipe, s, f), Aligned(added, t, f)
  PROVE  pipe \o added \in Seq(Grants) /\ Aligned(pipe \o added, s \o t, f)
<1> DEFINE x == Len(pipe)
           y == Len(added)
           T == BurstsOf(f)
<1>1. PICK p : Enumerates(p, x, s, T) /\ \A k \in 1..x : pipe[k] = GrantOf(s[p[k]])
  BY DEF Aligned
<1>2. PICK q : Enumerates(q, y, t, T) /\ \A k \in 1..y : added[k] = GrantOf(t[q[k]])
  BY DEF Aligned
<1>3. /\ x \in Nat /\ y \in Nat /\ pipe \o added \in Seq(Grants)
      /\ Len(pipe \o added) = x + y
      /\ \A k \in 1 .. x + y :
           (pipe \o added)[k] = IF k <= x THEN pipe[k] ELSE added[k - x]
  BY LenProperties, ConcatProperties
<1> HIDE DEF x, y, T
<1>4. PICK r : EnumeratesBoth(r, s \o t, p, x, s, q, y, t, T)
  BY <1>1, <1>2, EnumerateConcat
<1>5. /\ Enumerates(r, x + y, s \o t, T)
      /\ \A k \in 1..x : (s \o t)[r[k]] = s[p[k]]
      /\ \A k \in 1..y : (s \o t)[r[x + k]] = t[q[k]]
  BY <1>4 DEF EnumeratesBoth
<1>6. ASSUME NEW k \in 1 .. x + y PROVE (pipe \o added)[k] = GrantOf((s \o t)[r[k]])
  <2>1. CASE k <= x
    <3>1. k \in 1..x
      BY <1>3, <2>1
    <3> QED BY <3>1, <1>1, <1>3, <1>5, <2>1
  <2>2. CASE ~ (k <= x)
    <3> DEFINE j == k - x
    <3>1. j \in 1..y /\ k = x + j
      BY <1>3, <2>2
    <3>2. (pipe \o added)[k] = added[j]
      BY <1>3, <2>2
    <3> HIDE DEF j
    <3>3. added[j] = GrantOf(t[q[j]])
      BY <3>1, <1>2
    <3>4. (s \o t)[r[x + j]] = t[q[j]]
      BY <3>1, <1>5
    <3> QED BY <3>1, <3>2, <3>3, <3>4
  <2> QED BY <2>1, <2>2
<1>7. Aligned(pipe \o added, s \o t, f)
  <2> DEFINE all == pipe \o added
             list == s \o t
  <2> HIDE DEF all, list
  <2>1. /\ Enumerates(r, Len(all), list, T)
        /\ \A k \in 1 .. Len(all) : all[k] = GrantOf(list[r[k]])
    BY <1>3, <1>5, <1>6 DEF all, list
  <2>2. Aligned(all, list, f)
    BY <2>1, Zenon DEF Aligned, T
  <2> QED BY <2>2 DEF all, list
<1> QED BY <1>3, <1>7

-----------------------------------------------------------------------------
(* The passing of time.                                                    *)

\* An event when some of the time to it has passed.
LEMMA LaterEvent ==
  ASSUME NEW e \in Events, NEW t \in Nat, t <= e.in
  PROVE  LET d == [e EXCEPT !.in = @ - t] IN
         d \in Events /\ d.in = e.in - t /\ d.event = e.event /\ d.arg = e.arg
<1> DEFINE d == [e EXCEPT !.in = @ - t]
<1>1. e.in \in Nat /\ e.in - t \in Nat
  BY EventFacts
<1>2. d.in = e.in - t /\ d.event = e.event /\ d.arg = e.arg
  BY DEF Events, EventsOf, MapsMade, MapsSent, RequestsDue, RequestsSent, BurstsDue,
         LoadsDue, FramesDue, DumpsDue
<1>3. ASSUME NEW name, NEW args, e \in EventsOf(name, args) PROVE d \in EventsOf(name, args)
  BY <1>1, <1>3 DEF EventsOf
<1> HIDE DEF d
<1>4. d \in Events
  BY <1>3 DEF Events, MapsMade, MapsSent, RequestsDue, RequestsSent, BurstsDue,
              LoadsDue, FramesDue, DumpsDue
<1> QED BY <1>2, <1>4 DEF d

\* What is apart stays apart.
LEMMA LaterApart ==
  ASSUME NEW d \in Events, NEW e \in Events, Apart(d, e), NEW t \in Nat,
         NEW x, NEW y, x.in = d.in - t, x.event = d.event, y.in = e.in - t, y.event = e.event
  PROVE  Apart(x, y)
<1>1. d.in \in Nat /\ e.in \in Nat /\ x.in \in Int /\ y.in \in Int
  BY EventFacts
<1>2. /\ Begins(d) \in Int /\ Begins(x) = Begins(d) - t
      /\ Begins(e) \in Int /\ Begins(y) = Begins(e) - t
      /\ Counts(d) \in Int /\ Counts(x) = Counts(d) - t
  BY <1>1, ConstantFacts DEF Begins, Counts
<1>3. (OfMap(x) <=> OfMap(d)) /\ (ToCome(y) <=> ToCome(e))
  BY DEF OfMap, ToCome
<1>4. MapInterval \in Int
  BY MapIntervalFacts
<1> QED BY <1>2, <1>3, <1>4 DEF Apart

\* The list and the pipelines when the time of the event in front has come.
LEMMA LaterList ==
  ASSUME NEW list \in Seq(Events), Sorted(list), Spaced(list), list # <<>>
  PROVE  LET t == Head(list).in
             later == Later(list, t)
         IN  /\ t \in Nat /\ later \in Seq(Events) /\ Sorted(later) /\ Spaced(later)
             /\ Len(later) = Len(list)
             /\ \A i \in 1 .. Len(list) :
                  /\ later[i].in = list[i].in - t /\ later[i].event = list[i].event
                  /\ later[i].arg = list[i].arg
<1> DEFINE t == Head(list).in
           later == Later(list, t)
           n == Len(list)
<1>1. /\ Timed(list) /\ n \in Nat /\ DOMAIN list = 1..n
      /\ \A i \in 1..n : list[i] \in Events /\ list[i].in \in Nat
  BY ListFacts
<1>2. /\ later = [i \in DOMAIN list |-> [list[i] EXCEPT !.in = @ - t]]
      /\ t \in Nat /\ \A i \in DOMAIN list : list[i].in - t \in Nat
  BY <1>1, LaterInOrder
<1> HIDE DEF t, n
<1>3. ASSUME NEW i \in 1..n
      PROVE  /\ later[i] \in Events /\ later[i].in = list[i].in - t
             /\ later[i].event = list[i].event /\ later[i].arg = list[i].arg
  <2>1. later[i] = [list[i] EXCEPT !.in = @ - t]
    BY <1>1, <1>2
  <2>2. t <= list[i].in /\ list[i] \in Events
    BY <1>1, <1>2
  <2> DEFINE e == list[i]
             d == [e EXCEPT !.in = @ - t]
  <2>3. later[i] = d
    BY <2>1
  <2> HIDE DEF later, e
  <2>4. e \in Events /\ t \in Nat /\ t <= e.in
    BY <1>2, <2>2 DEF e
  <2>5. d \in Events /\ d.in = e.in - t /\ d.event = e.event /\ d.arg = e.arg
    BY <2>4, LaterEvent
  <2> HIDE DEF d
  <2> QED BY <2>3, <2>5 DEF e
<1>4. DOMAIN later = 1..n
  BY <1>1, <1>2
<1> HIDE DEF later
<1>5. later \in Seq(Events) /\ Len(later) = n
  <2>1. later \in [1..n -> Events]
    BY <1>3, <1>4, <1>1, <1>2
  <2> QED BY <2>1, <1>1, SeqDef, LenProperties
<1>6. Sorted(later)
  <2> SUFFICES ASSUME NEW i \in 1..n, NEW j \in 1..n, i <= j PROVE later[i].in <= later[j].in
    BY <1>4 DEF Sorted
  <2>1. list[i].in <= list[j].in /\ list[i].in \in Nat /\ list[j].in \in Nat
    BY <1>1 DEF Sorted
  <2>2. later[i].in = list[i].in - t /\ later[j].in = list[j].in - t
    BY <1>3
  <2>3. t \in Nat
    BY <1>2
  <2> QED BY <2>1, <2>2, <2>3
<1>7. Spaced(later)
  <2> SUFFICES ASSUME NEW i \in 1..n, NEW j \in 1..n, i # j PROVE Apart(later[i], later[j])
    BY <1>5 DEF Spaced
  <2>1. Apart(list[i], list[j]) /\ list[i] \in Events /\ list[j] \in Events
    BY <1>1 DEF Spaced, n
  <2>2. /\ later[i].in = list[i].in - t /\ later[i].event = list[i].event
        /\ later[j].in = list[j].in - t /\ later[j].event = list[j].event
    BY <1>3
  <2>3. t \in Nat
    BY <1>2
  <2> QED BY <2>1, <2>2, <2>3, LaterApart
<1> QED BY <1>2, <1>3, <1>5, <1>6, <1>7 DEF t, later, n

\* A grant pipeline stays aligned when time passes.
LEMMA LaterAligned ==
  ASSUME NEW list \in Seq(Events), NEW later \in Seq(Events), Len(later) = Len(list),
         NEW t \in Nat,
         \A i \in 1 .. Len(list) :
           /\ later[i].in = list[i].in - t /\ later[i].event = list[i].event
           /\ later[i].arg = list[i].arg,
         NEW f, NEW pipe \in Seq(Grants), Aligned(pipe, list, f)
  PROVE  Later(pipe, t) \in Seq(Grants) /\ Aligned(Later(pipe, t), later, f)
<1> DEFINE n == Len(list)
           m == Len(pipe)
           new == Later(pipe, t)
<1>1. PICK p : Enumerates(p, m, list, BurstsOf(f)) /\ \A k \in 1..m : pipe[k] = GrantOf(list[p[k]])
  BY DEF Aligned
<1>2. /\ n \in Nat /\ m \in Nat /\ DOMAIN pipe = 1..m
      /\ \A k \in 1..m : pipe[k] \in Grants
  BY ListFacts, LenProperties, ElementOfSeq
<1>3. new = [k \in 1..m |-> [pipe[k] EXCEPT !.in = @ - t]]
  BY <1>2 DEF Later
<1>4. \A i \in 1..n : list[i] \in Events /\ later[i] \in Events
  BY ListFacts
<1> HIDE DEF n, m
<1>5. \A e \in Events : e \in BurstsOf(f) <=> e.event = "PrepareBurst" /\ e.arg.sfid = f
  <2> SUFFICES ASSUME NEW e \in Events
               PROVE  e \in BurstsOf(f) <=> e.event = "PrepareBurst" /\ e.arg.sfid = f
    OBVIOUS
  <2>1. e.event = "PrepareBurst" => e \in BurstsDue
    BY EventFacts
  <2>2. e \in BurstsDue => e.event = "PrepareBurst"
    BY DEF BurstsDue, EventsOf
  <2> QED BY <2>1, <2>2 DEF BurstsOf
<1>6. Enumerates(p, m, later, BurstsOf(f))
  <2>1. \A i \in 1..n : list[i] \in BurstsOf(f) <=> later[i] \in BurstsOf(f)
    BY <1>4, <1>5 DEF n
  <2> QED BY <1>1, <2>1, EnumerateSame DEF n
<1>7. ASSUME NEW k \in 1..m PROVE new[k] \in Grants /\ new[k] = GrantOf(later[p[k]])
  <2> DEFINE e == list[p[k]]
             d == later[p[k]]
  <2>1. p[k] \in 1..n /\ pipe[k] = GrantOf(e) /\ pipe[k] \in Grants
    BY <1>1, <1>2 DEF Enumerates, n
  <2>2. d.in = e.in - t /\ d.arg = e.arg /\ d.in \in Nat /\ e.in \in Nat
    BY <2>1, <1>4, EventFacts DEF n
  <2>3. new[k] = [pipe[k] EXCEPT !.in = @ - t]
    BY <1>3
  <2> HIDE DEF d, e
  <2>4. new[k].bytes = pipe[k].bytes /\ new[k] = [bytes |-> pipe[k].bytes, in |-> pipe[k].in - t]
    BY <2>1, <2>3 DEF Grants
  <2>5. pipe[k].bytes = MinislotsToBytes(e.arg.n) /\ pipe[k].in = e.in + PrepTicks
    BY <2>1 DEF GrantOf
  <2>6. pipe[k].in - t = d.in + PrepTicks /\ d.in + PrepTicks \in Nat
    BY <2>2, <2>5, ConstantFacts
  <2>7. new[k] = GrantOf(d)
    BY <2>2, <2>4, <2>5, <2>6 DEF GrantOf
  <2>8. new[k] \in Grants
    BY <2>1, <2>4, <2>6 DEF Grants
  <2> QED BY <2>7, <2>8 DEF d
<1>8. new \in Seq(Grants) /\ Len(new) = m
  <2>1. new \in [1..m -> Grants]
    BY <1>3, <1>7
  <2> QED BY <2>1, <1>2, SeqDef, LenProperties
<1> QED BY <1>6, <1>7, <1>8 DEF Aligned

-----------------------------------------------------------------------------
(* What a MAP makes the modem do.                                          *)

\* The grants of a flow follow each other in the MAP.
Placed(grants) ==
  /\ grants \in Seq([offset : Nat, length : Nat \ {0}])
  /\ \A i \in 1 .. Len(grants) : grants[i].offset + grants[i].length <= MinislotsPerMap
  /\ \A i, j \in 1 .. Len(grants) :
       i < j => grants[i].offset + grants[i].length <= grants[j].offset

\* The events that a MAP makes for a flow, all within the MAP's interval.
Interval == ProcTicks .. ProcTicks + MapInterval - 1
MadeFor(f) ==
  {e \in RequestsDue \cup BurstsDue \cup LoadsDue \cup FramesDue \cup DumpsDue :
     e.arg.sfid = f /\ (OfMap(e) => Counts(e) \in Interval)}
Made == UNION {MadeFor(f) : f \in Flows}

\* What is assumed of the grants of a MAP.
LEMMA LayoutFacts ==
  ASSUME NEW layout \in Layouts, NEW f \in Flows
  PROVE  Placed(layout[f])
<1> DEFINE grants == layout[f]
<1>1. /\ grants \in Seq([offset : Nat, length : Nat \ {0}])
      /\ \A i \in DOMAIN grants : grants[i].offset + grants[i].length <= MinislotsPerMap
      /\ \A i, j \in DOMAIN grants :
           i < j => grants[i].offset + grants[i].length <= grants[j].offset
  BY LayoutAssumption
<1> HIDE DEF grants
<1>2. DOMAIN grants = 1 .. Len(grants)
  BY <1>1, LenProperties
<1> QED BY <1>1, <1>2 DEF Placed, grants

\* A number of minislots in bytes.
LEMMA MinislotFacts ==
  ASSUME NEW n \in Nat
  PROVE  MinislotsToBytes(n) \in Nat /\ (n # 0 => MinislotsToBytes(n) # 0)
BY ConstantFacts, ProductFacts DEF MinislotsToBytes

\* Each grant has its place in the MAP, its time and its bytes.
LEMMA GrantFacts ==
  ASSUME NEW grants, Placed(grants)
  PROVE  /\ Len(grants) \in Nat /\ DOMAIN grants = 1 .. Len(grants)
         /\ \A i \in 1 .. Len(grants) :
              /\ grants[i].offset \in Nat /\ grants[i].length \in Nat \ {0}
              /\ grants[i].offset < MinislotsPerMap
              /\ GrantTime(grants[i]) \in Nat /\ GrantTime(grants[i]) >= ProcTicks
              /\ GrantTime(grants[i]) + FrameTicks <= ProcTicks + MapInterval
         /\ \A i, j \in 1 .. Len(grants) :
              i < j => GrantTime(grants[i]) <= GrantTime(grants[j])
         /\ GrantedMinislots(grants) \in Nat /\ GrantedBytes(grants) \in Nat
<1> DEFINE n == Len(grants)
<1>1. n \in Nat /\ DOMAIN grants = 1..n
  BY LenProperties DEF Placed
<1>2. ASSUME NEW i \in 1..n
      PROVE  /\ grants[i].offset \in Nat /\ grants[i].length \in Nat \ {0}
             /\ grants[i].offset < MinislotsPerMap
  <2>1. grants[i] \in [offset : Nat, length : Nat \ {0}]
    BY ElementOfSeq DEF Placed
  <2>2. grants[i].offset \in Nat /\ grants[i].length \in Nat \ {0}
    BY <2>1
  <2>3. grants[i].offset + grants[i].length <= MinislotsPerMap
    BY DEF Placed
  <2>4. MinislotsPerMap \in Nat
    BY ConstantFacts, ProductFacts DEF MinislotsPerMap
  <2> QED BY <2>2, <2>3, <2>4
<1>3. \A i \in 1..n :
        /\ GrantTime(grants[i]) \in Nat /\ GrantTime(grants[i]) >= ProcTicks
        /\ GrantTime(grants[i]) + FrameTicks <= ProcTicks + MapInterval
  BY <1>2, GrantTimeFacts
<1>4. ASSUME NEW i \in 1..n, NEW j \in 1..n, i < j
      PROVE  GrantTime(grants[i]) <= GrantTime(grants[j])
  <2>1. grants[i].offset + grants[i].length <= grants[j].offset
    BY <1>4 DEF Placed
  <2>2. grants[i].offset <= grants[j].offset
    BY <2>1, <1>2
  <2> QED BY <2>2, <1>2, GrantTimeFacts
<1>5. GrantedMinislots(grants) \in Nat
  <2> DEFINE lengths == [i \in DOMAIN grants |-> grants[i].length]
  <2>1. lengths \in [1..n -> Nat]
    BY <1>1, <1>2
  <2>2. lengths \in Seq(Nat)
    BY <2>1, <1>1, SeqDef
  <2> HIDE DEF lengths
  <2>3. SumSeq(lengths) \in Nat
    BY <2>2, SumIsNat
  <2> QED BY <2>3 DEF GrantedMinislots, lengths
<1>6. GrantedBytes(grants) \in Nat
  BY <1>5, MinislotFacts DEF GrantedBytes
<1> QED BY <1>1, <1>2, <1>3, <1>4, <1>5, <1>6

\* A grant has a minislot at least, and a MAP's at most.
LEMMA GrantLength ==
  ASSUME NEW grants, Placed(grants), NEW i \in 1 .. Len(grants)
  PROVE  grants[i].length \in 1..MinislotsPerMap
<1>1. grants[i].offset \in Nat /\ grants[i].length \in Nat \ {0}
  BY GrantFacts
<1>2. grants[i].offset + grants[i].length <= MinislotsPerMap
  BY DEF Placed
<1>3. MinislotsPerMap \in Nat
  BY ConstantFacts, ProductFacts DEF MinislotsPerMap
<1> QED BY <1>1, <1>2, <1>3

\* The grants of a MAP as the pipeline holds them.
LEMMA PipelinedFacts ==
  ASSUME NEW grants, Placed(grants)
  PROVE  /\ Pipelined(grants) \in Seq(Grants) /\ Len(Pipelined(grants)) = Len(grants)
         /\ \A i \in 1 .. Len(grants) :
              Pipelined(grants)[i] = [bytes |-> MinislotsToBytes(grants[i].length),
                                      in |-> GrantTime(grants[i])]
         /\ \A i, j \in 1 .. Len(grants) :
              i < j => Pipelined(grants)[i].in <= Pipelined(grants)[j].in
<1> DEFINE n == Len(grants)
           pipe == Pipelined(grants)
<1>1. /\ n \in Nat /\ DOMAIN grants = 1..n
      /\ \A i \in 1..n : grants[i].length \in Nat \ {0} /\ GrantTime(grants[i]) \in Nat
      /\ \A i, j \in 1..n : i < j => GrantTime(grants[i]) <= GrantTime(grants[j])
  BY GrantFacts
<1>2. pipe = [i \in 1..n |-> [bytes |-> MinislotsToBytes(grants[i].length),
                              in |-> GrantTime(grants[i])]]
  BY <1>1 DEF Pipelined
<1>3. \A i \in 1..n : MinislotsToBytes(grants[i].length) \in Nat \ {0}
  BY <1>1, MinislotFacts
<1> HIDE DEF pipe
<1>4. pipe \in [1..n -> Grants]
  BY <1>1, <1>2, <1>3 DEF Grants
<1>5. pipe \in Seq(Grants) /\ Len(pipe) = n
  BY <1>1, <1>4, SeqDef, LenProperties
<1>6. \A i \in 1..n : pipe[i] = [bytes |-> MinislotsToBytes(grants[i].length),
                                 in |-> GrantTime(grants[i])]
  BY <1>2
<1>7. ASSUME NEW i \in 1..n, NEW j \in 1..n, i < j PROVE pipe[i].in <= pipe[j].in
  <2> DEFINE at(k) == [bytes |-> MinislotsToBytes(grants[k].length),
                       in |-> GrantTime(grants[k])]
  <2>1. pipe[i].in = GrantTime(grants[i]) /\ pipe[j].in = GrantTime(grants[j])
    <3>1. pipe[i] = at(i) /\ pipe[j] = at(j)
      BY <1>6
    <3>2. at(i).in = GrantTime(grants[i]) /\ at(j).in = GrantTime(grants[j])
      OBVIOUS
    <3> QED BY <3>1, <3>2
  <2> QED BY <2>1, <1>1, <1>7
<1> QED BY <1>5, <1>6, <1>7 DEF pipe

\* An event of a flow, by what it does.
LEMMA FlowEventFacts ==
  ASSUME NEW f \in Flows, NEW t \in Nat, NEW n, NEW name,
         \/ name = "MakeRequest" /\ n = 0
         \/ name = "PrepareBurst" /\ n \in 1..MinislotsPerMap /\ t + PrepTicks \in Interval
         \/ name = "LoadMapState" /\ n \in Nat /\ t \in Interval
         \/ name = "SendFrame" /\ n \in Nat /\ t \in Interval
         \/ name = "DumpGrant" /\ n = 0 /\ t \in Interval
  PROVE  FlowEvent(t, name, f, n) \in MadeFor(f)
<1> DEFINE e == FlowEvent(t, name, f, n)
<1>1. e = [in |-> t, event |-> name, arg |-> [sfid |-> f, n |-> n]]
  BY DEF FlowEvent, Event
<1>2. e.in = t /\ e.event = name /\ e.arg.sfid = f
  BY <1>1
<1>3. e \in RequestsDue \cup BurstsDue \cup LoadsDue \cup FramesDue \cup DumpsDue
  BY <1>1 DEF RequestsDue, BurstsDue, LoadsDue, FramesDue, DumpsDue, EventsOf, FlowArgs
<1>4. OfMap(e) => Counts(e) \in Interval
  <2>1. t + 0 = t
    OBVIOUS
  <2> QED BY <1>2, <2>1 DEF OfMap, Counts
<1> HIDE DEF e
<1> QED BY <1>2, <1>3, <1>4 DEF MadeFor, e

\* What the events of a MAP are.
LEMMA MadeFacts ==
  ASSUME NEW f \in Flows, NEW e \in MadeFor(f)
  PROVE  /\ e \in Events /\ e \in Made /\ ~ ToCome(e)
         /\ OfMap(e) => Counts(e) \in Interval
         /\ \A g : g # f => e \notin BurstsOf(g)
<1>1. e \in RequestsDue \cup BurstsDue \cup LoadsDue \cup FramesDue \cup DumpsDue
  BY DEF MadeFor
<1>2. ~ ToCome(e)
  BY <1>1 DEF ToCome, RequestsDue, BurstsDue, LoadsDue, FramesDue, DumpsDue, EventsOf
<1>3. e.arg.sfid = f /\ (OfMap(e) => Counts(e) \in Interval)
  BY DEF MadeFor
<1> QED BY <1>1, <1>2, <1>3 DEF Events, Made, BurstsOf

\* A list of them.
LEMMA MadeList ==
  ASSUME NEW f \in Flows, NEW list \in Seq(MadeFor(f))
  PROVE  /\ list \in Seq(Events) /\ list \in Seq(Made)
         /\ \A g : g # f => Aligned(<<>>, list, g)
<1>1. MadeFor(f) \subseteq Events /\ MadeFor(f) \subseteq Made
  BY MadeFacts
<1>2. list \in Seq(Events) /\ list \in Seq(Made)
  <2>1. /\ Len(list) \in Nat /\ DOMAIN list = 1 .. Len(list)
        /\ list \in [1 .. Len(list) -> MadeFor(f)]
    BY LenProperties, SeqDef
  <2>2. list \in [1 .. Len(list) -> Events] /\ list \in [1 .. Len(list) -> Made]
    BY <1>1, <2>1
  <2> QED BY <2>1, <2>2, SeqDef
<1>3. ASSUME NEW g, g # f PROVE Aligned(<<>>, list, g)
  <2>1. \A i \in 1 .. Len(list) : list[i] \notin BurstsOf(g)
    BY <1>3, MadeFacts, ElementOfSeq
  <2> QED BY <1>2, <2>1, AlignedNone
<1> QED BY <1>2, <1>3

\* The bursts of a flow's grants, and the requests that go with them.
LEMMA BurstEventsFacts ==
  ASSUME NEW f \in Flows, NEW grants, Placed(grants), Len(grants) > 0
  PROVE  /\ BurstEvents(f, grants) \in Seq(MadeFor(f))
         /\ Aligned(Pipelined(grants), BurstEvents(f, grants), f)
<1> DEFINE n == Len(grants)
           pipe == Pipelined(grants)
           before(i) == GrantTime(grants[i]) - PrepTicks
           pair(i) == <<FlowEvent(before(i), "MakeRequest", f, 0),
                        FlowEvent(before(i), "PrepareBurst", f, grants[i].length)>>
           pairs == [i \in DOMAIN grants |-> pair(i)]
           S == MadeFor(f)
<1>1. /\ n \in Nat /\ DOMAIN grants = 1..n
      /\ \A i \in 1..n :
           /\ grants[i].length \in Nat \ {0} /\ GrantTime(grants[i]) \in Nat
           /\ GrantTime(grants[i]) >= ProcTicks
           /\ GrantTime(grants[i]) + FrameTicks <= ProcTicks + MapInterval
  BY GrantFacts
<1>2. /\ pipe \in Seq(Grants) /\ Len(pipe) = n
      /\ \A i \in 1..n : pipe[i] = [bytes |-> MinislotsToBytes(grants[i].length),
                                    in |-> GrantTime(grants[i])]
  BY PipelinedFacts
<1>3. BurstEvents(f, grants) = FlattenSeq(pairs)
  BY DEF BurstEvents
<1> HIDE DEF n, pipe
<1>4. ASSUME NEW i \in 1..n
      PROVE  /\ FlowEvent(before(i), "MakeRequest", f, 0) \in S
             /\ FlowEvent(before(i), "PrepareBurst", f, grants[i].length) \in S
             /\ Aligned(<<pipe[i]>>, pair(i), f) /\ pair(i) \in Seq(S)
  <2>1. before(i) \in Nat /\ before(i) + PrepTicks = GrantTime(grants[i])
    BY <1>1, ConstantFacts
  <2>2. GrantTime(grants[i]) \in Interval
    BY <1>1, ConstantFacts, MapIntervalFacts DEF Interval
  <2> DEFINE a == FlowEvent(before(i), "MakeRequest", f, 0)
             b == FlowEvent(before(i), "PrepareBurst", f, grants[i].length)
  <2>3. a.event = "MakeRequest" /\ b.event = "PrepareBurst" /\ b.in = before(i)
          /\ b.arg.n = grants[i].length /\ b.arg.sfid = f
    BY DEF FlowEvent, Event
  <2>4. a \in S
    BY <2>1, FlowEventFacts
  <2>5. b \in S
    <3>1. grants[i].length \in 1..MinislotsPerMap
      BY GrantLength DEF n
    <3> QED BY <2>1, <2>2, <3>1, FlowEventFacts
  <2>6. a \notin BurstsOf(f) /\ b \in BurstsOf(f)
    <3>1. b \in Events
      BY <2>5, MadeFacts
    <3>2. b \in BurstsDue
      BY <2>3, <3>1, EventFacts
    <3>3. a \notin BurstsDue
      BY <2>3 DEF BurstsDue, EventsOf
    <3> QED BY <2>3, <3>2, <3>3 DEF BurstsOf
  <2>7. pipe[i] = GrantOf(b)
    BY <1>2, <2>1, <2>3 DEF GrantOf
  <2> HIDE DEF a, b
  <2>8. Aligned(<<pipe[i]>>, <<a, b>>, f)
    <3> DEFINE p == [k \in 1..1 |-> 2]
    <3>1. /\ Len(<<a, b>>) = 2 /\ <<a, b>>[1] = a /\ <<a, b>>[2] = b
          /\ Len(<<pipe[i]>>) = 1 /\ <<pipe[i]>>[1] = pipe[i]
      OBVIOUS
    <3>2. p[1] = 2 /\ \A k \in 1..1 : k = 1
      OBVIOUS
    <3>3. \A k \in 1..2 : k = 1 \/ k = 2
      OBVIOUS
    <3> HIDE DEF p
    <3>4. Enumerates(p, 1, <<a, b>>, BurstsOf(f))
      BY <2>6, <3>1, <3>2, <3>3 DEF Enumerates
    <3>5. \A k \in 1..1 : <<pipe[i]>>[k] = GrantOf(<<a, b>>[p[k]])
      BY <2>7, <3>1, <3>2
    <3> QED BY <3>1, <3>4, <3>5 DEF Aligned
  <2>9. <<a, b>> \in Seq(S)
    BY <2>4, <2>5
  <2> QED BY <2>4, <2>5, <2>8, <2>9 DEF a, b
<1>5. pairs \in Seq(Seq(S)) /\ Len(pairs) = n
  <2>1. \A i \in 1..n : pair(i) \in Seq(S)
    BY <1>4
  <2> HIDE DEF pair, S
  <2>2. pairs \in [1..n -> Seq(S)]
    BY <2>1, <1>1
  <2> QED BY <2>2, <1>1, SeqDef, LenProperties
<1>6. \A i \in 1..n : pairs[i] = pair(i)
  BY <1>1
<1>7. n > 0
  BY DEF n
<1> HIDE DEF pairs, S
<1>8. PICK F : Flattened(S, pairs, n, F) /\ FlattenSeq(pairs) = F[n]
  BY <1>5, <1>7, FlattenSteps
<1>9. /\ F[0] = <<>> /\ \A i \in 0..n : F[i] \in Seq(S)
      /\ \A i \in 1..n : F[i] = F[i - 1] \o pairs[i]
  BY <1>8 DEF Flattened
<1> DEFINE Bad == {i \in 0..n : ~ Aligned(SubSeq(pipe, 1, i), F[i], f)}
<1>10. \A i \in 0..n : F[i] \in Seq(Events)
  BY <1>9, MadeList DEF S
<1>11. Bad = {}
  <2> SUFFICES ASSUME Bad # {} PROVE FALSE
    OBVIOUS
  <2>1. PICK i \in Bad : \A j \in Bad : i <= j
    <3>1. Bad \in SUBSET Nat
      OBVIOUS
    <3> HIDE DEF Bad
    <3> QED BY <3>1, LeastNumber
  <2>2. i \in 0..n /\ ~ Aligned(SubSeq(pipe, 1, i), F[i], f)
    OBVIOUS
  <2>3. CASE i = 0
    <3>1. SubSeq(pipe, 1, 0) = <<>>
      BY <1>2, SubSeqProperties
    <3>2. <<>> \in Seq(Events) /\ \A j \in 1 .. Len(<<>>) : <<>>[j] \notin BurstsOf(f)
      OBVIOUS
    <3>3. Aligned(<<>>, <<>>, f)
      BY <3>2, AlignedNone
    <3> QED BY <2>2, <2>3, <3>1, <3>3, <1>9
  <2>4. CASE i # 0
    <3>1. i \in 1..n /\ i - 1 \in 0..n /\ i - 1 < i
      BY <1>1, <2>2, <2>4
    <3>2. i - 1 \notin Bad
      <4> HIDE DEF Bad
      <4> QED BY <2>1, <2>2, <3>1
    <3>3. Aligned(SubSeq(pipe, 1, i - 1), F[i - 1], f)
      BY <3>1, <3>2
    <3>4. SubSeq(pipe, 1, i) = SubSeq(pipe, 1, i - 1) \o <<pipe[i]>>
      BY <1>1, <1>2, <3>1, SubSeqProperties, ConcatProperties
    <3>5. SubSeq(pipe, 1, i - 1) \in Seq(Grants) /\ <<pipe[i]>> \in Seq(Grants)
      BY <1>1, <1>2, <3>1, SubSeqProperties, ElementOfSeq
    <3>6. Aligned(<<pipe[i]>>, pairs[i], f)
      BY <1>4, <1>6, <3>1
    <3>7. pairs[i] \in Seq(Events)
      <4>1. pairs[i] \in Seq(S)
        BY <1>4, <1>6, <3>1
      <4> QED BY <4>1, MadeList DEF S
    <3>8. Aligned(SubSeq(pipe, 1, i - 1) \o <<pipe[i]>>, F[i - 1] \o pairs[i], f)
      BY <3>1, <3>3, <3>5, <3>6, <3>7, <1>10, AlignedConcat
    <3> QED BY <2>2, <3>1, <3>4, <3>8, <1>9
  <2> QED BY <2>3, <2>4
<1>12. n \in 0..n /\ SubSeq(pipe, 1, n) = pipe
  BY <1>1, <1>2, SubSeqProperties
<1>13. Aligned(pipe, F[n], f)
  BY <1>11, <1>12
<1> QED BY <1>3, <1>8, <1>9, <1>12, <1>13 DEF S, pipe

\* A frame in which a minislot of a grant lies has minislots.
LEMMA AllocationFacts ==
  ASSUME NEW grants, NEW k \in Nat
  PROVE  /\ AllocationInFrame(grants, k) \in Nat
         /\ \A i \in DOMAIN grants :
              /\ grants[i].offset \in k * MinislotsPerFrame .. (k + 1) * MinislotsPerFrame - 1
              /\ grants[i].length \in Nat \ {0}
              => AllocationInFrame(grants, k) # 0
<1> DEFINE a == k * MinislotsPerFrame
           b == (k + 1) * MinislotsPerFrame - 1
           S == {m \in a..b : \E i \in DOMAIN grants :
                   m \in grants[i].offset .. grants[i].offset + grants[i].length - 1}
<1>1. a \in Int /\ b \in Int
  <2>1. MinislotsPerFrame \in Nat
    BY ConstantFacts
  <2>2. a \in Nat
    BY <2>1, ProductFacts
  <2>3. k + 1 \in Nat
    OBVIOUS
  <2>4. (k + 1) * MinislotsPerFrame \in Nat
    BY <2>1, <2>3, ProductFacts
  <2> HIDE DEF a
  <2> QED BY <2>2, <2>4
<1>2. AllocationInFrame(grants, k) = Cardinality(S)
  BY DEF AllocationInFrame
<1> HIDE DEF a, b
<1>3. IsFiniteSet(a..b)
  BY <1>1, FS_Interval
<1>4. IsFiniteSet(S)
  <2>1. S \in SUBSET (a..b)
    OBVIOUS
  <2> QED BY <1>3, <2>1, FS_Subset
<1>5. Cardinality(S) \in Nat /\ (Cardinality(S) = 0 <=> S = {})
  <2> HIDE DEF S
  <2> QED BY <1>4, FS_CardinalityType, FS_EmptySet
<1>6. ASSUME NEW i \in DOMAIN grants, grants[i].offset \in a..b, grants[i].length \in Nat \ {0}
      PROVE  grants[i].offset \in S
  <2>1. grants[i].offset \in Int
    BY <1>1, <1>6
  <2>2. grants[i].offset \in grants[i].offset .. grants[i].offset + grants[i].length - 1
    BY <1>6, <2>1
  <2> QED BY <1>6, <2>2
<1> HIDE DEF S
<1> QED BY <1>2, <1>5, <1>6 DEF a, b

\* The frames that send, of which there is one at least.
LEMMA FrameEventsFacts ==
  ASSUME NEW f \in Flows, NEW grants, Placed(grants), Len(grants) > 0
  PROVE  /\ FrameEvents(f, grants) \in Seq({e \in MadeFor(f) : e.event = "SendFrame" /\ e.in + 1 \in Interval})
         /\ FrameEvents(f, grants) # <<>>
<1> DEFINE S == {e \in MadeFor(f) : e.event = "SendFrame" /\ e.in + 1 \in Interval}
           n == FramesPerMap
           event(k) == FlowEvent(ProcTicks + (k - 1) * FrameTicks, "SendFrame", f,
                                 AllocationInFrame(grants, k - 1))
           part(k) == IF AllocationInFrame(grants, k - 1) = 0 THEN <<>> ELSE <<event(k)>>
           parts == [k \in 1..n |-> part(k)]
<1>1. FrameEvents(f, grants) = FlattenSeq(parts)
  BY DEF FrameEvents
<1>2. n \in Nat /\ n > 0
  BY ConstantFacts
<1>3. ASSUME NEW k \in 1..n PROVE part(k) \in Seq(S)
  <2> DEFINE t == (k - 1) * FrameTicks
  <2>1. k - 1 \in 0 .. n - 1 /\ k - 1 \in Nat
    BY <1>2
  <2>2. t \in Nat /\ t + FrameTicks <= MapInterval
    BY <2>1, MapIntervalFacts
  <2> HIDE DEF t
  <2>3. ProcTicks + t \in Nat /\ ProcTicks + t \in Interval /\ (ProcTicks + t) + 1 \in Interval
    BY <2>2, ConstantFacts, MapIntervalFacts DEF Interval
  <2>4. AllocationInFrame(grants, k - 1) \in Nat
    BY <2>1, AllocationFacts
  <2>5. FlowEvent(ProcTicks + t, "SendFrame", f, AllocationInFrame(grants, k - 1)) \in MadeFor(f)
    BY <2>3, <2>4, FlowEventFacts
  <2>6. event(k) \in MadeFor(f) /\ event(k).event = "SendFrame" /\ event(k).in = ProcTicks + t
    BY <2>5 DEF t, FlowEvent, Event
  <2> HIDE DEF event
  <2>7. event(k) \in S
    BY <2>3, <2>6
  <2> HIDE DEF S
  <2>8. <<event(k)>> \in Seq(S) /\ <<>> \in Seq(S)
    BY <2>7
  <2> QED BY <2>8
<1>4. parts \in Seq(Seq(S)) /\ Len(parts) = n
  <2> HIDE DEF part, S, n
  <2>1. parts \in [1..n -> Seq(S)]
    BY <1>3
  <2> QED BY <2>1, <1>2, SeqDef, LenProperties
<1>5. \E k \in 1..n : parts[k] # <<>>
  <2> DEFINE k == GetFrameForMinislot(grants[1].offset)
  <2>1. 1 \in 1 .. Len(grants) /\ DOMAIN grants = 1 .. Len(grants)
    BY GrantFacts
  <2>2. /\ grants[1].offset \in Nat /\ grants[1].offset < MinislotsPerMap
        /\ grants[1].length \in Nat \ {0}
    BY <2>1, GrantFacts
  <2>3. /\ k \in 0 .. n - 1
        /\ grants[1].offset \in k * MinislotsPerFrame .. (k + 1) * MinislotsPerFrame - 1
    BY <2>2, FrameFacts
  <2> HIDE DEF k
  <2>4. k + 1 \in 1..n /\ (k + 1) - 1 = k /\ k \in Nat
    BY <1>2, <2>3
  <2>5. AllocationInFrame(grants, k) # 0
    BY <2>1, <2>2, <2>3, <2>4, AllocationFacts
  <2>6. part(k + 1) # <<>>
    <3>1. AllocationInFrame(grants, (k + 1) - 1) # 0
      BY <2>4, <2>5
    <3> HIDE DEF event
    <3>2. <<event(k + 1)>> # <<>>
      OBVIOUS
    <3> QED BY <3>1, <3>2
  <2>7. parts[k + 1] = part(k + 1)
    <3> HIDE DEF part
    <3> QED BY <2>4
  <2> QED BY <2>4, <2>6, <2>7
<1> HIDE DEF parts, S, n
<1> QED BY <1>1, <1>2, <1>4, <1>5, FlattenFacts DEF S

\* All the events of the grants that a MAP gives a flow.
LEMMA GrantEventsFacts ==
  ASSUME NEW f \in Flows, NEW grants, Placed(grants), Len(grants) > 0
  PROVE  /\ GrantEvents(f, grants) \in Seq(MadeFor(f))
         /\ Aligned(Pipelined(grants), GrantEvents(f, grants), f)
<1> DEFINE S == MadeFor(f)
           bursts == BurstEvents(f, grants)
           load == FlowEvent(ProcTicks, "LoadMapState", f, GrantedBytes(grants))
           frames == FrameEvents(f, grants)
           dump == FlowEvent(Last(frames).in + 1, "DumpGrant", f, 0)
           pipe == Pipelined(grants)
<1>1. bursts \in Seq(S) /\ Aligned(pipe, bursts, f) /\ pipe \in Seq(Grants)
  BY BurstEventsFacts, PipelinedFacts
<1>2. load \in S /\ load.event = "LoadMapState"
  <2>1. ProcTicks \in Nat /\ ProcTicks \in Interval
    BY ConstantFacts, MapIntervalFacts DEF Interval
  <2>2. GrantedBytes(grants) \in Nat
    BY GrantFacts
  <2>3. load \in S
    BY <2>1, <2>2, FlowEventFacts
  <2> QED BY <2>3 DEF FlowEvent, Event
<1>3. /\ frames \in Seq({e \in S : e.event = "SendFrame" /\ e.in + 1 \in Interval})
      /\ frames # <<>>
  BY FrameEventsFacts
<1>4. GrantEvents(f, grants) = ((bursts \o <<load>>) \o frames) \o <<dump>>
  BY DEF GrantEvents
<1> HIDE DEF bursts, load, frames, pipe
<1>5. /\ Len(frames) \in Nat \ {0}
      /\ \A i \in 1 .. Len(frames) :
           /\ frames[i] \in S /\ frames[i].event = "SendFrame"
           /\ frames[i].in + 1 \in Interval
  <2>1. \A i \in 1 .. Len(frames) :
          frames[i] \in {e \in S : e.event = "SendFrame" /\ e.in + 1 \in Interval}
    BY <1>3, ElementOfSeq
  <2> HIDE DEF S
  <2> QED BY <1>3, <2>1, EmptySeq
<1>6. frames \in Seq(S)
  <2>1. frames \in [1 .. Len(frames) -> S]
    BY <1>3, <1>5, LenProperties
  <2> QED BY <2>1, <1>5, SeqDef
<1>7. dump \in S /\ dump.event = "DumpGrant"
  <2>1. Last(frames) = frames[Len(frames)] /\ Len(frames) \in 1 .. Len(frames)
    BY <1>5 DEF Last
  <2>2. Last(frames) \in S /\ Last(frames).in + 1 \in Interval
    BY <1>5, <2>1
  <2>3. Last(frames).in \in Nat
    BY <2>2, MadeFacts, EventFacts
  <2>4. Last(frames).in + 1 \in Nat
    BY <2>3
  <2>5. dump \in S
    BY <2>2, <2>4, FlowEventFacts
  <2> QED BY <2>5 DEF FlowEvent, Event
<1> HIDE DEF dump
<1>8. S \subseteq Events
  BY MadeFacts
<1>9. /\ bursts \in Seq(Events) /\ frames \in Seq(Events)
      /\ <<load>> \in Seq(S) /\ <<load>> \in Seq(Events)
      /\ <<dump>> \in Seq(S) /\ <<dump>> \in Seq(Events)
  <2>1. bursts \in Seq(Events) /\ frames \in Seq(Events)
    BY <1>1, <1>6, MadeList
  <2>2. load \in Events /\ dump \in Events
    BY <1>2, <1>7, <1>8
  <2> HIDE DEF S
  <2> QED BY <2>1, <2>2, <1>2, <1>7
<1>10. Aligned(<<>>, <<load>>, f) /\ Aligned(<<>>, frames, f) /\ Aligned(<<>>, <<dump>>, f)
  <2>1. load \notin BurstsOf(f) /\ dump \notin BurstsOf(f)
    BY <1>2, <1>7 DEF BurstsOf, BurstsDue, EventsOf
  <2>2. \A i \in 1 .. Len(<<load>>) : <<load>>[i] \notin BurstsOf(f)
    BY <2>1
  <2>3. \A i \in 1 .. Len(<<dump>>) : <<dump>>[i] \notin BurstsOf(f)
    BY <2>1
  <2>4. \A i \in 1 .. Len(frames) : frames[i] \notin BurstsOf(f)
    BY <1>5 DEF BurstsOf, BurstsDue, EventsOf
  <2> QED BY <1>9, <2>2, <2>3, <2>4, AlignedNone
<1>11. pipe \o <<>> = pipe /\ <<>> \in Seq(Grants)
  BY <1>1, ConcatEmptySeq, EmptySeq
<1> HIDE DEF S
<1>12. /\ bursts \o <<load>> \in Seq(S) /\ bursts \o <<load>> \in Seq(Events)
       /\ Aligned(pipe, bursts \o <<load>>, f)
  <2>1. bursts \o <<load>> \in Seq(S) /\ bursts \o <<load>> \in Seq(Events)
    BY <1>1, <1>9, ConcatProperties
  <2>2. Aligned(pipe \o <<>>, bursts \o <<load>>, f)
    BY <1>1, <1>9, <1>10, <1>11, AlignedConcat
  <2> QED BY <2>1, <2>2, <1>11
<1> DEFINE upToFrames == (bursts \o <<load>>) \o frames
<1>13. upToFrames \in Seq(S) /\ upToFrames \in Seq(Events) /\ Aligned(pipe, upToFrames, f)
  <2>1. upToFrames \in Seq(S) /\ upToFrames \in Seq(Events)
    BY <1>6, <1>9, <1>12, ConcatProperties
  <2>2. Aligned(pipe \o <<>>, upToFrames, f)
    BY <1>1, <1>9, <1>10, <1>11, <1>12, AlignedConcat
  <2> QED BY <2>1, <2>2, <1>11
<1> HIDE DEF upToFrames
<1>14. upToFrames \o <<dump>> \in Seq(S) /\ Aligned(pipe, upToFrames \o <<dump>>, f)
  <2>1. upToFrames \o <<dump>> \in Seq(S)
    BY <1>9, <1>13, ConcatProperties
  <2>2. Aligned(pipe \o <<>>, upToFrames \o <<dump>>, f)
    BY <1>1, <1>9, <1>10, <1>11, <1>13, AlignedConcat
  <2> QED BY <2>1, <2>2, <1>11
<1> QED BY <1>4, <1>14 DEF upToFrames, S, pipe

\* Requests of contention are events that a MAP may make.
LEMMA ContentionFacts ==
  ASSUME NEW f \in Flows, NEW t \in Nat
  PROVE  /\ FlowEvent(t, "MakeRequest", f, 0) \in MadeFor(f)
         /\ FlowEvent(t, "MakeRequest", f, 0) \notin BurstsOf(f)
<1>1. FlowEvent(t, "MakeRequest", f, 0) \in MadeFor(f)
  BY FlowEventFacts
<1>2. FlowEvent(t, "MakeRequest", f, 0).event = "MakeRequest"
  BY DEF FlowEvent, Event
<1> QED BY <1>1, <1>2 DEF BurstsOf, BurstsDue, EventsOf

\* The events that a MAP makes for a flow.
LEMMA FlowEventsFacts ==
  ASSUME NEW f \in Flows, NEW layout \in Layouts, NEW offset \in RequestOffsets
  PROVE  /\ FlowEvents(f, layout, offset) \in Seq(MadeFor(f))
         /\ Aligned(Pipelined(layout[f]), FlowEvents(f, layout, offset), f)
<1> DEFINE S == MadeFor(f)
<1>1. Placed(layout[f])
  BY LayoutFacts
<1>2. CASE layout[f] # <<>>
  <2>1. Len(layout[f]) > 0
    BY <1>1, <1>2, EmptySeq DEF Placed
  <2>2. FlowEvents(f, layout, offset) = GrantEvents(f, layout[f])
    BY <1>2 DEF FlowEvents
  <2> QED BY <1>1, <2>1, <2>2, GrantEventsFacts
<1>3. CASE layout[f] = <<>>
  <2> DEFINE e == FlowEvent(ProcTicks + offset, "MakeRequest", f, 0)
  <2>1. FlowEvents(f, layout, offset) = <<e>>
    BY <1>3 DEF FlowEvents, ContentionRequest
  <2>2. offset \in Nat
    BY MapIntervalFacts DEF RequestOffsets
  <2>3. ProcTicks + offset \in Nat
    BY <2>2, ConstantFacts
  <2>4. e \in S /\ e \notin BurstsOf(f)
    BY <2>3, ContentionFacts
  <2> HIDE DEF e, S
  <2>5. <<e>> \in Seq(S) /\ \A i \in 1 .. Len(<<e>>) : <<e>>[i] \notin BurstsOf(f)
    BY <2>4
  <2>6. <<e>> \in Seq(Events)
    BY <2>5, MadeList DEF S
  <2>7. Aligned(<<>>, <<e>>, f)
    BY <2>5, <2>6, AlignedNone
  <2>8. Pipelined(layout[f]) = <<>>
    <3>1. /\ Pipelined(layout[f]) \in Seq(Grants)
          /\ Len(Pipelined(layout[f])) = Len(layout[f])
      BY <1>1, PipelinedFacts
    <3>2. Len(layout[f]) = 0
      BY <1>3
    <3> QED BY <3>1, <3>2, EmptySeq
  <2> QED BY <2>1, <2>5, <2>7, <2>8 DEF S
<1> QED BY <1>2, <1>3

\* The events that a MAP makes for all flows.
LEMMA InFlowOrderFacts ==
  ASSUME NEW made, NEW pipes,
         \A f \in Flows :
           /\ made[f] \in Seq(MadeFor(f)) /\ pipes[f] \in Seq(Grants)
           /\ Aligned(pipes[f], made[f], f)
  PROVE  /\ InFlowOrder(made) \in Seq(Made) /\ InFlowOrder(made) \in Seq(Events)
         /\ \A f \in Flows : Aligned(pipes[f], InFlowOrder(made), f)
<1> DEFINE c == CLASSIC_SFID
           l == LOW_LATENCY_SFID
<1>1. c \in Flows /\ c # l /\ \A f \in Flows : f \in {c, l}
  BY ConstantFacts
<1> HIDE DEF c, l
<1>2. ASSUME NEW f \in Flows
      PROVE  /\ made[f] \in Seq(Made) /\ made[f] \in Seq(Events)
             /\ \A g : g # f => Aligned(<<>>, made[f], g)
  BY MadeList
<1>3. <<>> \in Seq(Grants)
  BY EmptySeq
<1>4. CASE l \in Flows
  <2>1. InFlowOrder(made) = made[c] \o made[l]
    BY <1>4 DEF InFlowOrder, c, l
  <2>2. InFlowOrder(made) \in Seq(Made) /\ InFlowOrder(made) \in Seq(Events)
    BY <1>1, <1>2, <1>4, <2>1, ConcatProperties
  <2>3. Aligned(pipes[c], InFlowOrder(made), c)
    <3>1. Aligned(pipes[c], made[c], c) /\ Aligned(<<>>, made[l], c)
      BY <1>1, <1>2, <1>4
    <3>2. pipes[c] \o <<>> = pipes[c] /\ pipes[c] \in Seq(Grants)
      BY <1>1, ConcatEmptySeq
    <3>3. made[c] \in Seq(Events) /\ made[l] \in Seq(Events)
      BY <1>1, <1>2, <1>4
    <3>4. Aligned(pipes[c] \o <<>>, made[c] \o made[l], c)
      BY <1>3, <3>1, <3>2, <3>3, AlignedConcat
    <3> QED BY <2>1, <3>2, <3>4
  <2>4. Aligned(pipes[l], InFlowOrder(made), l)
    <3>1. Aligned(<<>>, made[c], l) /\ Aligned(pipes[l], made[l], l)
      BY <1>1, <1>2, <1>4
    <3>2. <<>> \o pipes[l] = pipes[l] /\ pipes[l] \in Seq(Grants)
      BY <1>4, ConcatEmptySeq
    <3>3. made[c] \in Seq(Events) /\ made[l] \in Seq(Events)
      BY <1>1, <1>2, <1>4
    <3>4. Aligned(<<>> \o pipes[l], made[c] \o made[l], l)
      BY <1>3, <3>1, <3>2, <3>3, AlignedConcat
    <3> QED BY <2>1, <3>2, <3>4
  <2> QED BY <1>1, <2>2, <2>3, <2>4
<1>5. CASE l \notin Flows
  <2>1. InFlowOrder(made) = made[c] \o <<>>
    BY <1>5 DEF InFlowOrder, c, l
  <2>2. InFlowOrder(made) = made[c]
    BY <1>1, <1>2, <2>1, ConcatEmptySeq
  <2> QED BY <1>1, <1>2, <1>5, <2>2
<1> QED BY <1>4, <1>5

-----------------------------------------------------------------------------
(* Steps of the event list.                                                *)

\* Events that a MAP makes keep apart from each other.
LEMMA MadeSpaced ==
  ASSUME NEW list \in Seq(Made)
  PROVE  Spaced(list)
<1>1. ASSUME NEW d \in Made, NEW e \in Made PROVE Apart(d, e)
  <2>1. ~ ToCome(d) /\ ~ ToCome(e)
    BY MadeFacts DEF Made
  <2> QED BY <2>1 DEF Apart, ToCome
<1>2. \A i \in 1 .. Len(list) : list[i] \in Made
  BY ElementOfSeq
<1> QED BY <1>1, <1>2 DEF Spaced

\* The event in front was no burst.
LEMMA RestAgrees ==
  ASSUME NEW list, NEW pipes, Agrees(list, pipes), list # <<>>, Head(list) \notin BurstsDue
  PROVE  Agrees(Tail(list), pipes)
<1>1. list \in Seq(Events) /\ Sorted(list) /\ Spaced(list)
  BY DEF Agrees
<1>2. Tail(list) \in Seq(Events) /\ Sorted(Tail(list)) /\ Spaced(Tail(list))
  BY <1>1, RestFacts
<1>3. ASSUME NEW f \in Flows
      PROVE  pipes[f] \in Seq(Grants) /\ Aligned(pipes[f], Tail(list), f)
  <2>1. pipes[f] \in Seq(Grants) /\ Aligned(pipes[f], list, f)
    BY DEF Agrees
  <2>2. Head(list) \notin BurstsOf(f)
    BY DEF BurstsOf
  <2> QED BY <1>1, <2>1, <2>2, AlignedOthers
<1> QED BY <1>2, <1>3 DEF Agrees

\* The event in front was a burst: its grant leaves the pipeline.
LEMMA BurstAgrees ==
  ASSUME NEW list, NEW pipes, DOMAIN pipes = Flows, Agrees(list, pipes), list # <<>>,
         NEW f \in Flows, Head(list) \in BurstsOf(f)
  PROVE  /\ pipes[f] # <<>> /\ Head(pipes[f]) = GrantOf(Head(list))
         /\ Agrees(Tail(list), [pipes EXCEPT ![f] = Tail(@)])
<1> DEFINE new == [pipes EXCEPT ![f] = Tail(@)]
<1>1. list \in Seq(Events) /\ Sorted(list) /\ Spaced(list)
  BY DEF Agrees
<1>2. Tail(list) \in Seq(Events) /\ Sorted(Tail(list)) /\ Spaced(Tail(list))
  BY <1>1, RestFacts
<1>3. pipes[f] \in Seq(Grants) /\ Aligned(pipes[f], list, f)
  BY DEF Agrees
<1>4. /\ pipes[f] # <<>> /\ Head(pipes[f]) = GrantOf(Head(list))
      /\ Tail(pipes[f]) \in Seq(Grants) /\ Aligned(Tail(pipes[f]), Tail(list), f)
  BY <1>1, <1>3, AlignedFront
<1>5. new[f] = Tail(pipes[f]) /\ \A g \in Flows : g # f => new[g] = pipes[g]
  OBVIOUS
<1> HIDE DEF new
<1>6. ASSUME NEW g \in Flows
      PROVE  new[g] \in Seq(Grants) /\ Aligned(new[g], Tail(list), g)
  <2>1. CASE g = f
    BY <1>4, <1>5, <2>1
  <2>2. CASE g # f
    <3>1. pipes[g] \in Seq(Grants) /\ Aligned(pipes[g], list, g)
      BY DEF Agrees
    <3>2. Head(list) \notin BurstsOf(g)
      BY <2>2 DEF BurstsOf
    <3>3. Aligned(pipes[g], Tail(list), g)
      BY <1>1, <3>1, <3>2, AlignedOthers
    <3> QED BY <1>5, <2>2, <3>1, <3>3
  <2> QED BY <2>1, <2>2
<1> QED BY <1>2, <1>4, <1>6 DEF Agrees, new

\* The time of the event in front comes.
LEMMA LaterAgrees ==
  ASSUME NEW list, NEW pipes, Agrees(list, pipes), list # <<>>
  PROVE  /\ Head(list).in \in Nat
         /\ Agrees(Later(list, Head(list).in),
                   [f \in Flows |-> Later(pipes[f], Head(list).in)])
<1> DEFINE t == Head(list).in
           later == Later(list, t)
           new == [f \in Flows |-> Later(pipes[f], t)]
<1>1. list \in Seq(Events) /\ Sorted(list) /\ Spaced(list)
  BY DEF Agrees
<1>2. /\ t \in Nat /\ later \in Seq(Events) /\ Sorted(later) /\ Spaced(later)
      /\ Len(later) = Len(list)
      /\ \A i \in 1 .. Len(list) :
           /\ later[i].in = list[i].in - t /\ later[i].event = list[i].event
           /\ later[i].arg = list[i].arg
  BY <1>1, LaterList
<1> HIDE DEF t, later
<1>3. ASSUME NEW f \in Flows
      PROVE  new[f] \in Seq(Grants) /\ Aligned(new[f], later, f)
  <2>1. pipes[f] \in Seq(Grants) /\ Aligned(pipes[f], list, f)
    BY DEF Agrees
  <2> QED BY <1>1, <1>2, <2>1, LaterAligned
<1> QED BY <1>2, <1>3 DEF Agrees, t, later

\* What is merged in is neither a burst nor anything earlier than allowed.
LEMMA MergedAgrees ==
  ASSUME NEW list, NEW pipes, Agrees(list, pipes), NEW new \in Seq(Events), Sorted(new),
         NEW events \in Seq(Events), Spaced(events),
         NEW a, NEW b, Merged(new, list, events, Len(events), a, b),
         \A i \in 1 .. Len(list), j \in 1 .. Len(events) :
           Apart(list[i], events[j]) /\ Apart(events[j], list[i]),
         \A j \in 1 .. Len(events) : events[j] \notin BurstsDue
  PROVE  Agrees(new, pipes)
<1>1. list \in Seq(Events) /\ Sorted(list) /\ Spaced(list)
  BY DEF Agrees
<1>2. Len(list) \in Nat /\ Len(events) \in Nat
  BY <1>1, LenProperties
<1>3. Spaced(new)
  BY <1>1, <1>2, MergeSpaced
<1>4. ASSUME NEW f \in Flows PROVE pipes[f] \in Seq(Grants) /\ Aligned(pipes[f], new, f)
  <2>1. pipes[f] \in Seq(Grants) /\ Aligned(pipes[f], list, f)
    BY DEF Agrees
  <2>2. \A j \in 1 .. Len(events) : events[j] \notin BurstsOf(f)
    BY DEF BurstsOf
  <2>3. Aligned(<<>>, events, f) /\ <<>> \in Seq(Grants)
    BY <2>2, AlignedNone, EmptySeq
  <2>4. ~ \E k : k \in 1 .. Len(<<>>)
    OBVIOUS
  <2>5. Aligned(pipes[f] \o <<>>, new, f)
    BY <1>1, <2>1, <2>3, <2>4, AlignedMerged
  <2>6. pipes[f] \o <<>> = pipes[f]
    BY <2>1, ConcatEmptySeq
  <2> QED BY <2>1, <2>5, <2>6
<1> QED BY <1>1, <1>3, <1>4 DEF Agrees

\* A request on its way to the scheduler joins the list.
LEMMA RequestAgrees ==
  ASSUME NEW list, NEW pipes, Agrees(list, pipes), NEW event \in RequestsSent
  PROVE  Agrees(Schedule(list, event), pipes)
<1>1. list \in Seq(Events) /\ Sorted(list)
  BY DEF Agrees
<1>2. event \in Events /\ event.event = "ReceiveRequest"
  BY DEF Events, RequestsSent, EventsOf
<1>3. Schedule(list, event) \in Seq(Events) /\ Sorted(Schedule(list, event))
  BY <1>1, <1>2, ScheduleMerges
<1>4. PICK a, b : Merged(Schedule(list, event), list, <<event>>, 1, a, b)
  BY <1>1, <1>2, ScheduleMerges
<1>5. /\ Len(<<event>>) = 1 /\ <<event>> \in Seq(Events)
      /\ \A j \in 1..1 : <<event>>[j] = event
  BY <1>2
<1>6. ASSUME NEW e PROVE Apart(e, event) /\ Apart(event, e)
  BY <1>2 DEF Apart, OfMap, ToCome
<1>7. event \notin BurstsDue
  BY <1>2 DEF BurstsDue, EventsOf
<1>8. Spaced(<<event>>)
  BY <1>5, <1>6 DEF Spaced
<1>9. Merged(Schedule(list, event), list, <<event>>, Len(<<event>>), a, b)
  BY <1>4, <1>5
<1>10. \A i \in 1 .. Len(list), j \in 1 .. Len(<<event>>) :
         Apart(list[i], <<event>>[j]) /\ Apart(<<event>>[j], list[i])
  BY <1>5, <1>6
<1>11. \A j \in 1 .. Len(<<event>>) : <<event>>[j] \notin BurstsDue
  BY <1>5, <1>7
<1> QED BY <1>3, <1>5, <1>8, <1>9, <1>10, <1>11, MergedAgrees

\* The scheduler makes a MAP and schedules the making of the next.
LEMMA MapMadeAgrees ==
  ASSUME NEW list, NEW pipes, Agrees(list, pipes), list # <<>>,
         Head(list).event = "GenerateMap", Head(list).in = 0, NEW layout \in Layouts
  PROVE  Agrees(ScheduleAll(Tail(list), <<Event(MapTicks, "HandleMapMsg", layout),
                                          Event(MapInterval, "GenerateMap", 0)>>), pipes)
<1> DEFINE h == Head(list)
           rest == Tail(list)
           sent == Event(MapTicks, "HandleMapMsg", layout)
           next == Event(MapInterval, "GenerateMap", 0)
           events == <<sent, next>>
           new == ScheduleAll(rest, events)
<1>1. list \in Seq(Events) /\ Sorted(list) /\ Spaced(list)
  BY DEF Agrees
<1>2. /\ rest \in Seq(Events) /\ Sorted(rest)
      /\ \A i \in 1 .. Len(rest) : Apart(rest[i], h) /\ Apart(h, rest[i])
  BY <1>1, RestFacts
<1>3. h \notin BurstsDue
  BY DEF BurstsDue, EventsOf
<1>4. Agrees(rest, pipes)
  BY <1>3, RestAgrees
<1>5. /\ sent.in = MapTicks /\ sent.event = "HandleMapMsg" /\ sent \in Events
      /\ next.in = MapInterval /\ next.event = "GenerateMap" /\ next \in Events
  BY ConstantFacts, MapIntervalFacts
     DEF Event, Events, MapsSent, MapsMade, EventsOf
<1>6. /\ events \in Seq(Events) /\ Len(events) = 2
      /\ \A j \in 1 .. Len(events) : events[j] = sent \/ events[j] = next
  <2>1. events[1] = sent /\ events[2] = next /\ Len(events) = 2 /\ events \in Seq(Events)
    BY <1>5
  <2>2. \A j \in 1..2 : j = 1 \/ j = 2
    OBVIOUS
  <2> QED BY <2>1, <2>2
<1>7. Begins(h) = ProcTicks + MapTicks /\ Begins(sent) = ProcTicks + MapTicks
        /\ Begins(next) = MapInterval + (ProcTicks + MapTicks)
  BY <1>5, ConstantFacts, MapIntervalFacts DEF Begins
<1>8. h.event = "GenerateMap"
  OBVIOUS
<1> HIDE DEF h, rest, sent, next
<1>9. Spaced(events)
  <2>1. Apart(sent, next) /\ Apart(next, sent)
    BY <1>5, <1>7, ConstantFacts, MapIntervalFacts DEF Apart, OfMap
  <2>2. events[1] = sent /\ events[2] = next
    OBVIOUS
  <2>3. \A i, j \in 1..2 : i # j => (i = 1 /\ j = 2) \/ (i = 2 /\ j = 1)
    OBVIOUS
  <2> QED BY <1>6, <2>1, <2>2, <2>3 DEF Spaced
<1> HIDE DEF events
<1>10. ASSUME NEW i \in 1 .. Len(rest)
       PROVE  /\ Apart(rest[i], sent) /\ Apart(sent, rest[i])
              /\ Apart(rest[i], next) /\ Apart(next, rest[i])
  <2> DEFINE e == rest[i]
  <2>1. e \in Events /\ e.in \in Nat /\ Apart(e, h) /\ Apart(h, e)
    BY <1>2, ListFacts
  <2>2. ~ OfMap(sent) /\ ~ OfMap(next) /\ ToCome(h)
    BY <1>5, <1>8 DEF OfMap, ToCome
  <2>3. /\ e.event # "GenerateMap"
        /\ e.event = "HandleMapMsg" => Begins(e) + MapInterval <= Begins(h)
        /\ OfMap(e) => Counts(e) < Begins(h)
    BY <1>8, <2>1, <2>2 DEF Apart
  <2> HIDE DEF e
  <2>4. Begins(e) \in Nat /\ Counts(e) \in Nat /\ MapInterval \in Nat
          /\ ProcTicks + MapTicks \in Nat
    <3>1. ProcTicks \in Nat /\ MapTicks \in Nat /\ PrepTicks \in Nat /\ e.in \in Nat
      BY <2>1, ConstantFacts
    <3> QED BY <3>1, MapIntervalFacts DEF Begins, Counts
  <2>5. Apart(e, sent)
    BY <1>5, <1>7, <2>3, <2>4 DEF Apart
  <2>6. Apart(sent, e)
    BY <1>5, <1>7, <2>2, <2>3, <2>4 DEF Apart
  <2>7. Apart(e, next)
    BY <1>5, <1>7, <2>3, <2>4 DEF Apart
  <2>8. Apart(next, e)
    BY <1>5, <1>7, <2>2, <2>3, <2>4 DEF Apart
  <2> QED BY <2>5, <2>6, <2>7, <2>8 DEF e
<1>11. Timed(rest) /\ Timed(events)
  BY <1>2, <1>6, ListFacts
<1>12. /\ new \in Seq(Events) /\ Sorted(new)
       /\ \E a, b : Merged(new, rest, events, Len(events), a, b)
  BY <1>2, <1>6, <1>11, ScheduleAllMerges
<1>13. PICK a, b : Merged(new, rest, events, Len(events), a, b)
  BY <1>12
<1>14. \A i \in 1 .. Len(rest), j \in 1 .. Len(events) :
         Apart(rest[i], events[j]) /\ Apart(events[j], rest[i])
  BY <1>6, <1>10
<1>15. \A j \in 1 .. Len(events) : events[j] \notin BurstsDue
  BY <1>5, <1>6 DEF BurstsDue, EventsOf
<1> HIDE DEF new
<1>16. Agrees(new, pipes)
  BY <1>4, <1>6, <1>9, <1>12, <1>13, <1>14, <1>15, MergedAgrees
<1> QED BY <1>16 DEF new, events, rest, sent, next

\* The modem handles a MAP: its events join the list, and its grants the
\* pipelines, behind those of earlier MAPs.
LEMMA MapHandledAgrees ==
  ASSUME NEW list, NEW pipes, DOMAIN pipes = Flows, Agrees(list, pipes), list # <<>>,
         Head(list).event = "HandleMapMsg", Head(list).in = 0,
         NEW offset \in [Flows -> RequestOffsets]
  PROVE  LET layout == Head(list).arg
             made == [f \in Flows |-> FlowEvents(f, layout, offset[f])]
         IN  /\ layout \in Layouts
             /\ Agrees(ScheduleAll(Tail(list), InFlowOrder(made)),
                       [f \in Flows |-> pipes[f] \o Pipelined(layout[f])])
<1> DEFINE h == Head(list)
           layout == h.arg
           made == [f \in Flows |-> FlowEvents(f, layout, offset[f])]
           added == [f \in Flows |-> Pipelined(layout[f])]
           rest == Tail(list)
           events == InFlowOrder(made)
           new == ScheduleAll(rest, events)
           both == [f \in Flows |-> pipes[f] \o Pipelined(layout[f])]
<1>1. list \in Seq(Events) /\ Sorted(list) /\ Spaced(list)
  BY DEF Agrees
<1>2. /\ rest \in Seq(Events) /\ Sorted(rest) /\ Spaced(rest)
      /\ \A i \in 1 .. Len(rest) : Apart(rest[i], h) /\ Apart(h, rest[i])
  BY <1>1, RestFacts
<1>3. layout \in Layouts
  <2>1. h \in Events
    BY <1>1, ListFacts, ElementOfSeq
  <2>2. h \in MapsSent
    BY <2>1, EventFacts
  <2> QED BY <2>2 DEF MapsSent, EventsOf
<1>4. h \notin BurstsDue
  BY DEF BurstsDue, EventsOf
<1>5. Agrees(rest, pipes)
  BY <1>4, RestAgrees
<1>6. Begins(h) = ProcTicks /\ h.event = "HandleMapMsg"
  BY ConstantFacts DEF Begins
<1> HIDE DEF h, rest, layout
<1>7. ASSUME NEW f \in Flows
      PROVE  /\ made[f] \in Seq(MadeFor(f)) /\ added[f] \in Seq(Grants)
             /\ Aligned(added[f], made[f], f)
             /\ \A k \in 1 .. Len(added[f]) : added[f][k].in >= ProcTicks
             /\ \A k, l \in 1 .. Len(added[f]) : k < l => added[f][k].in <= added[f][l].in
  <2>1. Placed(layout[f])
    BY <1>3, LayoutFacts
  <2>2. /\ FlowEvents(f, layout, offset[f]) \in Seq(MadeFor(f))
        /\ Aligned(Pipelined(layout[f]), FlowEvents(f, layout, offset[f]), f)
    BY <1>3, FlowEventsFacts
  <2>3. /\ Pipelined(layout[f]) \in Seq(Grants)
        /\ Len(Pipelined(layout[f])) = Len(layout[f])
        /\ \A k \in 1 .. Len(layout[f]) :
             Pipelined(layout[f])[k] = [bytes |-> MinislotsToBytes(layout[f][k].length),
                                        in |-> GrantTime(layout[f][k])]
        /\ \A k, l \in 1 .. Len(layout[f]) :
             k < l => Pipelined(layout[f])[k].in <= Pipelined(layout[f])[l].in
    BY <2>1, PipelinedFacts
  <2>4. \A k \in 1 .. Len(layout[f]) : GrantTime(layout[f][k]) >= ProcTicks
    BY <2>1, GrantFacts
  <2>5. ASSUME NEW k \in 1 .. Len(layout[f])
        PROVE  Pipelined(layout[f])[k].in >= ProcTicks
    <3> DEFINE grant == [bytes |-> MinislotsToBytes(layout[f][k].length),
                         in |-> GrantTime(layout[f][k])]
    <3>1. Pipelined(layout[f])[k] = grant
      BY <2>3
    <3>2. grant.in = GrantTime(layout[f][k])
      OBVIOUS
    <3> QED BY <3>1, <3>2, <2>4
  <2>6. made[f] = FlowEvents(f, layout, offset[f]) /\ added[f] = Pipelined(layout[f])
    OBVIOUS
  <2> HIDE DEF made, added
  <2> QED BY <2>2, <2>3, <2>5, <2>6
<1> HIDE DEF made
<1>8. /\ events \in Seq(Made) /\ events \in Seq(Events)
      /\ \A f \in Flows : Aligned(added[f], events, f)
  <2> HIDE DEF added
  <2> QED BY <1>7, InFlowOrderFacts
<1> HIDE DEF events
<1>9. Spaced(events)
  BY <1>8, MadeSpaced
<1>10. ASSUME NEW e \in Made
       PROVE  e \in Events /\ ~ ToCome(e) /\ (OfMap(e) => Counts(e) \in Interval)
  BY MadeFacts DEF Made
<1>11. ASSUME NEW d \in Events, Apart(d, h), Apart(h, d), NEW e \in Made
       PROVE  Apart(d, e) /\ Apart(e, d)
  <2>1. Apart(d, e)
    BY <1>10 DEF Apart, ToCome
  <2>2. ASSUME OfMap(e), ToCome(d) PROVE Counts(e) < Begins(d)
    <3>1. Counts(e) \in Interval
      BY <1>10, <2>2
    <3>2. Begins(d) \in Nat
      BY EventFacts, ConstantFacts DEF Begins
    <3>3. Begins(d) >= ProcTicks + MapInterval
      <4>1. CASE d.event = "GenerateMap"
        BY <1>6, <1>11, <4>1 DEF Apart
      <4>2. CASE d.event = "HandleMapMsg"
        <5>1. \/ Begins(d) + MapInterval <= ProcTicks
              \/ ProcTicks + MapInterval <= Begins(d)
          BY <1>6, <1>11, <4>2 DEF Apart
        <5>2. Begins(d) >= ProcTicks
          BY <4>2, EventFacts, ConstantFacts DEF Begins
        <5> QED BY <5>1, <5>2, <3>2, ConstantFacts, MapIntervalFacts
      <4> QED BY <4>1, <4>2, <2>2 DEF ToCome
    <3> QED BY <3>1, <3>2, <3>3, ConstantFacts, MapIntervalFacts DEF Interval
  <2>3. Apart(e, d)
    BY <1>10, <2>2 DEF Apart, ToCome
  <2> QED BY <2>1, <2>3
<1>12. Timed(rest) /\ Timed(events)
  BY <1>2, <1>8, ListFacts
<1>13. /\ new \in Seq(Events) /\ Sorted(new)
       /\ \E a, b : Merged(new, rest, events, Len(events), a, b)
  BY <1>2, <1>8, <1>12, ScheduleAllMerges
<1>14. PICK a, b : Merged(new, rest, events, Len(events), a, b)
  BY <1>13
<1> HIDE DEF new
<1>15. Spaced(new)
  <2>1. \A i \in 1 .. Len(rest) : rest[i] \in Events
    BY <1>2, ListFacts
  <2>2. \A j \in 1 .. Len(events) : events[j] \in Made
    BY <1>8, ElementOfSeq
  <2>3. \A i \in 1 .. Len(rest), j \in 1 .. Len(events) :
          Apart(rest[i], events[j]) /\ Apart(events[j], rest[i])
    BY <1>2, <1>11, <2>1, <2>2
  <2>4. Len(rest) \in Nat /\ Len(events) \in Nat
    BY <1>2, <1>8, LenProperties
  <2> QED BY <1>2, <1>9, <1>14, <2>3, <2>4, MergeSpaced
<1>16. ASSUME NEW f \in Flows
       PROVE  both[f] \in Seq(Grants) /\ Aligned(both[f], new, f)
  <2>1. pipes[f] \in Seq(Grants) /\ Aligned(pipes[f], list, f) /\ Aligned(pipes[f], rest, f)
    BY <1>5 DEF Agrees
  <2>2. \A k \in 1 .. Len(pipes[f]) : pipes[f][k].in < ProcTicks
    <3> SUFFICES ASSUME NEW k \in 1 .. Len(pipes[f]) PROVE pipes[f][k].in < ProcTicks
      OBVIOUS
    <3>1. PICK p : /\ Enumerates(p, Len(pipes[f]), rest, BurstsOf(f))
                   /\ \A n \in 1 .. Len(pipes[f]) : pipes[f][n] = GrantOf(rest[p[n]])
      BY <2>1 DEF Aligned
    <3> DEFINE e == rest[p[k]]
    <3>2. p[k] \in 1 .. Len(rest) /\ e \in BurstsOf(f) /\ pipes[f][k] = GrantOf(e)
      BY <3>1 DEF Enumerates
    <3>3. Apart(e, h)
      BY <1>2, <3>2
    <3> HIDE DEF e
    <3>4. e.event = "PrepareBurst"
      BY <3>2 DEF BurstsOf, BurstsDue, EventsOf
    <3>5. OfMap(e) /\ ToCome(h) /\ Counts(e) = e.in + PrepTicks
      BY <1>6, <3>4 DEF OfMap, ToCome, Counts
    <3>6. Counts(e) < ProcTicks
      BY <1>6, <3>3, <3>5 DEF Apart
    <3> QED BY <3>2, <3>5, <3>6 DEF GrantOf
  <2>3. /\ added[f] \in Seq(Grants) /\ Aligned(added[f], events, f)
        /\ \A k \in 1 .. Len(added[f]) : added[f][k].in >= ProcTicks
        /\ \A k, l \in 1 .. Len(added[f]) : k < l => added[f][k].in <= added[f][l].in
    BY <1>7, <1>8
  <2>4. both[f] = pipes[f] \o added[f]
    OBVIOUS
  <2> HIDE DEF added, both
  <2>5. \A k \in 1 .. Len(pipes[f]), l \in 1 .. Len(added[f]) :
          pipes[f][k].in <= added[f][l].in
    <3> SUFFICES ASSUME NEW k \in 1 .. Len(pipes[f]), NEW l \in 1 .. Len(added[f])
                 PROVE  pipes[f][k].in <= added[f][l].in
      OBVIOUS
    <3>1. pipes[f][k] \in Grants /\ added[f][l] \in Grants
      BY <2>1, <2>3, ElementOfSeq
    <3>2. pipes[f][k].in \in Nat /\ added[f][l].in \in Nat
      BY <3>1 DEF Grants
    <3>3. pipes[f][k].in < ProcTicks /\ added[f][l].in >= ProcTicks
      BY <2>2, <2>3
    <3> QED BY <3>2, <3>3, ConstantFacts
  <2>6. pipes[f] \o added[f] \in Seq(Grants) /\ Aligned(pipes[f] \o added[f], new, f)
    BY <1>2, <1>8, <1>14, <2>1, <2>3, <2>5, AlignedMerged
  <2> QED BY <2>4, <2>6
<1> HIDE DEF both
<1>17. Agrees(new, both)
  BY <1>13, <1>15, <1>16 DEF Agrees
<1> QED BY <1>3, <1>17 DEF new, rest, events, made, layout, h, both

-----------------------------------------------------------------------------
(* Queues and pipelines in bytes.                                          *)

\* What a grant or a burst carries, and what of it may be sent.
GrantBytes == [g \in Grants |-> g.bytes]
ReadyBytes == [g \in Grants |-> IF g.in <= 0 THEN g.bytes ELSE 0]

\* A list of sizes is a list of numbers.
LEMMA SizesFacts ==
  ASSUME NEW s \in Seq(Nat \ {0})
  PROVE  /\ s \in Seq(Nat) /\ SumSeq(s) \in Nat /\ Len(s) \in Nat
         /\ \A i \in 1 .. Len(s) : s[i] \in Nat \ {0}
<1>1. Len(s) \in Nat /\ \A i \in 1 .. Len(s) : s[i] \in Nat \ {0}
  BY LenProperties, ElementOfSeq
<1>2. s \in [1 .. Len(s) -> Nat]
  <2>1. s \in [1 .. Len(s) -> Nat \ {0}]
    BY LenProperties
  <2> QED BY <2>1, <1>1
<1>3. s \in Seq(Nat)
  BY <1>1, <1>2, SeqDef
<1> QED BY <1>1, <1>3, SumIsNat

\* What a pipeline holds, and what of it may be sent.
LEMMA TotalFacts ==
  ASSUME NEW pipe \in Seq(Grants)
  PROVE  /\ TotalOf(pipe) = TotalWeight(pipe, GrantBytes) /\ TotalOf(pipe) \in Nat
         /\ GetEligible(pipe) \in Nat /\ GetEligible(pipe) <= TotalOf(pipe)
<1> DEFINE n == Len(pipe)
           all == [i \in DOMAIN pipe |-> pipe[i].bytes]
           ready == [i \in DOMAIN pipe |-> IF pipe[i].in <= 0 THEN pipe[i].bytes ELSE 0]
<1>1. n \in Nat /\ DOMAIN pipe = 1..n /\ \A i \in 1..n : pipe[i] \in Grants
  BY LenProperties, ElementOfSeq
<1>2. \A g \in Grants : g.bytes \in Nat /\ GrantBytes[g] = g.bytes
  BY DEF Grants, GrantBytes
<1>3. GrantBytes \in [Grants -> Nat]
  BY <1>2 DEF GrantBytes
<1>4. all = Weights(pipe, GrantBytes)
  BY <1>1, <1>2 DEF Weights
<1> HIDE DEF n
<1>5. all \in [1..n -> Nat] /\ ready \in [1..n -> Nat] /\ \A i \in 1..n : ready[i] <= all[i]
  BY <1>1, <1>2
<1> HIDE DEF all, ready
<1>6. all \in Seq(Nat) /\ ready \in Seq(Nat) /\ Len(all) = n /\ Len(ready) = n
  BY <1>1, <1>5, SeqDef, LenProperties
<1>7. SumSeq(all) \in Nat /\ SumSeq(ready) \in Nat /\ SumSeq(ready) <= SumSeq(all)
  BY <1>5, <1>6, SumIsNat, SumMonotone
<1> QED BY <1>4, <1>7 DEF TotalOf, GetEligible, TotalWeight, all, ready

\* Bytes are numbers.
LEMMA BytesFacts ==
  ASSUME QueuesTyped, NEW f \in Flows
  PROVE  /\ AqmBytes(f) \in Nat /\ DeviceBytes(f) \in Nat /\ Unsent(f) \in Nat
         /\ FragmentLeft(f) \in Nat /\ SumSeq(device[f]) \in Nat
         /\ Unsent(f) = AqmBytes(f) + DeviceBytes(f)
         /\ DeviceBytes(f) = SumSeq(device[f]) + FragmentLeft(f)
<1>1. AqmBytes(f) \in Nat /\ SumSeq(device[f]) \in Nat
  BY SizesFacts DEF QueuesTyped, AqmBytes
<1>2. frag[f].size \in Nat /\ frag[f].sent \in Nat /\ frag[f].sent <= frag[f].size
  BY DEF QueuesTyped
<1> QED BY <1>1, <1>2 DEF Unsent, DeviceBytes, FragmentLeft

\* What time does to a pipeline.
LEMMA AgedFacts ==
  ASSUME NEW pipe \in Seq(Grants), NEW ticks \in Nat
  PROVE  /\ Aged(pipe, ticks) \in Seq(Grants) /\ Len(Aged(pipe, ticks)) = Len(pipe)
         /\ \A i \in 1 .. Len(pipe) : Aged(pipe, ticks)[i].bytes = pipe[i].bytes
<1> DEFINE n == Len(pipe)
           aged == Aged(pipe, ticks)
<1>1. n \in Nat /\ DOMAIN pipe = 1..n /\ \A i \in 1..n : pipe[i] \in Grants
  BY LenProperties, ElementOfSeq
<1>2. aged = [i \in 1..n |-> [pipe[i] EXCEPT !.in = Max({@ - ticks, 0})]]
  BY <1>1 DEF Aged
<1> HIDE DEF n, aged
<1>3. ASSUME NEW i \in 1..n PROVE aged[i] \in Grants /\ aged[i].bytes = pipe[i].bytes
  <2>1. pipe[i] \in Grants /\ pipe[i].in \in Nat
    BY <1>1 DEF Grants
  <2>2. Max({pipe[i].in - ticks, 0}) \in Nat
    <3> DEFINE left == pipe[i].in - ticks
    <3>1. left \in Int /\ 0 \in Int
      BY <2>1
    <3> HIDE DEF left
    <3>2. Max({left, 0}) \in {left, 0} /\ Max({left, 0}) >= 0
      BY <3>1, MaxOfTwo
    <3>3. Max({left, 0}) \in Nat
      BY <3>1, <3>2
    <3> QED BY <3>3 DEF left
  <2>3. aged[i] = [pipe[i] EXCEPT !.in = Max({pipe[i].in - ticks, 0})]
    BY <1>2
  <2> QED BY <2>1, <2>2, <2>3 DEF Grants
<1>4. aged \in [1..n -> Grants]
  BY <1>2, <1>3
<1> QED BY <1>1, <1>3, <1>4, SeqDef, LenProperties DEF n, aged

\* The steps of taking bytes from a pipeline.
Removed(pipe, value, acc) ==
  /\ acc[0] = [left |-> value, out |-> <<>>]
  /\ \A k \in 0 .. Len(pipe) : acc[k] \in [left : Nat, out : Seq(Grants)]
  /\ \A k \in 1 .. Len(pipe) : acc[k] = TakeFrom(acc[k - 1], pipe[k])

\* RemoveBytes goes through the pipeline from its front.
LEMMA RemoveSteps ==
  ASSUME NEW pipe \in Seq(Grants), NEW value \in Nat
  PROVE  \E acc : Removed(pipe, value, acc) /\ RemoveBytes(pipe, value) = acc[Len(pipe)].out
<1> DEFINE n == Len(pipe)
           D == 1..n
           V == [left : Nat, out : Seq(Grants)]
           base == [left |-> value, out |-> <<>>]
           Put(g) == [s \in SUBSET D |->
                        IF s = {} THEN base
                        ELSE TakeFrom(g[s \ {Max(s)}], pipe[Max(s)])]
           put == CHOOSE g : g = Put(g)
           pick == [s \in SUBSET D |-> Max(s)]
           step == [e \in D \X V |-> TakeFrom(e[2], pipe[e[1]])]
<1>1. RemoveBytes(pipe, value) = put[D].out
  <2>1. DOMAIN pipe = D
    BY LenProperties
  <2>2. RemoveBytes(pipe, value) =
          (LET iter[s \in SUBSET DOMAIN pipe] ==
                 IF s = {} THEN [left |-> value, out |-> <<>>]
                 ELSE TakeFrom(iter[s \ {Max(s)}], pipe[Max(s)])
           IN  iter[DOMAIN pipe]).out
    BY Zenon DEF RemoveBytes, FoldLeft, MapThenFoldSet
  <2> QED BY <2>1, <2>2, Zenon
<1>2. n \in Nat /\ \A i \in D : pipe[i] \in Grants
  BY LenProperties, ElementOfSeq
<1>3. IsFiniteSet(D)
  <2>1. 1 \in Int /\ n \in Int
    BY <1>2
  <2> QED BY <2>1, FS_Interval
<1>4. base \in V
  BY EmptySeq
<1> HIDE DEF n
<1>5. ASSUME NEW s \in SUBSET D, s # {} PROVE Max(s) \in s /\ \A y \in s : Max(s) >= y
  <2>1. s \in SUBSET (0..n)
    BY <1>2 DEF D
  <2> QED BY <2>1, <1>2, <1>5, MaxOfNumbers
<1>6. \A s \in SUBSET D : s # {} => pick[s] \in s
  BY <1>5
<1>7. ASSUME NEW v \in V, NEW x \in D PROVE TakeFrom(v, pipe[x]) \in V
  <2> DEFINE e == pipe[x]
             rest == [e EXCEPT !.bytes = @ - v.left]
  <2>1. e \in Grants /\ e.bytes \in Nat \ {0} /\ v.left \in Nat /\ v.out \in Seq(Grants)
    BY <1>2 DEF Grants
  <2> HIDE DEF e
  <2>2. CASE v.left = 0 \/ e.bytes > v.left
    <3>1. e.bytes - v.left \in Nat \ {0}
      BY <2>1, <2>2
    <3>2. rest \in Grants
      BY <2>1, <3>1 DEF Grants
    <3> HIDE DEF rest
    <3>3. Append(v.out, rest) \in Seq(Grants)
      BY <2>1, <3>2, AppendProperties
    <3>4. TakeFrom(v, e) = [left |-> 0, out |-> Append(v.out, rest)]
      BY <2>2 DEF TakeFrom, rest
    <3> QED BY <3>3, <3>4 DEF e
  <2>3. CASE ~ (v.left = 0 \/ e.bytes > v.left)
    <3>1. v.left - e.bytes \in Nat
      BY <2>1, <2>3
    <3>2. TakeFrom(v, e) = [v EXCEPT !.left = @ - e.bytes]
      BY <2>3 DEF TakeFrom
    <3> QED BY <2>1, <3>1, <3>2 DEF e
  <2> QED BY <2>2, <2>3
<1> HIDE DEF D, V, base
<1>8. \A x \in D : \A v \in V :
        step[<<x, v>>] = TakeFrom(v, pipe[x]) /\ step[<<x, v>>] \in V
  BY <1>7
<1> HIDE DEF pick, step
<1>9. PICK g : Folded(D, V, base, pick, step, g)
  BY <1>3, <1>4, <1>6, <1>8, FoldExists
<1>10. g = Put(g)
  <2>1. ASSUME NEW s \in SUBSET D, s # {}
        PROVE  g[s] = TakeFrom(g[s \ {Max(s)}], pipe[Max(s)])
    <3>1. pick[s] \in D /\ g[s \ {pick[s]}] \in V
      BY <1>6, <1>9, <2>1 DEF Folded
    <3>2. g[s] = TakeFrom(g[s \ {pick[s]}], pipe[pick[s]])
      BY <1>8, <1>9, <2>1, <3>1 DEF Folded
    <3> QED BY <3>2 DEF pick
  <2>2. DOMAIN g = SUBSET D /\ g[{}] = base /\ g = [s \in SUBSET D |-> g[s]]
    BY <1>9 DEF Folded
  <2> QED BY <2>1, <2>2
<1>11. put = Put(put)
  <2> HIDE DEF Put
  <2> QED BY <1>10
<1> HIDE DEF put
<1>12. /\ put[{}] = base
       /\ \A s \in SUBSET D : s # {} => put[s] = TakeFrom(put[s \ {Max(s)}], pipe[Max(s)])
  BY <1>11
<1> HIDE DEF Put
<1>13. \A s \in SUBSET D : put[s] \in V
  <2>1. ASSUME NEW s \in SUBSET D, s # {}, put[s \ {pick[s]}] \in V PROVE put[s] \in V
    <3>1. pick[s] \in D /\ pick[s] = Max(s)
      BY <2>1, <1>6 DEF pick
    <3>2. put[s] = TakeFrom(put[s \ {pick[s]}], pipe[pick[s]])
      BY <2>1, <3>1, <1>12
    <3> QED BY <2>1, <3>1, <3>2, <1>7
  <2>2. put[{}] \in V
    BY <1>4, <1>12
  <2> QED BY <1>3, <1>6, <2>1, <2>2, FoldTyped
<1> DEFINE acc == [k \in 0..n |-> put[1..k]]
<1>14. \A k \in 0..n : 1..k \in SUBSET D
  BY <1>2 DEF D
<1>15. \A k \in 0..n : acc[k] \in V
  BY <1>13, <1>14
<1>16. acc[0] = base
  <2>1. 1..0 = {} /\ 0 \in 0..n
    BY <1>2
  <2> QED BY <1>12, <2>1
<1>17. ASSUME NEW k \in 1..n PROVE acc[k] = TakeFrom(acc[k - 1], pipe[k])
  <2>1. k \in 0..n /\ k - 1 \in 0..n /\ k \in 1..k /\ (1..k) \ {k} = 1 .. k - 1
    BY <1>2
  <2>2. Max(1..k) = k
    <3>1. Max(1..k) \in 1..k /\ \A y \in 1..k : Max(1..k) >= y
      BY <1>5, <1>14, <2>1
    <3> QED BY <3>1, <2>1
  <2>3. 1..k \in SUBSET D /\ 1..k # {}
    BY <1>14, <2>1
  <2>4. put[1..k] = TakeFrom(put[(1..k) \ {Max(1..k)}], pipe[Max(1..k)])
    BY <1>12, <2>3
  <2> QED BY <2>1, <2>2, <2>4
<1>18. acc[n] = put[D]
  BY <1>2 DEF D
<1> HIDE DEF acc
<1> QED BY <1>1, <1>15, <1>16, <1>17, <1>18 DEF V, n, base, Removed

\* What remains of a pipeline is a pipeline.
LEMMA RemoveTyped ==
  ASSUME NEW pipe \in Seq(Grants), NEW value \in Nat
  PROVE  RemoveBytes(pipe, value) \in Seq(Grants)
<1>1. PICK acc : Removed(pipe, value, acc) /\ RemoveBytes(pipe, value) = acc[Len(pipe)].out
  BY RemoveSteps
<1>2. Len(pipe) \in 0 .. Len(pipe)
  BY LenProperties
<1> QED BY <1>1, <1>2 DEF Removed

\* What a request may ask of the shaper's buckets.
LEMMA ShapedFacts ==
  ASSUME CountersTyped, NEW request \in Nat, Rate # 0
  PROVE  LET shaped == ShapeRequest(request) IN
         shaped[1] \in 0..request /\ shaped[2] \in 0..EffectiveBurst
<1> DEFINE tokens == Min({msrTokens + sinceUpdate * Rate, EffectiveBurst})
           peak == IF PeakRate = 0 THEN request ELSE sinceUpdate * PeakRate
           shaped == Min({request, tokens, peak})
<1>1. /\ msrTokens \in Nat /\ sinceUpdate \in Nat /\ Rate \in Nat /\ PeakRate \in Nat
      /\ EffectiveBurst \in Nat
  BY ConstantFacts DEF CountersTyped
<1>2. sinceUpdate * Rate \in Nat /\ sinceUpdate * PeakRate \in Nat
  BY <1>1, ProductFacts
<1>3. tokens \in 0..EffectiveBurst
  <2> DEFINE filled == msrTokens + sinceUpdate * Rate
  <2>1. filled \in Nat
    BY <1>1, <1>2
  <2> HIDE DEF filled
  <2>2. /\ Min({filled, EffectiveBurst}) \in {filled, EffectiveBurst}
        /\ Min({filled, EffectiveBurst}) <= EffectiveBurst
    BY <1>1, <2>1, MinOfTwo
  <2>3. Min({filled, EffectiveBurst}) \in 0..EffectiveBurst
    BY <1>1, <2>1, <2>2
  <2> QED BY <2>3 DEF filled
<1>4. peak \in Nat
  BY <1>2
<1> HIDE DEF tokens, peak
<1>5. shaped \in {request, tokens, peak} /\ shaped <= request /\ shaped <= tokens
  <2>1. request \in Int /\ tokens \in Int /\ peak \in Int
    BY <1>1, <1>3, <1>4
  <2> QED BY <2>1, MinOfThree
<1> HIDE DEF shaped
<1>6. shaped \in 0..request /\ tokens - shaped \in 0..EffectiveBurst
  BY <1>1, <1>3, <1>4, <1>5
<1>7. ShapeRequest(request) = <<shaped, tokens - shaped>>
  BY DEF ShapeRequest, shaped, tokens, peak
<1> QED BY <1>6, <1>7

\* The time after which the buckets are full is a time.
LEMMA FullAfterFacts ==
  ASSUME NEW since \in Nat
  PROVE  Min({since, FullAfter}) \in Nat
<1>1. FullAfter \in Nat
  <2>1. CASE Rate = 0
    BY <2>1 DEF FullAfter
  <2>2. CASE Rate # 0
    <3> DEFINE fill == EffectiveBurst \div Rate + 1
               peak == IF PeakRate = 0 THEN 0 ELSE MaxUnsent \div PeakRate + 1
    <3>1. fill \in Nat
      <4>1. EffectiveBurst \in Nat /\ Rate \in Nat \ {0}
        BY <2>2, ConstantFacts
      <4> QED BY <4>1, Z3
    <3>2. peak \in Nat
      <4>1. CASE PeakRate = 0
        BY <4>1
      <4>2. CASE PeakRate # 0
        <5>1. MaxUnsent \in Nat /\ PeakRate \in Nat \ {0}
          BY <4>2, ConstantFacts
        <5>2. MaxUnsent \div PeakRate + 1 \in Nat
          BY <5>1, Z3
        <5> QED BY <4>2, <5>2
      <4> QED BY <4>1, <4>2
    <3>3. FullAfter = Max({fill, peak})
      BY <2>2 DEF FullAfter
    <3> HIDE DEF fill, peak
    <3>4. Max({fill, peak}) \in {fill, peak}
      BY <3>1, <3>2, MaxOfTwo
    <3> QED BY <3>1, <3>2, <3>3, <3>4
  <2> QED BY <2>1, <2>2
<1> HIDE DEF FullAfter
<1>2. Min({since, FullAfter}) \in {since, FullAfter}
  BY <1>1, MinOfTwo
<1> QED BY <1>1, <1>2

\* What a flow asks for is at most what it holds.
LEMMA RequestFacts ==
  ASSUME QueuesTyped, CountersTyped, NEW f \in Flows, grantPipeline[f] \in Seq(Grants)
  PROVE  /\ NewRequest(f) \in Int /\ GrantInFront(f) \in Nat
         /\ requestPipeline[f] \in Nat
         /\ requestPipeline[f] + NewRequest(f) + GrantInFront(f) = Unsent(f)
<1>1. Unsent(f) \in Nat /\ requestPipeline[f] \in Nat
  BY BytesFacts DEF CountersTyped
<1>2. GrantInFront(f) \in Nat
  <2>1. CASE grantPipeline[f] = <<>>
    BY <2>1 DEF GrantInFront
  <2>2. CASE grantPipeline[f] # <<>>
    <3>1. Head(grantPipeline[f]) \in Grants
      BY <2>2, HeadTailProperties
    <3> QED BY <2>2, <3>1 DEF GrantInFront, Grants
  <2> QED BY <2>1, <2>2
<1> QED BY <1>1, <1>2 DEF NewRequest

\* What carries bytes, as a function.
LEMMA BytesAreWeights ==
  /\ GrantBytes \in [Grants -> Nat]
  /\ \A g \in Grants : GrantBytes[g] = g.bytes /\ g.bytes \in Nat
BY DEF GrantBytes, Grants

\* Bytes that change places.
LEMMA Balance ==
  ASSUME NEW out \in Nat, NEW value \in Nat, NEW before \in Nat, NEW left \in Nat,
         NEW bytes \in Nat, out + value = before + left
  PROVE  /\ (out + (bytes - left)) + value = (before + bytes) + 0
         /\ out + value = (before + bytes) + (left - bytes)
OBVIOUS

\* Taking bytes that a pipeline holds leaves the others in it.
LEMMA RemoveTotal ==
  ASSUME NEW pipe \in Seq(Grants), NEW value \in 0 .. TotalOf(pipe)
  PROVE  TotalOf(RemoveBytes(pipe, value)) = TotalOf(pipe) - value
<1> DEFINE n == Len(pipe)
           w == GrantBytes
           ws == Weights(pipe, w)
<1>1. value \in Nat /\ TotalOf(pipe) \in Nat /\ TotalOf(pipe) = TotalWeight(pipe, w)
  BY TotalFacts
<1>2. PICK acc : Removed(pipe, value, acc) /\ RemoveBytes(pipe, value) = acc[n].out
  BY <1>1, RemoveSteps
<1>3. ws \in Seq(Nat) /\ Len(ws) = n /\ \A k \in 1..n : ws[k] = w[pipe[k]]
  BY BytesAreWeights, WeightFacts
<1>4. PICK P : Sums(ws, P) /\ TotalWeight(pipe, w) = P[n]
  <2>1. \E P : Sums(ws, P) /\ SumSeq(ws) = P[Len(ws)]
    <3> HIDE DEF ws
    <3> QED BY <1>3, SumsExist
  <2> QED BY <2>1, <1>3 DEF TotalWeight
<1>5. n \in Nat /\ \A k \in 1..n : pipe[k] \in Grants /\ pipe[k].bytes \in Nat \ {0}
  <2>1. n \in Nat /\ \A k \in 1..n : pipe[k] \in Grants
    BY LenProperties, ElementOfSeq
  <2> QED BY <2>1 DEF Grants
<1>6. /\ P \in [0..n -> Nat] /\ P[0] = 0
      /\ \A k \in 1..n : P[k] = P[k - 1] + pipe[k].bytes
  <2>1. \A k \in 1..n : ws[k] = pipe[k].bytes
    BY <1>3, <1>5, BytesAreWeights
  <2> HIDE DEF ws
  <2> QED BY <1>3, <1>4, <2>1 DEF Sums
<1>7. /\ acc[0] = [left |-> value, out |-> <<>>]
      /\ \A k \in 0..n : acc[k] \in [left : Nat, out : Seq(Grants)]
      /\ \A k \in 1..n : acc[k] = TakeFrom(acc[k - 1], pipe[k])
  BY <1>2 DEF Removed
<1> HIDE DEF n, ws
<1> DEFINE Left(k) == acc[k].left
           Out(k) == TotalWeight(acc[k].out, w)
           Good(k) == /\ Out(k) + value = P[k] + Left(k)
                      /\ Left(k) # 0 => acc[k].out = <<>>
<1>8. \A k \in 0..n : Left(k) \in Nat /\ Out(k) \in Nat /\ acc[k].out \in Seq(Grants)
  <2> SUFFICES ASSUME NEW k \in 0..n
               PROVE  Left(k) \in Nat /\ Out(k) \in Nat /\ acc[k].out \in Seq(Grants)
    OBVIOUS
  <2>1. acc[k].left \in Nat /\ acc[k].out \in Seq(Grants)
    BY <1>7
  <2>2. TotalWeight(acc[k].out, w) \in Nat
    BY <2>1, BytesAreWeights, WeightFacts
  <2> QED BY <2>1, <2>2
<1>9. TotalWeight(<<>>, w) = 0
  <2>1. <<>> \in Seq(Grants) /\ \A i \in 1 .. Len(<<>>) : w[<<>>[i]] = 0
    OBVIOUS
  <2> QED BY <2>1, BytesAreWeights, WeightZero
<1>10. Good(0)
  <2>1. acc[0].left = value /\ acc[0].out = <<>>
    BY <1>7
  <2>2. Left(0) = value /\ Out(0) = 0 /\ acc[0].out = <<>>
    BY <2>1, <1>9
  <2> HIDE DEF Left, Out
  <2> QED BY <2>2, <1>1, <1>6
<1>11. ASSUME NEW k \in 1..n, Good(k - 1) PROVE Good(k)
  <2> DEFINE a == acc[k - 1]
             e == pipe[k]
             rest == [e EXCEPT !.bytes = @ - a.left]
  <2>1. k - 1 \in 0..n /\ k \in 0..n /\ a.left \in Nat /\ a.out \in Seq(Grants)
    <3>1. k - 1 \in 0..n /\ k \in 0..n
      BY <1>5
    <3> QED BY <3>1, <1>8
  <2>2. e \in Grants /\ e.bytes \in Nat \ {0}
    BY <1>5
  <2>3. P[k] = P[k - 1] + e.bytes /\ P[k - 1] \in Nat /\ P[k] \in Nat
    BY <1>6, <2>1
  <2>4. TotalWeight(a.out, w) \in Nat
    BY <1>8, <2>1
  <2>5. /\ TotalWeight(a.out, w) + value = P[k - 1] + a.left
        /\ a.left # 0 => a.out = <<>>
    BY <1>11
  <2>6. acc[k] = TakeFrom(a, e)
    BY <1>7
  <2> HIDE DEF a, e
  <2>7. CASE a.left = 0 \/ e.bytes > a.left
    <3>1. e.bytes - a.left \in Nat \ {0}
      BY <2>1, <2>2, <2>7
    <3>2. rest \in Grants /\ rest.bytes = e.bytes - a.left
      BY <2>2, <3>1 DEF Grants
    <3> HIDE DEF rest
    <3>3. TakeFrom(a, e) = [left |-> 0, out |-> Append(a.out, rest)]
      BY <2>7 DEF TakeFrom, rest
    <3>4. Left(k) = 0 /\ acc[k].out = Append(a.out, rest)
      BY <2>6, <3>3
    <3>5. TotalWeight(Append(a.out, rest), w) = TotalWeight(a.out, w) + w[rest]
      BY <2>1, <3>2, BytesAreWeights, WeightAppend
    <3>6. w[rest] = e.bytes - a.left
      BY <3>2, BytesAreWeights
    <3>7. Out(k) = TotalWeight(a.out, w) + (e.bytes - a.left)
      BY <3>4, <3>5, <3>6
    <3> HIDE DEF Left, Out
    <3>8. Out(k) + value = P[k] + Left(k)
      <4>1. (TotalWeight(a.out, w) + (e.bytes - a.left)) + value = (P[k - 1] + e.bytes) + 0
        BY <1>1, <2>1, <2>2, <2>3, <2>4, <2>5, Balance
      <4> QED BY <2>3, <3>4, <3>7, <4>1, Zenon
    <3> QED BY <3>4, <3>8
  <2>8. CASE ~ (a.left = 0 \/ e.bytes > a.left)
    <3>1. TakeFrom(a, e) = [a EXCEPT !.left = @ - e.bytes]
      BY <2>8 DEF TakeFrom
    <3>2. a \in [left : Nat, out : Seq(Grants)]
      BY <1>7, <2>1 DEF a
    <3>3. Left(k) = a.left - e.bytes /\ acc[k].out = a.out
      BY <2>6, <3>1, <3>2
    <3>4. Out(k) = TotalWeight(a.out, w)
      BY <3>3
    <3>5. a.out = <<>>
      BY <2>5, <2>8
    <3> HIDE DEF Left, Out
    <3>6. Out(k) + value = P[k] + Left(k)
      <4>1. TotalWeight(a.out, w) + value = (P[k - 1] + e.bytes) + (a.left - e.bytes)
        BY <1>1, <2>1, <2>2, <2>3, <2>4, <2>5, Balance
      <4> QED BY <2>3, <3>3, <3>4, <4>1, Zenon
    <3> QED BY <3>3, <3>5, <3>6
  <2> QED BY <2>7, <2>8
<1> HIDE DEF Good
<1> DEFINE Bad == {k \in 0..n : ~ Good(k)}
<1>12. Bad = {}
  <2> SUFFICES ASSUME Bad # {} PROVE FALSE
    OBVIOUS
  <2>1. PICK k \in Bad : \A j \in Bad : k <= j
    <3>1. Bad \in SUBSET Nat
      OBVIOUS
    <3> HIDE DEF Bad
    <3> QED BY <3>1, LeastNumber
  <2>2. k \in 1..n /\ k - 1 \in 0..n /\ ~ Good(k)
    BY <1>5, <1>10
  <2>3. k - 1 \notin Bad
    <3> HIDE DEF Bad
    <3> QED BY <2>1, <2>2
  <2> QED BY <1>11, <2>2, <2>3
<1>13. n \in 0..n /\ Good(n)
  <2>1. n \in 0..n
    BY <1>5
  <2> QED BY <2>1, <1>12
<1>14. Out(n) + value = P[n] + Left(n) /\ (Left(n) # 0 => Out(n) = 0)
  BY <1>9, <1>13 DEF Good
<1>15. TotalOf(acc[n].out) = Out(n)
  BY <1>8, <1>13, TotalFacts
<1>16. TotalOf(pipe) = P[n]
  BY <1>1, <1>4
<1>17. Left(n) \in Nat /\ Out(n) \in Nat
  BY <1>8, <1>13
<1> HIDE DEF Left, Out
<1>18. Left(n) = 0
  BY <1>1, <1>14, <1>16, <1>17
<1>19. Out(n) = TotalOf(pipe) - value
  BY <1>1, <1>14, <1>16, <1>17, <1>18
<1> QED BY <1>2, <1>15, <1>19

\* Packets in front of a queue and those behind.
LEMMA CutFacts ==
  ASSUME NEW s \in Seq(Nat \ {0}), NEW m \in 0 .. Len(s)
  PROVE  /\ SubSeq(s, 1, m) \in Seq(Nat \ {0}) /\ Len(SubSeq(s, 1, m)) = m
         /\ \A i \in 1..m : SubSeq(s, 1, m)[i] = s[i]
         /\ SubSeq(s, m + 1, Len(s)) \in Seq(Nat \ {0})
         /\ SumSeq(SubSeq(s, 1, m)) \in Nat /\ SumSeq(SubSeq(s, m + 1, Len(s))) \in Nat
         /\ SumSeq(s) = SumSeq(SubSeq(s, 1, m)) + SumSeq(SubSeq(s, m + 1, Len(s)))
<1> DEFINE n == Len(s)
           a == SubSeq(s, 1, m)
           b == SubSeq(s, m + 1, n)
<1>1. s \in Seq(Nat) /\ n \in Nat /\ m \in Nat /\ m <= n /\ \A i \in 1..n : s[i] \in Nat \ {0}
  BY SizesFacts
<1>2. a \in Seq(Nat \ {0}) /\ Len(a) = m /\ \A i \in 1..m : a[i] = s[i]
  <2>1. \A i \in 1..m : s[i] \in Nat \ {0}
    BY <1>1
  <2>2. /\ a \in Seq(Nat \ {0}) /\ Len(a) = (IF 1 <= m THEN m - 1 + 1 ELSE 0)
        /\ \A i \in 1 .. m - 1 + 1 : a[i] = s[1 + i - 1]
    BY <1>1, <2>1, SubSeqProperties
  <2> QED BY <1>1, <2>2
<1>3. b \in Seq(Nat \ {0})
  <2>1. \A i \in m + 1 .. n : s[i] \in Nat \ {0}
    BY <1>1
  <2> QED BY <1>1, <2>1, SubSeqProperties
<1>4. SumSeq(s) = SumSeq(a) + SumSeq(b)
  BY <1>1, SumSplit
<1>5. SumSeq(a) \in Nat /\ SumSeq(b) \in Nat
  BY <1>2, <1>3, SizesFacts
<1> QED BY <1>2, <1>3, <1>4, <1>5 DEF a, b, n

\* What `left' bytes take from the staging queue, with a packet cut in two if
\* it does not fit as a whole.
LEMMA SentFacts ==
  ASSUME NEW d \in Seq(Nat \ {0}), NEW left \in Nat, left <= SumSeq(d)
  PROVE  LET whole == Max({k \in 0 .. Len(d) : SumSeq(SubSeq(d, 1, k)) <= left} \cup {0})
             over  == left - SumSeq(SubSeq(d, 1, whole))
             split == over > 0 /\ whole < Len(d)
             rest  == SubSeq(d, IF split THEN whole + 2 ELSE whole + 1, Len(d))
             new   == IF split THEN [size |-> d[whole + 1], sent |-> over] ELSE NoFragment
         IN  /\ rest \in Seq(Nat \ {0}) /\ new \in [size : Nat, sent : Nat]
             /\ new.sent <= new.size
             /\ SumSeq(rest) + (new.size - new.sent) = SumSeq(d) - left
<1> DEFINE n == Len(d)
           S == {k \in 0..n : SumSeq(SubSeq(d, 1, k)) <= left}
           whole == Max(S \cup {0})
           head == SumSeq(SubSeq(d, 1, whole))
           over == left - head
           split == over > 0 /\ whole < n
           rest == SubSeq(d, IF split THEN whole + 2 ELSE whole + 1, n)
           new == IF split THEN [size |-> d[whole + 1], sent |-> over] ELSE NoFragment
<1>1. n \in Nat /\ SumSeq(d) \in Nat /\ \A i \in 1..n : d[i] \in Nat \ {0}
  BY SizesFacts
<1>2. 0 \in S
  <2>1. SumSeq(SubSeq(d, 1, 0)) = 0
    <3>1. SubSeq(d, 1, 0) \in Seq(Nat \ {0}) /\ Len(SubSeq(d, 1, 0)) = 0
      BY <1>1, CutFacts
    <3>2. SubSeq(d, 1, 0) = <<>>
      BY <3>1, EmptySeq
    <3> QED BY <3>2, SumEmpty
  <2> QED BY <1>1, <2>1
<1>3. S \cup {0} \in SUBSET (0..n) /\ S \cup {0} # {}
  BY <1>1
<1>4. whole \in S /\ \A k \in S : whole >= k
  <2>1. whole \in S \cup {0} /\ \A k \in S \cup {0} : whole >= k
    <3> HIDE DEF S
    <3> QED BY <1>1, <1>3, MaxOfNumbers
  <2> QED BY <1>2, <2>1
<1>5. whole \in 0..n /\ head <= left /\ whole \in Nat /\ whole + 1 \in Nat
  BY <1>1, <1>4
<1> HIDE DEF whole
<1>6. /\ SubSeq(d, 1, whole) \in Seq(Nat \ {0}) /\ Len(SubSeq(d, 1, whole)) = whole
      /\ \A i \in 1..whole : SubSeq(d, 1, whole)[i] = d[i]
      /\ SubSeq(d, whole + 1, n) \in Seq(Nat \ {0})
      /\ head \in Nat /\ SumSeq(SubSeq(d, whole + 1, n)) \in Nat
      /\ SumSeq(d) = head + SumSeq(SubSeq(d, whole + 1, n))
  BY <1>5, CutFacts
<1>7. over \in Nat
  BY <1>5, <1>6
<1>8. CASE split
  <2> DEFINE next == d[whole + 1]
  <2>1. over > 0 /\ whole + 1 \in 1..n /\ whole + 1 \in 0..n /\ whole + 1 > whole
    BY <1>1, <1>5, <1>8
  <2>2. next \in Nat
    BY <1>1, <2>1
  <2>3. /\ SubSeq(d, 1, whole + 1) \in Seq(Nat \ {0})
        /\ Len(SubSeq(d, 1, whole + 1)) = whole + 1
        /\ \A i \in 1 .. whole + 1 : SubSeq(d, 1, whole + 1)[i] = d[i]
        /\ SubSeq(d, (whole + 1) + 1, n) \in Seq(Nat \ {0})
        /\ SumSeq(SubSeq(d, (whole + 1) + 1, n)) \in Nat
        /\ SumSeq(d) = SumSeq(SubSeq(d, 1, whole + 1)) + SumSeq(SubSeq(d, (whole + 1) + 1, n))
    BY <2>1, CutFacts
  <2>4. SumSeq(SubSeq(d, 1, whole + 1)) = head + next
    <3> DEFINE s == SubSeq(d, 1, whole)
               t == SubSeq(d, 1, whole + 1)
    <3>1. s \in Seq(Nat) /\ t \in Seq(Nat)
      BY <1>6, <2>3, SizesFacts
    <3>2. /\ Len(s) = whole /\ Len(t) = whole + 1
          /\ \A i \in 1..whole : s[i] = d[i]
          /\ \A i \in 1 .. whole + 1 : t[i] = d[i]
      BY <1>6, <2>3
    <3> HIDE DEF s, t
    <3>a. \A i \in 1..whole : i \in 1 .. whole + 1
      BY <1>5
    <3>3. Len(t) = Len(s) + 1 /\ \A i \in 1 .. Len(s) : s[i] = t[i]
      BY <3>a, <3>2
    <3>4. SumSeq(t) = SumSeq(s) + t[Len(t)]
      BY <3>1, <3>3, SumOneMore
    <3>5. t[Len(t)] = next
      BY <1>5, <3>2
    <3> QED BY <3>4, <3>5 DEF s, t
  <2>5. whole + 1 \notin S
    <3> HIDE DEF S
    <3> QED BY <1>4, <1>5, <2>1
  <2>6. ~ (SumSeq(SubSeq(d, 1, whole + 1)) <= left)
    BY <2>1, <2>5
  <2>7. (whole + 1) + 1 = whole + 2
    BY <1>5
  <2>8. rest = SubSeq(d, (whole + 1) + 1, n) /\ new = [size |-> next, sent |-> over]
    BY <1>8, <2>7
  <2> DEFINE tail == SumSeq(SubSeq(d, (whole + 1) + 1, n))
  <2>9. new.size = next /\ new.sent = over /\ SumSeq(rest) = tail
    <3> DEFINE cut == [size |-> next, sent |-> over]
    <3>1. cut.size = next /\ cut.sent = over
      OBVIOUS
    <3>2. new = cut /\ SumSeq(rest) = tail
      BY <2>8
    <3> HIDE DEF cut, new, rest, tail, next, over
    <3> QED BY <3>1, <3>2
  <2>10. new \in [size : Nat, sent : Nat] /\ rest \in Seq(Nat \ {0})
    <3> HIDE DEF next, over, new, rest
    <3>1. [size |-> next, sent |-> over] \in [size : Nat, sent : Nat]
      BY <1>7, <2>2
    <3>2. rest \in Seq(Nat \ {0})
      BY <2>3, <2>8
    <3> QED BY <2>8, <3>1, <3>2
  <2>11. over = left - head
    OBVIOUS
  <2>12. tail \in Nat /\ SumSeq(d) = (head + next) + tail /\ ~ (head + next <= left)
    BY <2>3, <2>4, <2>6
  <2>13. head \in Nat
    BY <1>6
  <2> HIDE DEF rest, new, tail, next, head, over
  <2>14. over <= next /\ tail + (next - over) = SumSeq(d) - left
    BY <1>1, <2>2, <2>11, <2>12, <2>13
  <2> QED BY <2>9, <2>10, <2>14 DEF rest, new, over, split, head, S, whole, n
<1>9. CASE ~ split
  <2> DEFINE tail == SumSeq(SubSeq(d, whole + 1, n))
  <2>1. rest = SubSeq(d, whole + 1, n) /\ new = NoFragment
    BY <1>9
  <2>2. new.size = 0 /\ new.sent = 0 /\ new \in [size : Nat, sent : Nat]
    BY <2>1 DEF NoFragment
  <2>3. over = 0
    <3>1. CASE ~ (over > 0)
      BY <1>7, <3>1
    <3>2. CASE ~ (whole < n)
      <4>1. whole = n
        BY <1>1, <1>5, <3>2
      <4>2. SubSeq(d, 1, whole) = d
        BY <4>1, SubSeqFull
      <4>3. head = SumSeq(d)
        BY <4>2
      <4> QED BY <1>1, <1>5, <4>3
    <3> QED BY <1>9, <3>1, <3>2
  <2>4. rest \in Seq(Nat \ {0}) /\ SumSeq(rest) = tail
    BY <1>6, <2>1
  <2>5. tail \in Nat /\ head \in Nat /\ SumSeq(d) = head + tail /\ left - head = 0
    BY <1>6, <2>3
  <2> HIDE DEF rest, new, tail, head, over
  <2>6. tail + (0 - 0) = SumSeq(d) - left
    BY <1>1, <2>5
  <2> QED BY <2>2, <2>4, <2>6 DEF rest, new, over, split, head, S, whole, n
<1> QED BY <1>8, <1>9

-----------------------------------------------------------------------------
(* The steps.                                                              *)

\* What the event in front is.
LEMMA FrontFacts ==
  ASSUME UpstreamInv, NEW name, Due(name)
  PROVE  /\ agenda \in Seq(Events) /\ agenda # <<>> /\ Head(agenda) \in Events
         /\ Head(agenda).event = name /\ Head(agenda).in = 0
         /\ Agrees(agenda, grantPipeline)
         /\ name # "PrepareBurst" => Agrees(Rest, grantPipeline)
<1>1. agenda # <<>> /\ Head(agenda).event = name /\ Head(agenda).in = 0
  BY DEF Due, HeadIsDue
<1>2. agenda \in Seq(Events) /\ Agrees(agenda, grantPipeline)
  BY DEF UpstreamInv, AgendaInv, Agrees
<1>3. Head(agenda) \in Events
  BY <1>1, <1>2, HeadTailProperties
<1>4. ASSUME name # "PrepareBurst" PROVE Agrees(Tail(agenda), grantPipeline)
  <2>1. Head(agenda) \notin BurstsDue
    BY <1>1, <1>4 DEF BurstsDue, EventsOf
  <2> QED BY <1>1, <1>2, <2>1, RestAgrees
<1> QED BY <1>1, <1>2, <1>3, <1>4 DEF Rest

\* What an event does to one flow's bytes, if it leaves their number alone.
LEMMA HeldSame ==
  ASSUME HeldInv, aqm' = aqm, device' = device, frag' = frag,
         transmitPipeline' = transmitPipeline
  PROVE  HeldInv'
BY DEF HeldInv, Unsent, AqmBytes, DeviceBytes

\* The queues as they are.
LEMMA QueuesSame ==
  ASSUME QueuesTyped, aqm' = aqm, device' = device, frag' = frag,
         transmitPipeline' = transmitPipeline
  PROVE  QueuesTyped'
BY DEF QueuesTyped

\* ReceiveRequest.
LEMMA ReceiveRequestStep ==
  ASSUME UpstreamInv, NEW f \in Flows, ReceiveRequest(f)
  PROVE  UpstreamInv'
<1>1. Due("ReceiveRequest") /\ agenda' = Rest
  BY DEF ReceiveRequest, DueFor
<1>2. /\ UNCHANGED <<queues, pipelines, mapState, shaper, usedInMap>>
      /\ backlog' = [backlog EXCEPT ![f] = @ + Arg.n]
  BY DEF ReceiveRequest
<1>3. Head(agenda) \in Events /\ Head(agenda).event = "ReceiveRequest"
        /\ Agrees(Rest, grantPipeline)
  BY <1>1, FrontFacts
<1>4. Arg.n \in Nat
  <2>1. Head(agenda) \in RequestsSent
    BY <1>3, EventFacts
  <2> QED BY <2>1 DEF RequestsSent, EventsOf, FlowArgs, Arg
<1>5. AgendaInv'
  BY <1>1, <1>2, <1>3 DEF AgendaInv, pipelines
<1>6. QueuesTyped' /\ HeldInv' /\ PerFlow'
  <2>1. aqm' = aqm /\ device' = device /\ frag' = frag /\ grantPipeline' = grantPipeline
        /\ transmitPipeline' = transmitPipeline
    BY <1>2 DEF queues, pipelines
  <2>2. QueuesTyped /\ HeldInv /\ PerFlow
    BY DEF UpstreamInv
  <2> QED BY <2>1, <2>2, HeldSame, QueuesSame DEF PerFlow
<1>7. CountersTyped'
  <2>1. CountersTyped
    BY DEF UpstreamInv
  <2>2. /\ requestPipeline' = requestPipeline /\ usedInMap' = usedInMap
        /\ mapState' = mapState /\ msrTokens' = msrTokens /\ sinceUpdate' = sinceUpdate
    BY <1>2 DEF pipelines, shaper
  <2>3. backlog' \in [Flows -> Nat]
    BY <1>2, <1>4, <2>1 DEF CountersTyped
  <2> QED BY <2>1, <2>2, <2>3 DEF CountersTyped, EffectiveBurst
<1> QED BY <1>5, <1>6, <1>7 DEF UpstreamInv

\* The queues, the transmit pipelines and what they hold.
QueuesInv == QueuesTyped /\ HeldInv /\ PerFlow

\* A step that leaves the queues and the pipelines of grants and bursts alone.
LEMMA QueuesInvSame ==
  ASSUME UpstreamInv, queues' = queues, grantPipeline' = grantPipeline,
         transmitPipeline' = transmitPipeline
  PROVE  QueuesInv'
<1>1. aqm' = aqm /\ device' = device /\ frag' = frag
  BY DEF queues
<1>2. QueuesTyped /\ HeldInv /\ PerFlow
  BY DEF UpstreamInv
<1> QED BY <1>1, <1>2, HeldSame, QueuesSame DEF PerFlow, QueuesInv

\* A request of `bytes' leaves the modem.
LEMMA SendRequestStep ==
  ASSUME UpstreamInv, NEW f \in Flows, Due("MakeRequest"), NEW bytes \in 0..MaxUnsent,
         SendRequest(f, bytes), queues' = queues, grantPipeline' = grantPipeline,
         transmitPipeline' = transmitPipeline, UNCHANGED <<mapState, backlog, usedInMap>>,
         msrTokens' \in 0..EffectiveBurst, sinceUpdate' \in Nat
  PROVE  UpstreamInv'
<1>1. Agrees(Rest, grantPipeline)
  BY FrontFacts
<1> DEFINE event == FlowEvent(RequestTicks, "ReceiveRequest", f, bytes)
<1>2. event \in RequestsSent
  BY ConstantFacts DEF FlowEvent, Event, RequestsSent, EventsOf, FlowArgs
<1> HIDE DEF event
<1>3. AgendaInv'
  <2>1. Agrees(Schedule(Rest, event), grantPipeline)
    BY <1>1, <1>2, RequestAgrees
  <2> QED BY <2>1 DEF SendRequest, AgendaInv, event
<1>4. CountersTyped'
  <2>1. CountersTyped /\ bytes \in Nat
    BY ConstantFacts DEF UpstreamInv
  <2>2. requestPipeline' \in [Flows -> Nat]
    BY <2>1 DEF CountersTyped, SendRequest
  <2> QED BY <2>1, <2>2 DEF CountersTyped, EffectiveBurst
<1> QED BY <1>3, <1>4, QueuesInvSame DEF UpstreamInv, QueuesInv

\* How much a request asks for.
LEMMA AskedBytes ==
  ASSUME UpstreamInv, NEW f \in Flows, NewRequest(f) > 0
  PROVE  /\ NewRequest(f) \in 0..MaxUnsent /\ NewRequest(f) \in Nat
         /\ requestPipeline[f] \in Nat
         /\ requestPipeline[f] + NewRequest(f) + GrantInFront(f) = Unsent(f)
<1>1. /\ NewRequest(f) \in Int /\ GrantInFront(f) \in Nat /\ requestPipeline[f] \in Nat
      /\ requestPipeline[f] + NewRequest(f) + GrantInFront(f) = Unsent(f)
  BY RequestFacts DEF UpstreamInv, AgendaInv, Agrees
<1>2. Unsent(f) <= MaxUnsent /\ MaxUnsent \in Nat
  BY ConstantFacts DEF UpstreamInv, HeldInv
<1> QED BY <1>1, <1>2

\* MakeRequest.
LEMMA MakeRequestStep ==
  ASSUME UpstreamInv, NEW f \in Flows, MakeRequest(f)
  PROVE  UpstreamInv'
<1>1. /\ Due("MakeRequest")
      /\ UNCHANGED <<queues, grantPipeline, transmitPipeline, mapState, backlog, usedInMap>>
  BY DEF MakeRequest, DueFor
<1>2. CountersTyped
  BY DEF UpstreamInv
<1>3. CASE NothingToRequest(f)
  <2>1. AgendaInv'
    BY <1>1, <1>3, FrontFacts DEF NothingToRequest, AgendaInv
  <2>2. CountersTyped'
    BY <1>1, <1>2, <1>3 DEF CountersTyped, EffectiveBurst, NothingToRequest, shaper
  <2> QED BY <1>1, <2>1, <2>2, QueuesInvSame DEF UpstreamInv, QueuesInv
<1>4. CASE f = CLASSIC_SFID /\ MakeClassicRequest
  <2>1. NewRequest(f) > 0 /\ NewRequest(f) \in 0..MaxUnsent /\ NewRequest(f) \in Nat
    BY <1>4, AskedBytes DEF MakeClassicRequest
  <2>2. CASE SendRequest(CLASSIC_SFID, NewRequest(CLASSIC_SFID)) /\ UNCHANGED shaper
    <3>1. msrTokens' \in 0..EffectiveBurst /\ sinceUpdate' \in Nat
      BY <1>2, <2>2 DEF CountersTyped, shaper
    <3> QED BY <1>1, <1>4, <2>1, <2>2, <3>1, SendRequestStep
  <2>3. CASE Rate # 0 /\ SendRequest(CLASSIC_SFID, ShapeRequest(NewRequest(CLASSIC_SFID))[1])
             /\ msrTokens' = ShapeRequest(NewRequest(CLASSIC_SFID))[2] /\ sinceUpdate' = 0
    <3> DEFINE shaped == ShapeRequest(NewRequest(f))
    <3>1. shaped[1] \in 0..NewRequest(f) /\ shaped[2] \in 0..EffectiveBurst
      BY <1>2, <2>1, <2>3, ShapedFacts
    <3>2. SendRequest(f, shaped[1]) /\ msrTokens' = shaped[2] /\ sinceUpdate' = 0
      BY <1>4, <2>3
    <3> HIDE DEF shaped
    <3>3. shaped[1] \in 0..MaxUnsent
      BY <2>1, <3>1, ConstantFacts
    <3>4. msrTokens' \in 0..EffectiveBurst /\ sinceUpdate' \in Nat
      BY <3>1, <3>2
    <3> QED BY <1>1, <3>2, <3>3, <3>4, SendRequestStep
  <2> QED BY <1>4, <2>2, <2>3 DEF MakeClassicRequest
<1>5. CASE f = LOW_LATENCY_SFID /\ MakeLowLatencyRequest
  <2>1. NewRequest(f) \in 0..MaxUnsent
    BY <1>5, AskedBytes DEF MakeLowLatencyRequest
  <2>2. SendRequest(f, NewRequest(f)) /\ UNCHANGED shaper
    BY <1>5 DEF MakeLowLatencyRequest
  <2>3. msrTokens' \in 0..EffectiveBurst /\ sinceUpdate' \in Nat
    BY <1>2, <2>2 DEF CountersTyped, shaper
  <2> QED BY <1>1, <2>1, <2>2, <2>3, SendRequestStep
<1> QED BY <1>3, <1>4, <1>5 DEF MakeRequest

\* GenerateMap.
LEMMA GenerateMapStep ==
  ASSUME UpstreamInv, NEW layout \in Layouts, GenerateMap(layout)
  PROVE  UpstreamInv'
<1>1. /\ Due("GenerateMap") /\ UNCHANGED <<queues, pipelines, mapState, shaper, usedInMap>>
      /\ backlog' = [f \in Flows |-> Max({backlog[f] - GrantedBytes(layout[f]), 0})]
      /\ agenda' = ScheduleAll(Rest, <<Event(MapTicks, "HandleMapMsg", layout),
                                       Event(MapInterval, "GenerateMap", 0)>>)
  BY DEF GenerateMap
<1>2. /\ requestPipeline' = requestPipeline /\ grantPipeline' = grantPipeline
      /\ transmitPipeline' = transmitPipeline
  BY <1>1 DEF pipelines
<1>3. AgendaInv'
  <2>1. /\ Agrees(agenda, grantPipeline) /\ agenda # <<>>
        /\ Head(agenda).event = "GenerateMap" /\ Head(agenda).in = 0
    BY <1>1, FrontFacts
  <2>2. Agrees(agenda', grantPipeline)
    BY <1>1, <2>1, MapMadeAgrees DEF Rest
  <2> QED BY <1>2, <2>2 DEF AgendaInv
<1>4. CountersTyped'
  <2>1. CountersTyped
    BY DEF UpstreamInv
  <2>2. ASSUME NEW f \in Flows PROVE Max({backlog[f] - GrantedBytes(layout[f]), 0}) \in Nat
    <3> DEFINE left == backlog[f] - GrantedBytes(layout[f])
    <3>1. GrantedBytes(layout[f]) \in Nat /\ backlog[f] \in Nat
      BY <2>1, LayoutFacts, GrantFacts DEF CountersTyped
    <3>2. left \in Int /\ 0 \in Int
      BY <3>1
    <3> HIDE DEF left
    <3>3. Max({left, 0}) \in {left, 0} /\ Max({left, 0}) >= 0
      BY <3>2, MaxOfTwo
    <3>4. Max({left, 0}) \in Nat
      BY <3>2, <3>3
    <3> QED BY <3>4 DEF left
  <2>3. backlog' \in [Flows -> Nat]
    BY <1>1, <2>2
  <2> QED BY <1>1, <1>2, <2>1, <2>3 DEF CountersTyped, EffectiveBurst, shaper
<1> QED BY <1>1, <1>2, <1>3, <1>4, QueuesInvSame DEF UpstreamInv, QueuesInv

\* A grant leaves the requests, of which it never leaves fewer than none.
LEMMA StillRequestedFacts ==
  ASSUME CountersTyped, NEW f \in Flows, NEW layout \in Layouts
  PROVE  StillRequested(f, layout) \in 0..requestPipeline[f]
<1> DEFINE left == requestPipeline[f] - GrantedBytes(layout[f])
<1>1. GrantedBytes(layout[f]) \in Nat /\ requestPipeline[f] \in Nat
  BY LayoutFacts, GrantFacts DEF CountersTyped
<1>2. left \in Int /\ left <= requestPipeline[f] /\ 0 \in Int
  BY <1>1
<1> HIDE DEF left
<1>3. Max({left, 0}) \in {left, 0} /\ Max({left, 0}) >= 0
  BY <1>2, MaxOfTwo
<1>4. Max({left, 0}) \in 0..requestPipeline[f]
  BY <1>1, <1>2, <1>3
<1> QED BY <1>4 DEF left, StillRequested

\* HandleMapMsg.
LEMMA HandleMapMsgStep ==
  ASSUME UpstreamInv, HandleMapMsg
  PROVE  UpstreamInv'
<1> DEFINE layout == Arg
<1>1. /\ Due("HandleMapMsg")
      /\ requestPipeline' = [f \in Flows |-> StillRequested(f, layout)]
      /\ grantPipeline' = [f \in Flows |-> grantPipeline[f] \o Pipelined(layout[f])]
      /\ UNCHANGED <<queues, transmitPipeline, mapState, shaper, backlog, usedInMap>>
  BY DEF HandleMapMsg
<1>2. PICK offset \in [Flows -> RequestOffsets] :
        agenda' = ScheduleAll(Rest,
                    InFlowOrder([f \in Flows |-> FlowEvents(f, layout, offset[f])]))
  BY DEF HandleMapMsg
<1>3. /\ Agrees(agenda, grantPipeline) /\ agenda # <<>>
      /\ Head(agenda).event = "HandleMapMsg" /\ Head(agenda).in = 0
      /\ DOMAIN grantPipeline = Flows
  BY <1>1, FrontFacts DEF UpstreamInv, PerFlow
<1>4. layout \in Layouts /\ Agrees(agenda', grantPipeline')
  <2> DEFINE made == [f \in Flows |-> FlowEvents(f, Head(agenda).arg, offset[f])]
             both == [f \in Flows |-> grantPipeline[f] \o Pipelined(Head(agenda).arg[f])]
  <2>1. /\ Head(agenda).arg \in Layouts
        /\ Agrees(ScheduleAll(Tail(agenda), InFlowOrder(made)), both)
    BY <1>3, MapHandledAgrees
  <2>2. agenda' = ScheduleAll(Tail(agenda), InFlowOrder(made)) /\ grantPipeline' = both
    BY <1>1, <1>2 DEF Rest, Arg
  <2> HIDE DEF made, both
  <2> QED BY <2>1, <2>2 DEF Arg
<1> HIDE DEF layout
<1>5. QueuesInv'
  <2>1. aqm' = aqm /\ device' = device /\ frag' = frag
    BY <1>1 DEF queues
  <2>2. QueuesTyped /\ HeldInv /\ PerFlow
    BY DEF UpstreamInv
  <2>3. QueuesTyped' /\ HeldInv'
    BY <1>1, <2>1, <2>2, HeldSame, QueuesSame
  <2>4. DOMAIN grantPipeline' = Flows
    BY <1>1
  <2> QED BY <1>1, <2>1, <2>2, <2>3, <2>4 DEF PerFlow, QueuesInv
<1>6. CountersTyped'
  <2>1. CountersTyped
    BY DEF UpstreamInv
  <2>2. ASSUME NEW f \in Flows PROVE StillRequested(f, layout) \in Nat
    <3>1. StillRequested(f, layout) \in 0..requestPipeline[f] /\ requestPipeline[f] \in Nat
      BY <1>4, <2>1, StillRequestedFacts DEF CountersTyped
    <3> QED BY <3>1
  <2>3. requestPipeline' \in [Flows -> Nat]
    BY <1>1, <2>2
  <2> QED BY <1>1, <2>1, <2>3 DEF CountersTyped, EffectiveBurst, shaper
<1> QED BY <1>4, <1>5, <1>6 DEF UpstreamInv, QueuesInv, AgendaInv

\* LoadMapState and DumpGrant.
LEMMA MapStateStep ==
  ASSUME UpstreamInv, NEW f \in Flows, LoadMapState(f) \/ DumpGrant(f)
  PROVE  UpstreamInv'
<1>1. /\ Due("LoadMapState") \/ Due("DumpGrant")
      /\ agenda' = Rest /\ UNCHANGED <<queues, pipelines, shaper, backlog>>
  BY DEF LoadMapState, DumpGrant, DueFor
<1>2. Agrees(Rest, grantPipeline)
  BY <1>1, FrontFacts
<1>3. /\ requestPipeline' = requestPipeline /\ grantPipeline' = grantPipeline
      /\ transmitPipeline' = transmitPipeline
  BY <1>1 DEF pipelines
<1>4. AgendaInv'
  BY <1>1, <1>2, <1>3 DEF AgendaInv
<1>5. CountersTyped'
  <2>1. CountersTyped
    BY DEF UpstreamInv
  <2>2. mapState' \in [Flows -> [granted : Nat, unused : Nat]] /\ usedInMap' \in [Flows -> Nat]
    <3>1. CASE LoadMapState(f)
      <4>1. Due("LoadMapState")
        BY <3>1 DEF LoadMapState, DueFor
      <4>2. Head(agenda) \in LoadsDue
        BY <4>1, FrontFacts, EventFacts
      <4>3. Arg.n \in Nat
        BY <4>2 DEF LoadsDue, EventsOf, FlowArgs, Arg
      <4> QED BY <2>1, <3>1, <4>3 DEF LoadMapState, CountersTyped
    <3>2. CASE DumpGrant(f)
      BY <2>1, <3>2 DEF DumpGrant, CountersTyped
    <3> QED BY <3>1, <3>2
  <2> QED BY <1>1, <1>3, <2>1, <2>2 DEF CountersTyped, EffectiveBurst, shaper
<1> QED BY <1>1, <1>3, <1>4, <1>5, QueuesInvSame DEF UpstreamInv, QueuesInv

\* SendFrom.
LEMMA SendFromStep ==
  ASSUME UpstreamInv, NEW f \in Flows, NEW size \in Sizes, SendFrom(f, size)
  PROVE  UpstreamInv'
<1>1. /\ Unsent(f) + size <= MaxUnsent /\ aqm' = [aqm EXCEPT ![f] = Append(@, size)]
      /\ UNCHANGED <<device, frag, pipelines, mapState, shaper, backlog, agenda, usedInMap>>
  BY DEF SendFrom
<1>2. /\ requestPipeline' = requestPipeline /\ grantPipeline' = grantPipeline
      /\ transmitPipeline' = transmitPipeline
  BY <1>1 DEF pipelines
<1>3. AgendaInv' /\ CountersTyped'
  BY <1>1, <1>2 DEF AgendaInv, UpstreamInv, CountersTyped, EffectiveBurst, shaper
<1>4. size \in Nat \ {0} /\ QueuesTyped /\ HeldInv /\ PerFlow
  BY TrafficAssumption DEF UpstreamInv
<1>5. ASSUME NEW g \in Flows
      PROVE  /\ aqm'[g] \in Seq(Nat \ {0})
             /\ SumSeq(aqm'[g]) = SumSeq(aqm[g]) + (IF g = f THEN size ELSE 0)
  <2>1. aqm[g] \in Seq(Nat \ {0}) /\ aqm[g] \in Seq(Nat) /\ SumSeq(aqm[g]) \in Nat
    BY <1>4, SizesFacts DEF QueuesTyped
  <2>2. CASE g = f
    <3>1. aqm'[g] = Append(aqm[g], size)
      BY <1>1, <1>4, <2>2 DEF PerFlow
    <3>2. SumSeq(Append(aqm[g], size)) = SumSeq(aqm[g]) + size
      BY <1>4, <2>1, SumAppend
    <3> QED BY <1>4, <2>1, <2>2, <3>1, <3>2, AppendProperties
  <2>3. CASE g # f
    <3>1. aqm'[g] = aqm[g]
      BY <1>1, <1>4, <2>3 DEF PerFlow
    <3> QED BY <2>1, <2>3, <3>1
  <2> QED BY <2>2, <2>3
<1>6. QueuesTyped'
  BY <1>1, <1>2, <1>4, <1>5 DEF QueuesTyped
<1>7. HeldInv'
  <2> SUFFICES ASSUME NEW g \in Flows
               PROVE  TotalOf(transmitPipeline'[g]) <= DeviceBytes(g)' /\ Unsent(g)' <= MaxUnsent
    BY DEF HeldInv
  <2>1. DeviceBytes(g)' = DeviceBytes(g)
    BY <1>1 DEF DeviceBytes
  <2>2. Unsent(g)' = Unsent(g) + (IF g = f THEN size ELSE 0)
    <3>1. AqmBytes(g)' = AqmBytes(g) + (IF g = f THEN size ELSE 0)
      BY <1>5 DEF AqmBytes
    <3>2. Unsent(g)' = AqmBytes(g)' + DeviceBytes(g)' /\ Unsent(g) = AqmBytes(g) + DeviceBytes(g)
      BY DEF Unsent
    <3>3. AqmBytes(g) \in Nat /\ DeviceBytes(g) \in Nat
      BY <1>4, BytesFacts
    <3> QED BY <1>4, <2>1, <3>1, <3>2, <3>3
  <2>3. Unsent(g) <= MaxUnsent /\ TotalOf(transmitPipeline[g]) <= DeviceBytes(g)
          /\ Unsent(g) \in Nat
    BY <1>4, BytesFacts DEF HeldInv
  <2> QED BY <1>1, <1>2, <1>4, <2>1, <2>2, <2>3, ConstantFacts
<1>8. PerFlow'
  BY <1>1, <1>2, <1>4 DEF PerFlow
<1> QED BY <1>3, <1>6, <1>7, <1>8 DEF UpstreamInv

\* What a pipeline holds does not depend on the time.
LEMMA AgedTotal ==
  ASSUME NEW pipe \in Seq(Grants), NEW ticks \in Nat
  PROVE  TotalOf(Aged(pipe, ticks)) = TotalOf(pipe)
<1> DEFINE aged == Aged(pipe, ticks)
<1>1. /\ aged \in Seq(Grants) /\ Len(aged) = Len(pipe)
      /\ \A i \in 1 .. Len(pipe) : aged[i].bytes = pipe[i].bytes
  BY AgedFacts
<1> HIDE DEF aged
<1>2. ASSUME NEW i \in 1 .. Len(aged) PROVE GrantBytes[aged[i]] = GrantBytes[pipe[i]]
  <2>1. aged[i] \in Grants /\ pipe[i] \in Grants
    BY <1>1, ElementOfSeq
  <2> QED BY <1>1, <2>1, BytesAreWeights
<1>3. TotalWeight(aged, GrantBytes) = TotalWeight(pipe, GrantBytes)
  BY <1>1, <1>2, BytesAreWeights, WeightSame
<1> QED BY <1>1, <1>3, TotalFacts DEF aged

\* AdvanceTime.
LEMMA AdvanceTimeStep ==
  ASSUME UpstreamInv, AdvanceTime
  PROVE  UpstreamInv'
<1> DEFINE ticks == Head(agenda).in
<1>1. /\ agenda # <<>> /\ ticks > 0
      /\ agenda' = Later(agenda, ticks)
      /\ grantPipeline' = [f \in Flows |-> Later(grantPipeline[f], ticks)]
      /\ transmitPipeline' = [f \in Flows |-> Aged(transmitPipeline[f], ticks)]
      /\ sinceUpdate' = Min({sinceUpdate + ticks, FullAfter})
      /\ UNCHANGED <<queues, requestPipeline, mapState, msrTokens, backlog, usedInMap>>
  BY DEF AdvanceTime
<1>2. Agrees(agenda, grantPipeline) /\ QueuesTyped /\ CountersTyped /\ HeldInv /\ PerFlow
  BY DEF UpstreamInv, AgendaInv
<1>3. ticks \in Nat /\ Agrees(agenda', grantPipeline')
  BY <1>1, <1>2, LaterAgrees
<1> HIDE DEF ticks
<1>4. AgendaInv'
  BY <1>3 DEF AgendaInv
<1>5. CountersTyped'
  <2>1. sinceUpdate + ticks \in Nat
    BY <1>2, <1>3 DEF CountersTyped
  <2>2. sinceUpdate' \in Nat
    BY <1>1, <2>1, FullAfterFacts
  <2> QED BY <1>1, <1>2, <2>2 DEF CountersTyped, EffectiveBurst
<1>6. ASSUME NEW f \in Flows
      PROVE  /\ transmitPipeline'[f] \in Seq(Grants)
             /\ TotalOf(transmitPipeline'[f]) = TotalOf(transmitPipeline[f])
  <2>1. transmitPipeline[f] \in Seq(Grants)
    BY <1>2 DEF QueuesTyped
  <2>2. transmitPipeline'[f] = Aged(transmitPipeline[f], ticks)
    BY <1>1
  <2> QED BY <1>3, <2>1, <2>2, AgedFacts, AgedTotal
<1>7. aqm' = aqm /\ device' = device /\ frag' = frag
  BY <1>1 DEF queues
<1>8. QueuesTyped'
  BY <1>2, <1>6, <1>7 DEF QueuesTyped
<1>9. HeldInv'
  BY <1>2, <1>6, <1>7 DEF HeldInv, Unsent, AqmBytes, DeviceBytes
<1>10. PerFlow'
  BY <1>1, <1>2, <1>7 DEF PerFlow
<1> QED BY <1>4, <1>5, <1>8, <1>9, <1>10 DEF UpstreamInv

\* How many packets move to the staging queue.
LEMMA StagedCount ==
  ASSUME QueuesTyped, NEW f \in Flows, NEW bytes
  PROVE  PacketsToStage(f, bytes) \in 0 .. Len(aqm[f])
<1> DEFINE n == Len(aqm[f])
           S == {k \in 0..n : bytes <= Unscheduled(f, k) \/ k = n}
<1>1. n \in Nat
  BY SizesFacts DEF QueuesTyped
<1>2. n \in S
  BY <1>1
<1>3. S \in SUBSET Nat /\ S # {} /\ S \subseteq 0..n
  BY <1>1, <1>2
<1> HIDE DEF S
<1>4. Min(S) \in S
  BY <1>3, MinOfNumbers
<1> QED BY <1>3, <1>4 DEF PacketsToStage, S, n

\* Preparing a burst promises bytes to a frame, at most those of its grant,
\* and only bytes that are in the device by then.
LEMMA StageFacts ==
  ASSUME QueuesTyped, HeldInv, PerFlow, NEW f \in Flows, NEW bytes \in Nat,
         PrepareBurstFrom(f, bytes), frag' = frag
  PROVE  /\ QueuesTyped' /\ HeldInv' /\ PerFlow'
         /\ \A g \in Flows : Unsent(g)' = Unsent(g)
         /\ \A g \in Flows : g # f => transmitPipeline'[g] = transmitPipeline[g]
         /\ \E m \in 0..bytes :
              TotalOf(transmitPipeline'[f]) = TotalOf(transmitPipeline[f]) + m
<1> DEFINE moved == PacketsToStage(f, bytes)
           front == SubSeq(aqm[f], 1, moved)
           behind == SubSeq(aqm[f], moved + 1, Len(aqm[f]))
           free == Unscheduled(f, moved)
           burst == Min({bytes, free})
           pipe == transmitPipeline[f]
           new == [bytes |-> burst, in |-> PrepTicks]
<1>1. /\ aqm' = [aqm EXCEPT ![f] = behind]
      /\ device' = [device EXCEPT ![f] = @ \o front]
      /\ grantPipeline' = [grantPipeline EXCEPT ![f] = Tail(@)]
      /\ transmitPipeline' = IF burst > 0
                             THEN [transmitPipeline EXCEPT ![f] = Append(@, new)]
                             ELSE transmitPipeline
  BY DEF PrepareBurstFrom, PerFlow
<1>2. /\ aqm[f] \in Seq(Nat \ {0}) /\ device[f] \in Seq(Nat \ {0}) /\ pipe \in Seq(Grants)
      /\ moved \in 0 .. Len(aqm[f])
  BY StagedCount DEF QueuesTyped
<1> HIDE DEF moved
<1>3. /\ front \in Seq(Nat \ {0}) /\ behind \in Seq(Nat \ {0})
      /\ SumSeq(front) \in Nat /\ SumSeq(behind) \in Nat
      /\ SumSeq(aqm[f]) = SumSeq(front) + SumSeq(behind)
  BY <1>2, CutFacts
<1>4. free = DeviceBytes(f) + SumSeq(front) - TotalOf(pipe)
  BY DEF Unscheduled
<1> HIDE DEF front, behind
<1>5. device[f] \o front \in Seq(Nat \ {0})
        /\ SumSeq(device[f] \o front) = SumSeq(device[f]) + SumSeq(front)
  BY <1>2, <1>3, SizesFacts, SumConcat, ConcatProperties
<1>6. TotalOf(pipe) \in Nat /\ DeviceBytes(f) \in Nat /\ TotalOf(pipe) <= DeviceBytes(f)
  BY <1>2, BytesFacts, TotalFacts DEF HeldInv
<1>7. free \in Int
  BY <1>3, <1>4, <1>6
<1> HIDE DEF free
<1>8. burst \in {bytes, free} /\ burst <= bytes /\ burst <= free
  BY <1>7, MinOfTwo
<1> HIDE DEF burst, pipe
<1>9. \E m \in 0..bytes :
        /\ m <= free
        /\ transmitPipeline'[f] \in Seq(Grants)
        /\ TotalOf(transmitPipeline'[f]) = TotalOf(pipe) + m
  <2>1. CASE burst > 0
    <3>1. new \in Grants /\ new.bytes = burst /\ burst \in 0..bytes /\ burst \in Nat
      BY <1>7, <1>8, <2>1, ConstantFacts DEF Grants
    <3> HIDE DEF new
    <3>2. transmitPipeline'[f] = Append(pipe, new)
      BY <1>1, <2>1 DEF PerFlow, pipe
    <3>3. Append(pipe, new) \in Seq(Grants)
      BY <1>2, <3>1, AppendProperties
    <3>4. TotalWeight(Append(pipe, new), GrantBytes) = TotalWeight(pipe, GrantBytes) + GrantBytes[new]
      BY <1>2, <3>1, BytesAreWeights, WeightAppend
    <3>5. GrantBytes[new] = burst
      BY <3>1, BytesAreWeights
    <3>6. TotalOf(Append(pipe, new)) = TotalOf(pipe) + burst
      BY <1>2, <3>3, <3>4, <3>5, TotalFacts
    <3> QED BY <1>8, <3>1, <3>2, <3>3, <3>6
  <2>2. CASE ~ (burst > 0)
    <3>1. transmitPipeline'[f] = pipe /\ TotalOf(pipe) + 0 = TotalOf(pipe)
      BY <1>1, <1>6, <2>2 DEF pipe
    <3>2. 0 \in 0..bytes /\ 0 <= free
      BY <1>3, <1>4, <1>6
    <3> QED BY <1>2, <3>1, <3>2
  <2> QED BY <2>1, <2>2
<1>10. ASSUME NEW g \in Flows, g # f
       PROVE  /\ transmitPipeline'[g] = transmitPipeline[g] /\ aqm'[g] = aqm[g]
              /\ device'[g] = device[g]
  BY <1>1, <1>10 DEF PerFlow
<1>11. aqm'[f] = behind /\ device'[f] = device[f] \o front
  BY <1>1 DEF PerFlow
<1>12. QueuesTyped'
  <2> SUFFICES ASSUME NEW g \in Flows
               PROVE  /\ aqm'[g] \in Seq(Nat \ {0}) /\ device'[g] \in Seq(Nat \ {0})
                      /\ transmitPipeline'[g] \in Seq(Grants)
    BY DEF QueuesTyped
  <2>1. CASE g = f
    BY <1>3, <1>5, <1>9, <1>11, <2>1
  <2>2. CASE g # f
    BY <1>10, <2>2 DEF QueuesTyped
  <2> QED BY <2>1, <2>2
<1>13. /\ DeviceBytes(f)' = DeviceBytes(f) + SumSeq(front) /\ Unsent(f)' = Unsent(f)
  <2>1. DeviceBytes(f)' = SumSeq(device'[f]) + frag[f].size - frag[f].sent
    BY DEF DeviceBytes
  <2>2. DeviceBytes(f) = SumSeq(device[f]) + frag[f].size - frag[f].sent
    BY DEF DeviceBytes
  <2>3. /\ SumSeq(device[f]) \in Nat /\ frag[f].size \in Nat /\ frag[f].sent \in Nat
    BY BytesFacts DEF QueuesTyped
  <2>4. SumSeq(device'[f]) = SumSeq(device[f]) + SumSeq(front)
    BY <1>5, <1>11
  <2>5. DeviceBytes(f)' = DeviceBytes(f) + SumSeq(front)
    BY <1>3, <2>1, <2>2, <2>3, <2>4
  <2>6. Unsent(f)' = SumSeq(behind) + DeviceBytes(f)'
    BY <1>11 DEF Unsent, AqmBytes
  <2>7. Unsent(f) = SumSeq(aqm[f]) + DeviceBytes(f)
    BY DEF Unsent, AqmBytes
  <2> QED BY <1>3, <1>6, <2>5, <2>6, <2>7
<1>14. ASSUME NEW g \in Flows, g # f
       PROVE  DeviceBytes(g)' = DeviceBytes(g) /\ Unsent(g)' = Unsent(g)
  BY <1>10, <1>14 DEF DeviceBytes, Unsent, AqmBytes
<1>15. HeldInv'
  <2> SUFFICES ASSUME NEW g \in Flows
               PROVE  TotalOf(transmitPipeline'[g]) <= DeviceBytes(g)' /\ Unsent(g)' <= MaxUnsent
    BY DEF HeldInv
  <2>1. CASE g = f
    <3>1. PICK m \in 0..bytes : /\ m <= free
                                /\ TotalOf(transmitPipeline'[f]) = TotalOf(pipe) + m
      BY <1>9
    <3>2. TotalOf(transmitPipeline'[f]) <= DeviceBytes(f) + SumSeq(front)
      BY <1>3, <1>4, <1>6, <3>1 DEF free
    <3>3. Unsent(f) <= MaxUnsent
      BY DEF HeldInv
    <3> QED BY <1>13, <2>1, <3>2, <3>3
  <2>2. CASE g # f
    BY <1>10, <1>14, <2>2 DEF HeldInv
  <2> QED BY <2>1, <2>2
<1>16. PerFlow'
  BY <1>1 DEF PerFlow
<1>17. /\ \A g \in Flows : Unsent(g)' = Unsent(g)
       /\ \A g \in Flows : g # f => transmitPipeline'[g] = transmitPipeline[g]
       /\ \E m \in 0..bytes : TotalOf(transmitPipeline'[f]) = TotalOf(pipe) + m
  BY <1>9, <1>10, <1>13, <1>14
<1> QED BY <1>12, <1>15, <1>16, <1>17 DEF pipe

\* PrepareBurst.
LEMMA PrepareBurstStep ==
  ASSUME UpstreamInv, NEW f \in Flows, PrepareBurst(f)
  PROVE  UpstreamInv'
<1>1. /\ Due("PrepareBurst") /\ Arg.sfid = f /\ agenda' = Rest
      /\ UNCHANGED <<frag, requestPipeline, mapState, shaper, backlog, usedInMap>>
      /\ PrepareBurstFrom(f, MinislotsToBytes(Arg.n))
  BY DEF PrepareBurst, DueFor, Arg, PrepareBurstFromCQueue, PrepareBurstFromLQueue
<1>2. /\ agenda # <<>> /\ Agrees(agenda, grantPipeline) /\ Head(agenda) \in BurstsDue
  BY <1>1, FrontFacts, EventFacts
<1>3. Head(agenda) \in BurstsOf(f) /\ MinislotsToBytes(Arg.n) \in Nat
  <2>1. Arg.n \in 1..MinislotsPerMap
    BY <1>2 DEF BurstsDue, EventsOf, FlowArgs, Arg
  <2> QED BY <1>1, <1>2, <2>1, MinislotFacts DEF BurstsOf, Arg
<1>4. QueuesTyped /\ HeldInv /\ PerFlow /\ CountersTyped
  BY DEF UpstreamInv
<1>5. QueuesTyped' /\ HeldInv' /\ PerFlow'
  BY <1>1, <1>3, <1>4, StageFacts
<1>6. AgendaInv'
  <2>1. Agrees(Tail(agenda), [grantPipeline EXCEPT ![f] = Tail(@)])
    BY <1>2, <1>3, <1>4, BurstAgrees DEF PerFlow
  <2>2. grantPipeline' = [grantPipeline EXCEPT ![f] = Tail(@)]
    BY <1>1 DEF PrepareBurstFrom
  <2> QED BY <1>1, <2>1, <2>2 DEF AgendaInv, Rest
<1>7. CountersTyped'
  BY <1>1, <1>4 DEF CountersTyped, EffectiveBurst, shaper
<1> QED BY <1>5, <1>6, <1>7 DEF UpstreamInv

\* What a frame sends: as many bytes as are promised to it and fit in it, which
\* leave the device.
LEMMA TransmitFacts ==
  ASSUME UpstreamInv, NEW f \in Flows, NEW allocated \in Nat,
         SendFrameFrom(f, allocated), aqm' = aqm, grantPipeline' = grantPipeline
  PROVE  /\ QueuesTyped' /\ HeldInv' /\ PerFlow'
         /\ mapState' \in [Flows -> [granted : Nat, unused : Nat]]
         /\ usedInMap' \in [Flows -> Nat]
         /\ \A g \in Flows : g # f => /\ Unsent(g)' = Unsent(g)
                                      /\ transmitPipeline'[g] = transmitPipeline[g]
         /\ \E m \in 0 .. TotalOf(transmitPipeline[f]) :
              /\ Unsent(f)' = Unsent(f) - m
              /\ TotalOf(transmitPipeline'[f]) = TotalOf(transmitPipeline[f]) - m
<1> DEFINE pipe == transmitPipeline[f]
           ready == GetEligible(pipe)
           toSend == Min({allocated, ready})
           used == Min({toSend, DeviceBytes(f)})
<1>1. /\ ContinueFragment(f, toSend) \/ SendOutPackets(f, toSend)
      /\ transmitPipeline' = [transmitPipeline EXCEPT ![f] = RemoveBytes(@, used)]
      /\ mapState' = [mapState EXCEPT ![f].unused = @ + Unused(allocated, toSend, used)]
      /\ usedInMap' = [usedInMap EXCEPT ![f] = @ + used]
  BY DEF SendFrameFrom, SendOutFromCQueue, SendOutFromLQueue
<1>2. QueuesTyped /\ HeldInv /\ PerFlow /\ CountersTyped
  BY DEF UpstreamInv
<1>3. pipe \in Seq(Grants)
  BY <1>2 DEF QueuesTyped
<1>4. /\ ready \in Nat /\ TotalOf(pipe) \in Nat /\ ready <= TotalOf(pipe)
      /\ DeviceBytes(f) \in Nat /\ TotalOf(pipe) <= DeviceBytes(f)
  BY <1>2, <1>3, TotalFacts, BytesFacts DEF HeldInv
<1> HIDE DEF pipe, ready
<1>5. toSend \in Nat /\ toSend <= allocated /\ toSend <= TotalOf(pipe)
        /\ toSend <= DeviceBytes(f)
  <2>1. toSend \in {allocated, ready} /\ toSend <= allocated /\ toSend <= ready
    <3>1. allocated \in Int /\ ready \in Int
      BY <1>4
    <3> QED BY <3>1, MinOfTwo
  <2> HIDE DEF toSend
  <2> QED BY <1>4, <2>1
<1> HIDE DEF toSend
<1>6. used = toSend
  <2>1. used \in {toSend, DeviceBytes(f)} /\ used <= toSend /\ used <= DeviceBytes(f)
    <3>1. toSend \in Int /\ DeviceBytes(f) \in Int
      BY <1>4, <1>5
    <3> QED BY <3>1, MinOfTwo
  <2> HIDE DEF used
  <2> QED BY <1>4, <1>5, <2>1
<1> HIDE DEF used
<1>7. /\ transmitPipeline'[f] = RemoveBytes(pipe, toSend)
      /\ transmitPipeline'[f] \in Seq(Grants)
      /\ TotalOf(transmitPipeline'[f]) = TotalOf(pipe) - toSend
  <2>1. transmitPipeline'[f] = RemoveBytes(pipe, toSend)
    BY <1>1, <1>2, <1>6 DEF PerFlow, pipe
  <2>2. toSend \in 0 .. TotalOf(pipe)
    BY <1>4, <1>5
  <2> QED BY <1>3, <1>5, <2>1, <2>2, RemoveTyped, RemoveTotal
<1>8. ASSUME NEW g \in Flows, g # f PROVE transmitPipeline'[g] = transmitPipeline[g]
  BY <1>1, <1>2, <1>8 DEF PerFlow
<1>9. /\ SumSeq(device[f]) \in Nat /\ FragmentLeft(f) \in Nat
      /\ DeviceBytes(f) = SumSeq(device[f]) + FragmentLeft(f)
      /\ device[f] \in Seq(Nat \ {0})
      /\ frag[f] \in [size : Nat, sent : Nat] /\ frag[f].sent <= frag[f].size
      /\ FragmentLeft(f) = frag[f].size - frag[f].sent
  BY <1>2, BytesFacts DEF QueuesTyped, FragmentLeft
<1>10. /\ \A g \in Flows : g # f => device'[g] = device[g] /\ frag'[g] = frag[g]
       /\ DOMAIN device' = Flows /\ frag' \in [Flows -> [size : Nat, sent : Nat]]
       /\ device'[f] \in Seq(Nat \ {0})
       /\ frag'[f] \in [size : Nat, sent : Nat] /\ frag'[f].sent <= frag'[f].size
       /\ SumSeq(device'[f]) + (frag'[f].size - frag'[f].sent) = DeviceBytes(f) - toSend
  <2>1. CASE ContinueFragment(f, toSend)
    <3>1. /\ toSend < FragmentLeft(f) /\ device' = device
          /\ frag' = [frag EXCEPT ![f].sent = @ + toSend]
      BY <2>1 DEF ContinueFragment
    <3> DEFINE new == [frag[f] EXCEPT !.sent = @ + toSend]
    <3>2. /\ new \in [size : Nat, sent : Nat] /\ new.size = frag[f].size
          /\ new.sent = frag[f].sent + toSend
      <4> DEFINE part == frag[f]
      <4>1. part \in [size : Nat, sent : Nat] /\ toSend \in Nat
        BY <1>5, <1>9
      <4> HIDE DEF part
      <4>2. [part EXCEPT !.sent = @ + toSend] = [size |-> part.size, sent |-> part.sent + toSend]
        BY <4>1
      <4> QED BY <4>1, <4>2 DEF part
    <3>3. /\ frag'[f] = new /\ frag' \in [Flows -> [size : Nat, sent : Nat]]
          /\ \A g \in Flows : g # f => frag'[g] = frag[g]
      BY <1>2, <3>1, <3>2 DEF PerFlow
    <3> HIDE DEF new
    <3>4. new.sent <= new.size
      BY <1>5, <1>9, <3>1, <3>2
    <3>5. SumSeq(device[f]) + (new.size - new.sent) = DeviceBytes(f) - toSend
      BY <1>5, <1>9, <3>2
    <3> QED BY <1>2, <1>9, <3>1, <3>2, <3>3, <3>4, <3>5 DEF PerFlow
  <2>2. CASE SendOutPackets(f, toSend)
    <3> DEFINE d == device[f]
               left == toSend - FragmentLeft(f)
               whole == Max({k \in 0 .. Len(d) : SumSeq(SubSeq(d, 1, k)) <= left} \cup {0})
               over == left - SumSeq(SubSeq(d, 1, whole))
               split == over > 0 /\ whole < Len(d)
               rest == SubSeq(d, IF split THEN whole + 2 ELSE whole + 1, Len(d))
               new == IF split THEN [size |-> d[whole + 1], sent |-> over] ELSE NoFragment
    <3>1. /\ left >= 0
          /\ frag' = [frag EXCEPT ![f] = new]
          /\ device' = [device EXCEPT ![f] = rest]
      BY <1>2, <2>2 DEF SendOutPackets, PerFlow
    <3>2. left \in Nat /\ left <= SumSeq(d)
      BY <1>5, <1>9, <3>1
    <3>3. /\ rest \in Seq(Nat \ {0}) /\ new \in [size : Nat, sent : Nat]
          /\ new.sent <= new.size
          /\ SumSeq(rest) + (new.size - new.sent) = SumSeq(d) - left
      <4>1. d \in Seq(Nat \ {0})
        BY <1>9
      <4> HIDE DEF d, left
      <4> QED BY <3>2, <4>1, SentFacts
    <3>4. /\ frag'[f] = new /\ frag' \in [Flows -> [size : Nat, sent : Nat]]
          /\ \A g \in Flows : g # f => frag'[g] = frag[g]
      <4> HIDE DEF new, rest
      <4> QED BY <1>2, <3>1, <3>3 DEF PerFlow
    <3>5. /\ device'[f] = rest /\ DOMAIN device' = Flows
          /\ \A g \in Flows : g # f => device'[g] = device[g]
      <4> HIDE DEF new, rest
      <4> QED BY <1>2, <3>1 DEF PerFlow
    <3>6. SumSeq(d) - left = DeviceBytes(f) - toSend
      BY <1>5, <1>9
    <3> HIDE DEF new, rest, left
    <3> QED BY <3>3, <3>4, <3>5, <3>6
  <2> QED BY <1>1, <2>1, <2>2
<1>11. QueuesTyped'
  <2> SUFFICES ASSUME NEW g \in Flows
               PROVE  /\ device'[g] \in Seq(Nat \ {0})
                      /\ frag'[g] \in [size : Nat, sent : Nat] /\ frag'[g].sent <= frag'[g].size
                      /\ transmitPipeline'[g] \in Seq(Grants)
    BY <1>2 DEF QueuesTyped
  <2>1. CASE g = f
    BY <1>7, <1>10, <2>1
  <2>2. CASE g # f
    BY <1>2, <1>8, <1>10, <2>2 DEF QueuesTyped
  <2> QED BY <2>1, <2>2
<1>12. DeviceBytes(f)' = DeviceBytes(f) - toSend /\ Unsent(f)' = Unsent(f) - toSend
  <2>1. DeviceBytes(f)' = SumSeq(device'[f]) + frag'[f].size - frag'[f].sent
    BY DEF DeviceBytes
  <2>2. SumSeq(device'[f]) \in Nat /\ frag'[f].size \in Nat /\ frag'[f].sent \in Nat
    BY <1>10, SizesFacts
  <2>3. DeviceBytes(f)' = DeviceBytes(f) - toSend
    BY <1>10, <2>1, <2>2
  <2>4. Unsent(f)' = AqmBytes(f) + DeviceBytes(f)' /\ Unsent(f) = AqmBytes(f) + DeviceBytes(f)
    BY DEF Unsent, AqmBytes
  <2>5. AqmBytes(f) \in Nat
    BY <1>2, BytesFacts
  <2> QED BY <1>4, <1>5, <2>3, <2>4, <2>5
<1>13. ASSUME NEW g \in Flows, g # f
       PROVE  DeviceBytes(g)' = DeviceBytes(g) /\ Unsent(g)' = Unsent(g)
  BY <1>10, <1>13 DEF DeviceBytes, Unsent, AqmBytes
<1>14. HeldInv'
  <2> SUFFICES ASSUME NEW g \in Flows
               PROVE  TotalOf(transmitPipeline'[g]) <= DeviceBytes(g)' /\ Unsent(g)' <= MaxUnsent
    BY DEF HeldInv
  <2>1. CASE g = f
    <3>1. Unsent(f) <= MaxUnsent /\ Unsent(f) \in Nat
      BY <1>2, BytesFacts DEF HeldInv
    <3> QED BY <1>4, <1>5, <1>7, <1>12, <2>1, <3>1, ConstantFacts
  <2>2. CASE g # f
    BY <1>2, <1>8, <1>13, <2>2 DEF HeldInv
  <2> QED BY <2>1, <2>2
<1>15. PerFlow'
  BY <1>1, <1>2, <1>10 DEF PerFlow
<1>16. mapState' \in [Flows -> [granted : Nat, unused : Nat]] /\ usedInMap' \in [Flows -> Nat]
  <2>1. Unused(allocated, toSend, used) \in Nat
    BY <1>5, <1>6 DEF Unused
  <2> QED BY <1>1, <1>2, <1>5, <1>6, <2>1 DEF CountersTyped
<1>17. \E m \in 0 .. TotalOf(pipe) :
         Unsent(f)' = Unsent(f) - m /\ TotalOf(transmitPipeline'[f]) = TotalOf(pipe) - m
  <2>1. toSend \in 0 .. TotalOf(pipe)
    BY <1>4, <1>5
  <2> QED BY <1>7, <1>12, <2>1
<1> QED BY <1>8, <1>11, <1>13, <1>14, <1>15, <1>16, <1>17 DEF pipe

\* SendFrame.
LEMMA SendFrameStep ==
  ASSUME UpstreamInv, NEW f \in Flows, SendFrame(f)
  PROVE  UpstreamInv'
<1>1. /\ Due("SendFrame") /\ agenda' = Rest
      /\ UNCHANGED <<aqm, requestPipeline, grantPipeline, shaper, backlog>>
      /\ SendFrameFrom(f, MinislotsToBytes(Arg.n))
  BY DEF SendFrame, DueFor, SendFrameFromCQueue, SendFrameFromLQueue
<1>2. MinislotsToBytes(Arg.n) \in Nat
  <2>1. Head(agenda) \in FramesDue
    BY <1>1, FrontFacts, EventFacts
  <2>2. Arg.n \in Nat
    BY <2>1 DEF FramesDue, EventsOf, FlowArgs, Arg
  <2> QED BY <2>2, MinislotFacts
<1>3. /\ QueuesTyped' /\ HeldInv' /\ PerFlow'
      /\ mapState' \in [Flows -> [granted : Nat, unused : Nat]]
      /\ usedInMap' \in [Flows -> Nat]
  BY <1>1, <1>2, TransmitFacts
<1>4. AgendaInv'
  BY <1>1, FrontFacts DEF AgendaInv
<1>5. CountersTyped'
  BY <1>1, <1>3 DEF UpstreamInv, CountersTyped, EffectiveBurst, shaper
<1> QED BY <1>3, <1>4, <1>5 DEF UpstreamInv

\* Requests that are due are apart from every event.
LEMMA RequestsApart ==
  ASSUME NEW d, NEW e \in RequestsDue
  PROVE  e \in Events /\ e \notin BurstsDue /\ Apart(d, e) /\ Apart(e, d)
<1>1. e.event = "MakeRequest"
  BY DEF RequestsDue, EventsOf
<1> QED BY <1>1 DEF Events, BurstsDue, EventsOf, Apart, OfMap, ToCome

\* The requests of a flow until the first MAP can have one of its own.
LEMMA StartupFacts ==
  ASSUME NEW f \in Flows, NEW offset \in [1..StartupMaps -> RequestOffsets]
  PROVE  StartupRequests(f, offset) \in Seq(RequestsDue)
<1> DEFINE n == StartupMaps
           list == StartupRequests(f, offset)
           time(i) == (i - 1) * MapInterval + offset[i]
<1>1. n \in Nat /\ MapInterval \in Nat
  BY ConstantFacts, MapIntervalFacts
<1>2. list = [i \in 1..n |-> FlowEvent(time(i), "MakeRequest", f, 0)]
  BY DEF StartupRequests
<1>3. ASSUME NEW i \in 1..n
      PROVE  FlowEvent(time(i), "MakeRequest", f, 0) \in RequestsDue
  <2>1. offset[i] \in Nat
    <3>1. PICK k \in 0 .. FramesPerMap - 1 : offset[i] = k * FrameTicks
      BY DEF RequestOffsets
    <3> QED BY <3>1, MapIntervalFacts
  <2>2. i - 1 \in Nat
    BY <1>1
  <2>3. (i - 1) * MapInterval \in Nat
    BY <1>1, <2>2, ProductFacts
  <2>4. time(i) \in Nat
    BY <2>1, <2>3
  <2> HIDE DEF time
  <2> QED BY <2>4 DEF FlowEvent, Event, RequestsDue, EventsOf, FlowArgs
<1> HIDE DEF n, list, time
<1>4. list \in [1..n -> RequestsDue]
  BY <1>2, <1>3
<1> QED BY <1>1, <1>4, SeqDef DEF list

\* The startup requests of all flows.
LEMMA StartupList ==
  ASSUME NEW offset \in [Flows -> [1..StartupMaps -> RequestOffsets]]
  PROVE  LET events == InFlowOrder([f \in Flows |-> StartupRequests(f, offset[f])])
         IN  /\ events \in Seq(Events)
             /\ \A j \in 1 .. Len(events) : events[j] \in RequestsDue
<1> DEFINE made == [f \in Flows |-> StartupRequests(f, offset[f])]
           events == InFlowOrder(made)
<1>1. \A f \in Flows : made[f] \in Seq(RequestsDue)
  BY StartupFacts
<1> HIDE DEF made
<1>2. events \in Seq(RequestsDue)
  <2>1. CASE LOW_LATENCY_SFID \in Flows
    BY <1>1, <2>1, ConstantFacts, ConcatProperties DEF InFlowOrder
  <2>2. CASE LOW_LATENCY_SFID \notin Flows
    BY <1>1, <2>2, ConstantFacts, EmptySeq, ConcatProperties DEF InFlowOrder
  <2> QED BY <2>1, <2>2
<1> HIDE DEF events
<1>3. \A j \in 1 .. Len(events) : events[j] \in RequestsDue
  BY <1>2, ElementOfSeq
<1>4. events \in Seq(Events)
  <2>1. Len(events) \in Nat /\ events \in [1 .. Len(events) -> RequestsDue]
    BY <1>2, LenProperties
  <2>2. events \in [1 .. Len(events) -> Events]
    BY <1>3, <2>1, RequestsApart
  <2> QED BY <2>1, <2>2, SeqDef
<1> QED BY <1>3, <1>4 DEF events, made

\* The simulation starts with the startup requests and the first MAP to make.
LEMMA StartAgrees ==
  ASSUME NEW offset \in [Flows -> [1..StartupMaps -> RequestOffsets]]
  PROVE  Agrees(ScheduleAll(<<Event(FirstGenerateMap, "GenerateMap", 0)>>,
                  InFlowOrder([f \in Flows |-> StartupRequests(f, offset[f])])),
                ForAllFlows(<<>>))
<1> DEFINE first == Event(FirstGenerateMap, "GenerateMap", 0)
           list == <<first>>
           made == [f \in Flows |-> StartupRequests(f, offset[f])]
           events == InFlowOrder(made)
           pipes == ForAllFlows(<<>>)
           new == ScheduleAll(list, events)
<1>1. first \in Events /\ first.in \in Nat /\ first.event = "GenerateMap"
  BY MapIntervalFacts DEF Event, Events, MapsMade, EventsOf
<1> HIDE DEF first
<1>2. list \in Seq(Events) /\ Len(list) = 1 /\ \A i \in 1..1 : list[i] = first
  BY <1>1
<1>3. DOMAIN list = 1..1
  BY <1>2, LenProperties
<1> HIDE DEF list
<1>4. Agrees(list, pipes)
  <2>1. \A i, j \in 1..1 : i = j /\ list[i] = first
    BY <1>2
  <2>2. first.in <= first.in
    BY <1>1
  <2>3. Sorted(list) /\ Spaced(list)
    BY <1>2, <1>3, <2>1, <2>2 DEF Sorted, Spaced
  <2>4. ASSUME NEW f \in Flows PROVE pipes[f] \in Seq(Grants) /\ Aligned(pipes[f], list, f)
    <3>1. pipes[f] = <<>>
      BY DEF ForAllFlows
    <3>2. first \notin BurstsOf(f)
      BY <1>1 DEF BurstsOf, BurstsDue, EventsOf
    <3>3. \A i \in 1 .. Len(list) : list[i] \notin BurstsOf(f)
      BY <1>2, <3>2
    <3>4. Aligned(<<>>, list, f)
      BY <1>2, <3>3, AlignedNone
    <3> QED BY <3>1, <3>4, EmptySeq
  <2> HIDE DEF pipes
  <2> QED BY <1>2, <2>3, <2>4 DEF Agrees
<1>5. /\ events \in Seq(Events)
      /\ \A j \in 1 .. Len(events) : events[j] \in RequestsDue
  BY StartupList
<1> HIDE DEF made, events
<1>7. /\ Spaced(events)
      /\ \A j \in 1 .. Len(events) : events[j] \notin BurstsDue
      /\ \A i \in 1 .. Len(list), j \in 1 .. Len(events) :
           Apart(list[i], events[j]) /\ Apart(events[j], list[i])
  BY <1>5, RequestsApart DEF Spaced
<1>8. Timed(list) /\ Timed(events) /\ Sorted(list)
  BY <1>2, <1>4, <1>5, ListFacts DEF Agrees
<1>9. /\ new \in Seq(Events) /\ Sorted(new)
       /\ \E a, b : Merged(new, list, events, Len(events), a, b)
  BY <1>2, <1>5, <1>8, ScheduleAllMerges
<1>10. PICK a, b : Merged(new, list, events, Len(events), a, b)
  BY <1>9
<1> HIDE DEF new, pipes
<1>11. Agrees(new, pipes)
  BY <1>4, <1>5, <1>7, <1>9, <1>10, MergedAgrees
<1> QED BY <1>11 DEF new, list, events, made, pipes, first

\* The modem holds nothing at first.
LEMMA InitInv == Init => UpstreamInv
<1> SUFFICES ASSUME Init PROVE UpstreamInv
  OBVIOUS
<1>1. /\ aqm = ForAllFlows(<<>>) /\ device = ForAllFlows(<<>>)
      /\ frag = ForAllFlows(NoFragment) /\ requestPipeline = ForAllFlows(0)
      /\ grantPipeline = ForAllFlows(<<>>) /\ transmitPipeline = ForAllFlows(<<>>)
      /\ mapState = ForAllFlows([granted |-> 0, unused |-> 0])
      /\ msrTokens = MaxTrafficBurst /\ sinceUpdate = 0
      /\ backlog = ForAllFlows(0) /\ usedInMap = ForAllFlows(0)
  BY DEF Init
<1>2. PICK offset \in [Flows -> [1..StartupMaps -> RequestOffsets]] :
        agenda = ScheduleAll(<<Event(FirstGenerateMap, "GenerateMap", 0)>>,
                   InFlowOrder([f \in Flows |-> StartupRequests(f, offset[f])]))
  BY DEF Init
<1>3. AgendaInv
  BY <1>1, <1>2, StartAgrees DEF AgendaInv
<1>4. ASSUME NEW f \in Flows
      PROVE  /\ aqm[f] = <<>> /\ device[f] = <<>> /\ transmitPipeline[f] = <<>>
             /\ frag[f] = NoFragment
  BY <1>1 DEF ForAllFlows
<1>5. QueuesTyped
  <2>1. <<>> \in Seq(Nat \ {0}) /\ <<>> \in Seq(Grants)
    BY EmptySeq
  <2>2. NoFragment \in [size : Nat, sent : Nat] /\ NoFragment.sent <= NoFragment.size
    BY DEF NoFragment
  <2> QED BY <1>4, <2>1, <2>2 DEF QueuesTyped
<1>6. CountersTyped
  <2>1. [granted |-> 0, unused |-> 0] \in [granted : Nat, unused : Nat]
    OBVIOUS
  <2> QED BY <1>1, <2>1, ConstantFacts DEF CountersTyped, ForAllFlows
<1>7. HeldInv
  <2> SUFFICES ASSUME NEW f \in Flows
               PROVE  TotalOf(transmitPipeline[f]) <= DeviceBytes(f) /\ Unsent(f) <= MaxUnsent
    BY DEF HeldInv
  <2>1. SumSeq(aqm[f]) = 0 /\ SumSeq(device[f]) = 0
    BY <1>4, SumEmpty
  <2>2. frag[f].size = 0 /\ frag[f].sent = 0
    BY <1>4 DEF NoFragment
  <2>3. DeviceBytes(f) = 0 /\ Unsent(f) = 0
    BY <2>1, <2>2 DEF DeviceBytes, Unsent, AqmBytes
  <2>4. TotalOf(transmitPipeline[f]) = 0
    <3>1. <<>> \in Seq(Grants) /\ \A i \in 1 .. Len(<<>>) : GrantBytes[<<>>[i]] = 0
      OBVIOUS
    <3>2. TotalWeight(<<>>, GrantBytes) = 0
      BY <3>1, BytesAreWeights, WeightZero
    <3> QED BY <1>4, <3>1, <3>2, TotalFacts
  <2> QED BY <2>3, <2>4, ConstantFacts
<1>8. PerFlow
  <2>1. NoFragment \in [size : Nat, sent : Nat]
    BY DEF NoFragment
  <2> QED BY <1>1, <2>1 DEF PerFlow, ForAllFlows
<1> QED BY <1>3, <1>5, <1>6, <1>7, <1>8 DEF UpstreamInv

\* Every step keeps the invariant.
LEMMA StepInv == UpstreamInv /\ [Next]_vars => UpstreamInv'
<1> SUFFICES ASSUME UpstreamInv, [Next]_vars PROVE UpstreamInv'
  OBVIOUS
<1>1. CASE UNCHANGED vars
  BY <1>1 DEF UpstreamInv, AgendaInv, QueuesTyped, CountersTyped, HeldInv, PerFlow, vars,
              queues, pipelines, shaper, EffectiveBurst, Unsent, AqmBytes, DeviceBytes
<1>2. CASE AdvanceTime
  BY <1>2, AdvanceTimeStep
<1>3. ASSUME NEW layout \in Layouts, GenerateMap(layout) PROVE UpstreamInv'
  BY <1>3, GenerateMapStep
<1>4. CASE HandleMapMsg
  BY <1>4, HandleMapMsgStep
<1>5. ASSUME NEW f \in Flows, FlowStep(f) PROVE UpstreamInv'
  BY <1>5, MakeRequestStep, ReceiveRequestStep, PrepareBurstStep, MapStateStep, SendFrameStep
     DEF FlowStep
<1>6. ASSUME NEW f \in Flows, NEW size \in Sizes, SendFrom(f, size) PROVE UpstreamInv'
  BY <1>6, SendFromStep
<1> QED BY <1>1, <1>2, <1>3, <1>4, <1>5, <1>6 DEF Next, Simulate

\* The invariant holds throughout.
THEOREM UpstreamInvariant == Spec => []UpstreamInv
BY InitInv, StepInv, PTL DEF Spec

-----------------------------------------------------------------------------
(* What the invariant is for.                                              *)

\* Queues, pipelines and counters of the modem hold byte counts of their kind:
\* no subtraction of the code goes below zero, and the events are in the order
\* of their times.
THEOREM TypeCorrect == Spec => []TypeOK
<1>1. UpstreamInv => TypeOK
  <2> SUFFICES ASSUME UpstreamInv PROVE TypeOK
    OBVIOUS
  <2>1. QueuesTyped /\ CountersTyped /\ PerFlow /\ Agrees(agenda, grantPipeline)
    BY DEF UpstreamInv, AgendaInv
  <2>2. agenda \in Seq(Events) /\ Sorted(agenda) /\ \A f \in Flows : grantPipeline[f] \in Seq(Grants)
    BY <2>1 DEF Agrees
  <2>3. InTimeOrder(agenda)
    <3>1. Len(agenda) \in Nat /\ DOMAIN agenda = 1 .. Len(agenda)
            /\ \A i \in 1 .. Len(agenda) : agenda[i].in \in Nat
      BY <2>2, ListFacts
    <3>2. ASSUME NEW i \in 1 .. Len(agenda), i > 1
          PROVE  agenda[i - 1].in <= agenda[i].in
      <4>1. i - 1 \in 1 .. Len(agenda) /\ i - 1 <= i
        BY <3>1, <3>2
      <4> QED BY <2>2, <3>1, <4>1 DEF Sorted
    <3> QED BY <3>1, <3>2 DEF InTimeOrder
  <2> QED BY <2>1, <2>2, <2>3 DEF TypeOK, QueuesTyped, CountersTyped, PerFlow, Grants
<1> QED BY <1>1, UpstreamInvariant, PTL

\* The asserts of PrepareBurst hold: whenever a burst is prepared, the grant in
\* front of the pipeline is the one it is prepared for, of the same length and
\* for the same frame, however MAPs, requests and bursts interleave.
THEOREM PipelineStaysAligned == Spec => []PipelineAligned
<1>1. UpstreamInv => PipelineAligned
  <2> SUFFICES ASSUME UpstreamInv, NEW f \in Flows
               PROVE  /\ Len(grantPipeline[f]) = Cardinality(Bursts(f))
                      /\ \A i \in Bursts(f) :
                           grantPipeline[f][Cardinality({j \in Bursts(f) : j <= i})] =
                             [bytes |-> MinislotsToBytes(agenda[i].arg.n),
                              in |-> agenda[i].in + PrepTicks]
    BY DEF PipelineAligned
  <2> DEFINE pipe == grantPipeline[f]
             m == Len(pipe)
             n == Len(agenda)
             T == BurstsOf(f)
  <2>1. agenda \in Seq(Events) /\ Aligned(pipe, agenda, f)
    BY DEF UpstreamInv, AgendaInv, Agrees
  <2>2. PICK p : /\ Enumerates(p, m, agenda, T)
                 /\ \A k \in 1..m : pipe[k] = GrantOf(agenda[p[k]])
    BY <2>1 DEF Aligned
  <2>3. n \in Nat /\ DOMAIN agenda = 1..n /\ \A i \in 1..n : agenda[i] \in Events
    BY <2>1, ListFacts
  <2>4. \A i \in 1..n : agenda[i].event = "PrepareBurst" /\ agenda[i].arg.sfid = f
                          <=> agenda[i] \in T
    <3> SUFFICES ASSUME NEW i \in 1..n
                 PROVE  agenda[i].event = "PrepareBurst" /\ agenda[i].arg.sfid = f
                          <=> agenda[i] \in T
      OBVIOUS
    <3>1. agenda[i].event = "PrepareBurst" => agenda[i] \in BurstsDue
      BY <2>3, EventFacts
    <3>2. agenda[i] \in BurstsDue => agenda[i].event = "PrepareBurst"
      BY DEF BurstsDue, EventsOf
    <3> QED BY <3>1, <3>2 DEF BurstsOf
  <2>5. Bursts(f) = {i \in 1..n : agenda[i] \in T}
    BY <2>3, <2>4 DEF Bursts
  <2>6. /\ Cardinality({i \in 1..n : agenda[i] \in T}) = m
        /\ \A k \in 1..m : Cardinality({i \in 1..n : agenda[i] \in T /\ i <= p[k]}) = k
    BY <2>2, <2>3, EnumerateCounts
  <2> HIDE DEF pipe, m, n, T
  <2>7. ASSUME NEW i \in Bursts(f)
        PROVE  pipe[Cardinality({j \in Bursts(f) : j <= i})] = GrantOf(agenda[i])
    <3>1. i \in 1..n /\ agenda[i] \in T
      BY <2>5
    <3>2. PICK k \in 1..m : p[k] = i
      BY <2>2, <3>1 DEF Enumerates, n
    <3>3. {j \in Bursts(f) : j <= i} = {j \in 1..n : agenda[j] \in T /\ j <= p[k]}
      BY <2>5, <3>2
    <3>4. Cardinality({j \in Bursts(f) : j <= i}) = k
      BY <2>6, <3>3
    <3>5. pipe[k] = GrantOf(agenda[p[k]])
      BY <2>2
    <3> QED BY <3>2, <3>4, <3>5
  <2>8. m = Cardinality(Bursts(f))
    BY <2>5, <2>6
  <2> QED BY <2>7, <2>8 DEF pipe, m, GrantOf
<1> QED BY <1>1, UpstreamInvariant, PTL

\* The modem never asks for bytes that it does not hold, nor for those of the
\* grant it has in front: MakeRequest subtracts both, and no other step raises
\* what it has asked for.
THEOREM AskingIsCovered == Spec => AsksForWhatItHolds
<1> DEFINE Asks == \A f \in Flows :
                     requestPipeline'[f] > requestPipeline[f] =>
                       /\ DueFor("MakeRequest", f)
                       /\ requestPipeline'[f] + GrantInFront(f) <= Unsent(f)
<1>1. UpstreamInv /\ [Next]_vars => [Asks]_vars
  <2> SUFFICES ASSUME UpstreamInv, Next PROVE Asks
    OBVIOUS
  <2>1. CountersTyped
    BY DEF UpstreamInv
  <2>2. ASSUME requestPipeline' = requestPipeline PROVE Asks
    BY <2>1, <2>2 DEF CountersTyped
  <2>3. CASE HandleMapMsg
    <3>1. requestPipeline' = [f \in Flows |-> StillRequested(f, Arg)] /\ Due("HandleMapMsg")
      BY <2>3 DEF HandleMapMsg
    <3>2. Arg \in Layouts
      <4>1. Head(agenda) \in MapsSent
        BY <3>1, FrontFacts, EventFacts
      <4> QED BY <4>1 DEF MapsSent, EventsOf, Arg
    <3> SUFFICES ASSUME NEW f \in Flows PROVE ~ (requestPipeline'[f] > requestPipeline[f])
      OBVIOUS
    <3>3. requestPipeline'[f] = StillRequested(f, Arg)
      BY <3>1
    <3>4. StillRequested(f, Arg) \in 0..requestPipeline[f] /\ requestPipeline[f] \in Nat
      BY <2>1, <3>2, StillRequestedFacts DEF CountersTyped
    <3> QED BY <3>3, <3>4
  <2>4. ASSUME NEW f \in Flows, MakeRequest(f) PROVE Asks
    <3>1. DueFor("MakeRequest", f) /\ (NothingToRequest(f) \/ NewRequest(f) > 0)
      BY <2>4 DEF MakeRequest, MakeClassicRequest, MakeLowLatencyRequest
    <3>2. ASSUME NEW bytes \in Nat, bytes <= NewRequest(f), SendRequest(f, bytes), NewRequest(f) > 0
          PROVE  Asks
      <4>1. requestPipeline' = [requestPipeline EXCEPT ![f] = @ + bytes]
        BY <3>2 DEF SendRequest
      <4>2. /\ requestPipeline[f] \in Nat /\ NewRequest(f) \in Nat
            /\ requestPipeline[f] + NewRequest(f) + GrantInFront(f) = Unsent(f)
        BY <3>2, AskedBytes
      <4>3. GrantInFront(f) \in Nat
        BY RequestFacts DEF UpstreamInv, AgendaInv, Agrees
      <4> SUFFICES ASSUME NEW g \in Flows, requestPipeline'[g] > requestPipeline[g]
                   PROVE  /\ DueFor("MakeRequest", g)
                          /\ requestPipeline'[g] + GrantInFront(g) <= Unsent(g)
        OBVIOUS
      <4>4. g = f
        BY <2>1, <4>1 DEF CountersTyped
      <4>5. requestPipeline'[f] = requestPipeline[f] + bytes
        BY <2>1, <4>1 DEF CountersTyped
      <4> QED BY <3>1, <3>2, <4>2, <4>3, <4>4, <4>5
    <3>3. CASE NothingToRequest(f)
      BY <2>2, <3>3 DEF NothingToRequest
    <3>4. CASE f = CLASSIC_SFID /\ MakeClassicRequest
      <4>1. NewRequest(f) > 0 /\ NewRequest(f) \in Nat
        BY <3>4, AskedBytes DEF MakeClassicRequest
      <4>2. CASE SendRequest(CLASSIC_SFID, NewRequest(CLASSIC_SFID))
        BY <3>2, <3>4, <4>1, <4>2
      <4>3. CASE Rate # 0 /\ SendRequest(CLASSIC_SFID, ShapeRequest(NewRequest(CLASSIC_SFID))[1])
        <5> DEFINE shaped == ShapeRequest(NewRequest(f))
        <5>1. shaped[1] \in 0..NewRequest(f)
          BY <2>1, <4>1, <4>3, ShapedFacts
        <5>2. SendRequest(f, shaped[1])
          BY <3>4, <4>3
        <5> HIDE DEF shaped
        <5>3. shaped[1] \in Nat /\ shaped[1] <= NewRequest(f)
          BY <4>1, <5>1
        <5> QED BY <3>2, <4>1, <5>2, <5>3
      <4> QED BY <3>4, <4>2, <4>3 DEF MakeClassicRequest
    <3>5. CASE f = LOW_LATENCY_SFID /\ MakeLowLatencyRequest
      <4>1. NewRequest(f) > 0 /\ NewRequest(f) \in Nat
              /\ SendRequest(f, NewRequest(f))
        BY <3>5, AskedBytes DEF MakeLowLatencyRequest
      <4> QED BY <3>2, <4>1
    <3> QED BY <2>4, <3>3, <3>4, <3>5 DEF MakeRequest
  <2> HIDE DEF Asks
  <2>5. CASE AdvanceTime
    BY <2>2, <2>5 DEF AdvanceTime
  <2>6. ASSUME NEW layout \in Layouts, GenerateMap(layout) PROVE Asks
    BY <2>2, <2>6 DEF GenerateMap, pipelines
  <2>7. ASSUME NEW f \in Flows, FlowStep(f) PROVE Asks
    BY <2>2, <2>4, <2>7 DEF FlowStep, ReceiveRequest, PrepareBurst, LoadMapState, SendFrame,
                            DumpGrant, pipelines
  <2>8. ASSUME NEW f \in Flows, NEW size \in Sizes, SendFrom(f, size) PROVE Asks
    BY <2>2, <2>8 DEF SendFrom, pipelines
  <2> QED BY <2>3, <2>5, <2>6, <2>7, <2>8 DEF Next, Simulate
<1>2. AsksForWhatItHolds <=> [][Asks]_vars
  BY DEF AsksForWhatItHolds
<1> HIDE DEF Asks
<1> QED BY <1>1, <1>2, UpstreamInvariant, PTL DEF Spec

-----------------------------------------------------------------------------
(* The ledger: what GrantLoop promises of a flow, whatever its bytes are.   *)

Ledger(f) == Loop(f)!TypeOK /\ Loop(f)!NothingForgotten /\ Loop(f)!StagedIsHeld

\* Monus never goes below zero, and gives back at least what a - b leaves.
LEMMA MonusFacts ==
  ASSUME NEW f, NEW a \in Nat, NEW b \in Nat
  PROVE  /\ Loop(f)!Monus(a, b) \in Nat
         /\ Loop(f)!Monus(a, b) <= a
         /\ Loop(f)!Monus(a, b) + b >= a
BY DEF Loop!Monus

\* The bytes of one step are a number.
LEMMA AmountFacts ==
  /\ GrantedInAMap \in Nat
  /\ MaxUnsent + MaxBacklog + GrantedInAMap \in Nat
  /\ \A n \in 0 .. MaxUnsent + MaxBacklog + GrantedInAMap : n \in Nat
  /\ \A n \in 0 .. MaxUnsent : n \in 0 .. MaxUnsent + MaxBacklog + GrantedInAMap
  /\ \A n \in 0 .. GrantedInAMap : n \in 0 .. MaxUnsent + MaxBacklog + GrantedInAMap
<1>1. MinislotsPerMap \in Nat
  BY ConstantFacts, ProductFacts DEF MinislotsPerMap
<1>2. GrantedInAMap \in Nat
  BY <1>1, MinislotFacts DEF GrantedInAMap
<1> QED BY <1>2, ConstantFacts

\* A flow without packets owes and has nothing.
LEMMA LedgerInit ==
  ASSUME NEW f, Loop(f)!Init
  PROVE  Ledger(f)
BY DEF Ledger, Loop!Init, Loop!TypeOK, Loop!NothingForgotten, Loop!StagedIsHeld

\* Every step of the loop keeps the ledger.
LEMMA LedgerStep ==
  ASSUME NEW f \in Flows, Ledger(f), [Loop(f)!Next]_(Loop(f)!vars)
  PROVE  Ledger(f)'
<1> USE DEF Ledger, Loop!TypeOK
<1>1. CASE UNCHANGED Loop(f)!vars
  BY <1>1 DEF Loop!vars, Loop!NothingForgotten, Loop!StagedIsHeld
<1>2. CASE Loop(f)!Next
  <2>1. PICK n \in 0 .. MaxUnsent + MaxBacklog + GrantedInAMap :
          \/ Loop(f)!Arrive(n) \/ Loop(f)!Ask(n) \/ Loop(f)!Receive(n) \/ Loop(f)!Grant(n)
          \/ Loop(f)!Absorb(n) \/ (\E m \in 0..n : Loop(f)!Stage(n, m)) \/ Loop(f)!Transmit(n)
    BY <1>2 DEF Loop!Next
  <2>2. n \in Nat
    BY AmountFacts
  <2> HIDE DEF Ledger
  <2>3. CASE Loop(f)!Arrive(n)
    BY <2>2, <2>3 DEF Ledger, Loop!Arrive, Loop!NothingForgotten, Loop!StagedIsHeld
  <2>4. CASE Loop(f)!Ask(n)
    BY <2>2, <2>4 DEF Ledger, Loop!Ask, Loop!NothingForgotten, Loop!StagedIsHeld
  <2>5. CASE Loop(f)!Receive(n)
    BY <2>2, <2>5 DEF Ledger, Loop!Receive, Loop!NothingForgotten, Loop!StagedIsHeld
  <2>6. CASE Loop(f)!Grant(n)
    BY <2>2, <2>6, MonusFacts DEF Ledger, Loop!Grant, Loop!NothingForgotten, Loop!StagedIsHeld
  <2>7. CASE Loop(f)!Absorb(n)
    BY <2>2, <2>7 DEF Ledger, Loop!Absorb, Loop!Monus, Loop!NothingForgotten, Loop!StagedIsHeld
  <2>8. ASSUME NEW m \in 0..n, Loop(f)!Stage(n, m) PROVE Ledger(f)'
    BY <2>2, <2>8 DEF Ledger, Loop!Stage, Loop!NothingForgotten, Loop!StagedIsHeld
  <2>9. CASE Loop(f)!Transmit(n)
    BY <2>2, <2>9 DEF Ledger, Loop!Transmit, Loop!NothingForgotten, Loop!StagedIsHeld
  <2> QED BY <2>1, <2>3, <2>4, <2>5, <2>6, <2>7, <2>8, <2>9
<1> QED BY <1>1, <1>2

-----------------------------------------------------------------------------
(* Bytes on their way between the modem and the scheduler.                 *)

\* What an event carries of a flow's requests, and what of its grants.
RequestBytes(f) ==
  [e \in Events |->
     IF e.event = "ReceiveRequest" THEN IF e.arg.sfid = f THEN e.arg.n ELSE 0 ELSE 0]
MapBytes(f) ==
  [e \in Events |-> IF e.event = "HandleMapMsg" THEN GrantedBytes(e.arg[f]) ELSE 0]

\* The grants of a MAP fit in it.
LEMMA GrantedFacts ==
  ASSUME NEW layout \in Layouts, NEW f \in Flows
  PROVE  /\ GrantedBytes(layout[f]) \in 0..GrantedInAMap /\ GrantedBytes(layout[f]) \in Nat
         /\ GrantedBytes(layout[f]) = TotalOf(Pipelined(layout[f]))
<1> DEFINE grants == layout[f]
           lengths == [i \in DOMAIN grants |-> grants[i].length]
           pipe == Pipelined(grants)
           bytes == [i \in DOMAIN pipe |-> pipe[i].bytes]
           n == Len(grants)
           ends == [i \in 1..n |-> grants[i].offset + grants[i].length]
<1>1. Placed(grants)
  BY LayoutFacts
<1> HIDE DEF grants
<1>2. /\ n \in Nat /\ DOMAIN grants = 1..n /\ GrantedMinislots(grants) \in Nat
      /\ \A i \in 1..n : grants[i].offset \in Nat /\ grants[i].length \in Nat
  BY <1>1, GrantFacts
<1>3. /\ pipe \in Seq(Grants) /\ Len(pipe) = n
      /\ \A i \in 1..n : pipe[i] = [bytes |-> MinislotsToBytes(grants[i].length),
                                    in |-> GrantTime(grants[i])]
  BY <1>1, PipelinedFacts
<1>4. DOMAIN pipe = 1..n
  BY <1>3, LenProperties
<1> HIDE DEF n, pipe
<1>5. lengths \in Seq(Nat) /\ Len(lengths) = n /\ \A i \in 1..n : lengths[i] = grants[i].length
  <2>1. lengths \in [1..n -> Nat]
    BY <1>2
  <2> QED BY <2>1, <1>2, SeqDef, LenProperties
<1>6. \A i \in 1..n : bytes[i] = lengths[i] * Capacity /\ bytes[i] \in Nat
  <2> SUFFICES ASSUME NEW i \in 1..n PROVE bytes[i] = lengths[i] * Capacity /\ bytes[i] \in Nat
    OBVIOUS
  <2>1. bytes[i] = MinislotsToBytes(grants[i].length)
    BY <1>3, <1>4
  <2> QED BY <2>1, <1>2, <1>5, MinislotFacts DEF MinislotsToBytes
<1>7. bytes \in Seq(Nat) /\ Len(bytes) = n
  <2>1. bytes \in [1..n -> Nat]
    BY <1>4, <1>6
  <2> QED BY <2>1, <1>2, SeqDef, LenProperties
<1>8. GrantedMinislots(grants) = SumSeq(lengths) /\ TotalOf(pipe) = SumSeq(bytes)
  BY DEF GrantedMinislots, TotalOf
<1> HIDE DEF lengths, bytes
<1>9. SumSeq(bytes) = SumSeq(lengths) * Capacity
  <2>1. Capacity \in Nat
    BY ConstantFacts
  <2>2. \A k \in 1 .. Len(lengths) : bytes[k] = lengths[k] * Capacity
    BY <1>5, <1>6
  <2> QED BY <1>5, <1>7, <2>1, <2>2, SumScaled
<1>10. GrantedBytes(grants) = TotalOf(pipe)
  BY <1>8, <1>9 DEF GrantedBytes, MinislotsToBytes
<1>11. GrantedMinislots(grants) <= MinislotsPerMap /\ MinislotsPerMap \in Nat
  <2>1. MinislotsPerMap \in Nat
    BY ConstantFacts, ProductFacts DEF MinislotsPerMap
  <2>2. CASE n = 0
    <3>1. lengths = <<>>
      BY <1>5, <2>2, EmptySeq
    <3> QED BY <1>8, <2>1, <3>1, SumEmpty
  <2>3. CASE n > 0
    <3>1. \A i \in 1..n : ends[i] = grants[i].offset + grants[i].length
      OBVIOUS
    <3>2. \A i \in 1..n : ends[i] \in Nat /\ lengths[i] <= ends[i] /\ ends[i] <= MinislotsPerMap
      <4> SUFFICES ASSUME NEW i \in 1..n
                   PROVE  ends[i] \in Nat /\ lengths[i] <= ends[i] /\ ends[i] <= MinislotsPerMap
        OBVIOUS
      <4>1. grants[i].offset + grants[i].length <= MinislotsPerMap
        BY <1>1 DEF Placed, n
      <4>2. ends[i] = grants[i].offset + grants[i].length /\ lengths[i] = grants[i].length
        BY <1>5, <3>1
      <4>3. grants[i].offset \in Nat /\ grants[i].length \in Nat
        BY <1>2
      <4> HIDE DEF ends
      <4> QED BY <4>1, <4>2, <4>3
    <3>3. ASSUME NEW i \in 2..n PROVE ends[i - 1] + lengths[i] <= ends[i]
      <4>1. i - 1 \in 1..n /\ i \in 1..n /\ i - 1 < i
        BY <1>2
      <4>2. grants[i - 1].offset + grants[i - 1].length <= grants[i].offset
        BY <1>1, <4>1 DEF Placed, n
      <4>3. /\ grants[i - 1].offset \in Nat /\ grants[i - 1].length \in Nat
            /\ grants[i].offset \in Nat /\ grants[i].length \in Nat
        BY <1>2, <4>1
      <4>4. /\ ends[i - 1] = grants[i - 1].offset + grants[i - 1].length
            /\ ends[i] = grants[i].offset + grants[i].length /\ lengths[i] = grants[i].length
        BY <1>5, <3>1, <4>1
      <4> HIDE DEF ends
      <4> QED BY <4>2, <4>3, <4>4
    <3> HIDE DEF ends
    <3>4. SumSeq(lengths) <= ends[n]
      BY <1>5, <2>3, <3>2, <3>3, SumPlaced
    <3>5. n \in 1..n
      BY <1>2, <2>3
    <3>6. ends[n] <= MinislotsPerMap /\ ends[n] \in Nat
      BY <3>2, <3>5
    <3> QED BY <1>2, <1>8, <2>1, <3>4, <3>6
  <2> QED BY <1>2, <2>2, <2>3
<1>12. GrantedBytes(grants) <= GrantedInAMap /\ GrantedBytes(grants) \in Nat
  <2>1. GrantedMinislots(grants) * Capacity <= MinislotsPerMap * Capacity
    BY <1>2, <1>11, ConstantFacts, ProductFacts
  <2> QED BY <2>1, <1>2, MinislotFacts DEF GrantedBytes, GrantedInAMap, MinislotsToBytes
<1> QED BY <1>10, <1>12, AmountFacts DEF grants, pipe

\* What is on its way is what the events carry.
LEMMA CarriedFacts ==
  ASSUME NEW f \in Flows
  PROVE  /\ RequestBytes(f) \in [Events -> Nat] /\ MapBytes(f) \in [Events -> Nat]
         /\ \A e \in Events :
              /\ e.event # "ReceiveRequest" => RequestBytes(f)[e] = 0
              /\ e.event = "ReceiveRequest" =>
                   RequestBytes(f)[e] = IF e.arg.sfid = f THEN e.arg.n ELSE 0
              /\ e.event # "HandleMapMsg" => MapBytes(f)[e] = 0
              /\ e.event = "HandleMapMsg" =>
                   e.arg \in Layouts /\ MapBytes(f)[e] = GrantedBytes(e.arg[f])
<1>1. ASSUME NEW e \in Events, e.event = "ReceiveRequest" PROVE e.arg.n \in Nat
  <2>1. e \in RequestsSent
    BY <1>1, EventFacts
  <2>2. e.arg.n \in 0..MaxUnsent
    BY <2>1 DEF RequestsSent, EventsOf, FlowArgs
  <2> QED BY <2>2, ConstantFacts
<1>2. ASSUME NEW e \in Events, e.event = "HandleMapMsg"
      PROVE  e.arg \in Layouts /\ GrantedBytes(e.arg[f]) \in Nat
  <2>1. e \in MapsSent
    BY <1>2, EventFacts
  <2>2. e.arg \in Layouts
    BY <2>1 DEF MapsSent, EventsOf
  <2> QED BY <2>2, GrantedFacts
<1> QED BY <1>1, <1>2 DEF RequestBytes, MapBytes

\* What the events of a list carry adds up to its weight.
LEMMA PendingWeight ==
  ASSUME NEW f \in Flows, NEW list \in Seq(Events)
  PROVE  /\ SumSeq([i \in DOMAIN list |->
                      IF list[i].event = "ReceiveRequest"
                      THEN IF list[i].arg.sfid = f THEN list[i].arg.n ELSE 0 ELSE 0])
              = TotalWeight(list, RequestBytes(f))
         /\ SumSeq([i \in DOMAIN list |->
                      IF list[i].event = "HandleMapMsg" THEN GrantedBytes(list[i].arg[f]) ELSE 0])
              = TotalWeight(list, MapBytes(f))
         /\ TotalWeight(list, RequestBytes(f)) \in Nat /\ TotalWeight(list, MapBytes(f)) \in Nat
<1> DEFINE requests == [i \in DOMAIN list |->
                          IF list[i].event = "ReceiveRequest"
                          THEN IF list[i].arg.sfid = f THEN list[i].arg.n ELSE 0 ELSE 0]
           grants == [i \in DOMAIN list |->
                        IF list[i].event = "HandleMapMsg"
                        THEN GrantedBytes(list[i].arg[f]) ELSE 0]
<1>1. DOMAIN list = 1 .. Len(list) /\ \A i \in DOMAIN list : list[i] \in Events
  BY ListFacts
<1>2. requests = Weights(list, RequestBytes(f))
  BY <1>1 DEF Weights, RequestBytes
<1>3. grants = Weights(list, MapBytes(f))
  BY <1>1 DEF Weights, MapBytes
<1> HIDE DEF requests, grants
<1>4. RequestBytes(f) \in [Events -> Nat] /\ MapBytes(f) \in [Events -> Nat]
  BY CarriedFacts
<1>5. /\ SumSeq(requests) = TotalWeight(list, RequestBytes(f))
      /\ SumSeq(grants) = TotalWeight(list, MapBytes(f))
  BY <1>2, <1>3 DEF TotalWeight
<1>6. TotalWeight(list, RequestBytes(f)) \in Nat /\ TotalWeight(list, MapBytes(f)) \in Nat
  BY <1>4, WeightFacts
<1> QED BY <1>5, <1>6 DEF requests, grants

\* Requests and MAPs on their way are events of the list.
LEMMA OnItsWayNow ==
  ASSUME NEW f \in Flows, agenda \in Seq(Events)
  PROVE  /\ InFlight(f) = TotalWeight(agenda, RequestBytes(f))
         /\ Promised(f) = TotalWeight(agenda, MapBytes(f))
         /\ InFlight(f) \in Nat /\ Promised(f) \in Nat
BY PendingWeight DEF InFlight, Promised, PendingBytes

\* They are after a step, too.
LEMMA OnItsWay ==
  ASSUME NEW f \in Flows, agenda \in Seq(Events), agenda' \in Seq(Events)
  PROVE  /\ InFlight(f) = TotalWeight(agenda, RequestBytes(f))
         /\ InFlight(f)' = TotalWeight(agenda', RequestBytes(f))
         /\ Promised(f) = TotalWeight(agenda, MapBytes(f))
         /\ Promised(f)' = TotalWeight(agenda', MapBytes(f))
         /\ InFlight(f) \in Nat /\ Promised(f) \in Nat
<1>1. /\ InFlight(f)' = TotalWeight(agenda', RequestBytes(f))
      /\ Promised(f)' = TotalWeight(agenda', MapBytes(f))
  BY PendingWeight DEF InFlight, Promised, PendingBytes
<1> QED BY <1>1, OnItsWayNow

\* The event in front is taken from the list, and what it carries with it.
LEMMA CarriedRest ==
  ASSUME NEW list \in Seq(Events), list # <<>>, NEW f \in Flows
  PROVE  /\ Tail(list) \in Seq(Events) /\ Head(list) \in Events
         /\ TotalWeight(list, RequestBytes(f)) =
              RequestBytes(f)[Head(list)] + TotalWeight(Tail(list), RequestBytes(f))
         /\ TotalWeight(list, MapBytes(f)) =
              MapBytes(f)[Head(list)] + TotalWeight(Tail(list), MapBytes(f))
         /\ TotalWeight(Tail(list), RequestBytes(f)) \in Nat
         /\ TotalWeight(Tail(list), MapBytes(f)) \in Nat
<1>1. Tail(list) \in Seq(Events) /\ Head(list) \in Events
  BY HeadTailProperties
<1>2. RequestBytes(f) \in [Events -> Nat] /\ MapBytes(f) \in [Events -> Nat]
  BY CarriedFacts
<1>3. /\ TotalWeight(list, RequestBytes(f)) =
           RequestBytes(f)[Head(list)] + TotalWeight(Tail(list), RequestBytes(f))
      /\ TotalWeight(list, MapBytes(f)) = MapBytes(f)[Head(list)] + TotalWeight(Tail(list), MapBytes(f))
  BY <1>2, WeightTail
<1>4. /\ TotalWeight(Tail(list), RequestBytes(f)) \in Nat
      /\ TotalWeight(Tail(list), MapBytes(f)) \in Nat
  BY <1>1, <1>2, WeightFacts
<1> QED BY <1>1, <1>3, <1>4

\* The flow's part of the loop is where it was.
LEMMA LoopStutters ==
  ASSUME NEW f \in Flows, Unsent(f)' = Unsent(f),
         TotalOf(transmitPipeline[f])' = TotalOf(transmitPipeline[f]),
         requestPipeline[f]' = requestPipeline[f], backlog[f]' = backlog[f],
         InFlight(f)' = InFlight(f), Promised(f)' = Promised(f),
         TotalOf(grantPipeline[f])' = TotalOf(grantPipeline[f])
  PROVE  [Loop(f)!Next]_(Loop(f)!vars)
BY DEF Loop!vars

\* Queues that are as they were hold what they held.
LEMMA UnsentSame ==
  ASSUME NEW f \in Flows, queues' = queues
  PROVE  Unsent(f)' = Unsent(f)
BY DEF queues, Unsent, AqmBytes, DeviceBytes

\* The steps of the loop, of amounts that one step may move.
LEMMA LoopMoves ==
  ASSUME NEW f \in Flows, NEW n \in 0 .. MaxUnsent + MaxBacklog + GrantedInAMap, NEW m \in 0..n,
         \/ Loop(f)!Arrive(n) \/ Loop(f)!Ask(n) \/ Loop(f)!Receive(n) \/ Loop(f)!Grant(n)
         \/ Loop(f)!Absorb(n) \/ Loop(f)!Stage(n, m) \/ Loop(f)!Transmit(n)
  PROVE  [Loop(f)!Next]_(Loop(f)!vars)
BY DEF Loop!Next

\* The list is one of events, before and after a step.
LEMMA AgendaFacts ==
  ASSUME UpstreamInv, UpstreamInv'
  PROVE  agenda \in Seq(Events) /\ agenda' \in Seq(Events)
BY DEF UpstreamInv, AgendaInv, Agrees

\* An event that carries nothing is served.
LEMMA NothingCarried ==
  ASSUME UpstreamInv, UpstreamInv', NEW name, Due(name), agenda' = Rest,
         name \notin {"ReceiveRequest", "HandleMapMsg"}, NEW f \in Flows
  PROVE  InFlight(f)' = InFlight(f) /\ Promised(f)' = Promised(f)
<1>1. agenda \in Seq(Events) /\ agenda # <<>> /\ Head(agenda).event = name
  BY FrontFacts
<1>2. /\ TotalWeight(agenda, RequestBytes(f)) =
           RequestBytes(f)[Head(agenda)] + TotalWeight(Tail(agenda), RequestBytes(f))
      /\ TotalWeight(agenda, MapBytes(f)) =
           MapBytes(f)[Head(agenda)] + TotalWeight(Tail(agenda), MapBytes(f))
      /\ TotalWeight(Tail(agenda), RequestBytes(f)) \in Nat
      /\ TotalWeight(Tail(agenda), MapBytes(f)) \in Nat /\ Head(agenda) \in Events
  BY <1>1, CarriedRest
<1>3. RequestBytes(f)[Head(agenda)] = 0 /\ MapBytes(f)[Head(agenda)] = 0
  BY <1>1, <1>2, CarriedFacts
<1>4. agenda \in Seq(Events) /\ agenda' \in Seq(Events) /\ agenda' = Tail(agenda)
  BY AgendaFacts DEF Rest
<1>5. /\ InFlight(f) = TotalWeight(agenda, RequestBytes(f))
      /\ InFlight(f)' = TotalWeight(Tail(agenda), RequestBytes(f))
      /\ Promised(f) = TotalWeight(agenda, MapBytes(f))
      /\ Promised(f)' = TotalWeight(Tail(agenda), MapBytes(f))
  BY <1>4, OnItsWay
<1> QED BY <1>2, <1>3, <1>5

-----------------------------------------------------------------------------
(* Every step of the modem is one of the loop's, for each flow.            *)

\* SendFrom: bytes arrive.
LEMMA SendFromLoop ==
  ASSUME UpstreamInv, NEW f \in Flows, NEW size \in Sizes, SendFrom(f, size), NEW g \in Flows
  PROVE  [Loop(g)!Next]_(Loop(g)!vars)
<1>1. /\ UNCHANGED <<device, frag, pipelines, backlog, agenda>>
      /\ aqm' = [aqm EXCEPT ![f] = Append(@, size)] /\ Unsent(f) + size <= MaxUnsent
  BY DEF SendFrom
<1>2. QueuesTyped /\ DOMAIN aqm = Flows /\ size \in Nat /\ MaxUnsent \in Nat
  BY TrafficAssumption DEF UpstreamInv, PerFlow
<1>3. aqm[f] \in Seq(Nat)
  BY <1>2, SizesFacts DEF QueuesTyped
<1>4. CASE g = f
  <2>1. SumSeq(Append(aqm[f], size)) = SumSeq(aqm[f]) + size
    BY <1>2, <1>3, SumAppend
  <2>2. aqm'[f] = Append(aqm[f], size)
    BY <1>1, <1>2
  <2>3. AqmBytes(f)' = AqmBytes(f) + size /\ DeviceBytes(f)' = DeviceBytes(f)
    BY <1>1, <2>1, <2>2 DEF AqmBytes, DeviceBytes
  <2>4. AqmBytes(f) \in Nat /\ DeviceBytes(f) \in Nat /\ Unsent(f) \in Nat
    BY <1>2, BytesFacts
  <2>5. Unsent(f)' = Unsent(f) + size
    BY <1>2, <2>3, <2>4 DEF Unsent
  <2>6. size \in 0..MaxUnsent
    BY <1>1, <1>2, <2>4
  <2>7. Loop(f)!Arrive(size)
    BY <1>1, <2>5 DEF Loop!Arrive, pipelines, InFlight, Promised, PendingBytes
  <2> QED BY <1>4, <2>6, <2>7, AmountFacts, LoopMoves
<1>5. CASE g # f
  <2>1. aqm'[g] = aqm[g]
    BY <1>1, <1>2, <1>5
  <2>2. Unsent(g)' = Unsent(g)
    BY <1>1, <2>1 DEF Unsent, AqmBytes, DeviceBytes
  <2> QED BY <1>1, <2>2, LoopStutters DEF pipelines, InFlight, Promised, PendingBytes
<1> QED BY <1>4, <1>5

\* LoadMapState and DumpGrant: nothing moves.
LEMMA MapStateLoop ==
  ASSUME UpstreamInv, UpstreamInv', NEW f \in Flows, LoadMapState(f) \/ DumpGrant(f),
         NEW g \in Flows
  PROVE  [Loop(g)!Next]_(Loop(g)!vars)
<1>1. /\ Due("LoadMapState") \/ Due("DumpGrant")
      /\ agenda' = Rest /\ UNCHANGED <<queues, pipelines, backlog>>
  BY DEF LoadMapState, DumpGrant, DueFor
<1>2. InFlight(g)' = InFlight(g) /\ Promised(g)' = Promised(g)
  BY <1>1, NothingCarried
<1> QED BY <1>1, <1>2, UnsentSame, LoopStutters DEF pipelines

\* ReceiveRequest: a request's bytes join the backlog.
LEMMA ReceiveRequestLoop ==
  ASSUME UpstreamInv, UpstreamInv', NEW f \in Flows, ReceiveRequest(f), NEW g \in Flows
  PROVE  [Loop(g)!Next]_(Loop(g)!vars)
<1>1. /\ Due("ReceiveRequest") /\ Arg.sfid = f /\ agenda' = Rest
      /\ backlog' = [backlog EXCEPT ![f] = @ + Arg.n] /\ UNCHANGED <<queues, pipelines>>
  BY DEF ReceiveRequest, DueFor, Arg
<1>2. /\ agenda \in Seq(Events) /\ agenda # <<>> /\ Head(agenda) \in Events
      /\ Head(agenda).event = "ReceiveRequest"
  BY <1>1, FrontFacts
<1>3. Arg.n \in 0..MaxUnsent /\ Arg.n \in Nat
  <2>1. Head(agenda) \in RequestsSent
    BY <1>2, EventFacts
  <2>2. Arg.n \in 0..MaxUnsent
    BY <2>1 DEF RequestsSent, EventsOf, FlowArgs, Arg
  <2> QED BY <2>2, ConstantFacts
<1>4. /\ RequestBytes(g)[Head(agenda)] = IF f = g THEN Arg.n ELSE 0
      /\ MapBytes(g)[Head(agenda)] = 0
  BY <1>1, <1>2, CarriedFacts DEF Arg
<1>5. /\ InFlight(g) = RequestBytes(g)[Head(agenda)] + InFlight(g)'
      /\ Promised(g) = MapBytes(g)[Head(agenda)] + Promised(g)'
      /\ InFlight(g)' \in Nat /\ Promised(g)' \in Nat
  BY <1>1, <1>2, AgendaFacts, OnItsWay, CarriedRest DEF Rest
<1>6. Promised(g)' = Promised(g)
  BY <1>4, <1>5
<1>7. backlog \in [Flows -> Nat]
  BY DEF UpstreamInv, CountersTyped
<1>8. CASE g = f
  <2>1. InFlight(f) = Arg.n + InFlight(f)' /\ InFlight(f)' \in Nat
    BY <1>4, <1>5, <1>8
  <2>2. Arg.n <= InFlight(f) /\ InFlight(f)' = InFlight(f) - Arg.n
    BY <2>1, <1>3
  <2>3. backlog'[f] = backlog[f] + Arg.n
    BY <1>1, <1>7
  <2>4. Loop(f)!Receive(Arg.n)
    BY <1>1, <1>6, <1>8, <2>2, <2>3, UnsentSame DEF Loop!Receive, pipelines
  <2> QED BY <1>3, <1>8, <2>4, AmountFacts, LoopMoves
<1>9. CASE g # f
  <2>1. InFlight(g)' = InFlight(g)
    BY <1>4, <1>5, <1>9
  <2>2. backlog'[g] = backlog[g]
    BY <1>1, <1>7, <1>9
  <2> QED BY <1>1, <1>6, <2>1, <2>2, UnsentSame, LoopStutters DEF pipelines
<1> QED BY <1>8, <1>9

\* A request leaves the modem: its bytes are asked for and on their way.
LEMMA SendRequestLoop ==
  ASSUME UpstreamInv, UpstreamInv', NEW f \in Flows, Due("MakeRequest"),
         NEW bytes \in 0..MaxUnsent, SendRequest(f, bytes),
         requestPipeline[f] + bytes <= Unsent(f),
         UNCHANGED <<queues, grantPipeline, transmitPipeline, backlog>>, NEW g \in Flows
  PROVE  [Loop(g)!Next]_(Loop(g)!vars)
<1> DEFINE event == FlowEvent(RequestTicks, "ReceiveRequest", f, bytes)
<1>1. /\ requestPipeline' = [requestPipeline EXCEPT ![f] = @ + bytes]
      /\ agenda' = Schedule(Rest, event)
  BY DEF SendRequest
<1>2. /\ agenda \in Seq(Events) /\ agenda # <<>> /\ Head(agenda) \in Events
      /\ Head(agenda).event = "MakeRequest" /\ Agrees(Rest, grantPipeline)
  BY FrontFacts
<1>3. /\ event = [in |-> RequestTicks, event |-> "ReceiveRequest", arg |-> [sfid |-> f, n |-> bytes]]
      /\ event.event = "ReceiveRequest" /\ event.in = RequestTicks
      /\ event.arg.sfid = f /\ event.arg.n = bytes
  BY DEF FlowEvent, Event
<1>4. event \in RequestsSent
  BY <1>3, ConstantFacts DEF RequestsSent, EventsOf, FlowArgs
<1>5. event \in Events /\ event.in \in Nat
  BY <1>3, <1>4, ConstantFacts DEF Events
<1> HIDE DEF event
<1>6. /\ RequestBytes(g)[event] = IF f = g THEN bytes ELSE 0
      /\ MapBytes(g)[event] = 0
      /\ RequestBytes(g)[Head(agenda)] = 0 /\ MapBytes(g)[Head(agenda)] = 0
      /\ RequestBytes(g) \in [Events -> Nat] /\ MapBytes(g) \in [Events -> Nat]
  BY <1>2, <1>3, <1>5, CarriedFacts
<1>7. Rest \in Seq(Events) /\ Timed(Rest) /\ Sorted(Rest)
  BY <1>2, ListFacts DEF Agrees
<1>8. PICK k \in Nat : agenda' \in Seq(Events) /\ Inserted(agenda', Rest, k, event)
  BY <1>1, <1>5, <1>7, ScheduleInserts
<1>9. /\ TotalWeight(agenda', RequestBytes(g)) = TotalWeight(Rest, RequestBytes(g)) + RequestBytes(g)[event]
      /\ TotalWeight(agenda', MapBytes(g)) = TotalWeight(Rest, MapBytes(g)) + MapBytes(g)[event]
  <2>1. RequestBytes(g) \in [Events -> Nat] /\ MapBytes(g) \in [Events -> Nat]
    BY <1>6
  <2>2. /\ Rest \in Seq(Events) /\ agenda' \in Seq(Events) /\ event \in Events
        /\ k \in Nat /\ Inserted(agenda', Rest, k, event)
    BY <1>5, <1>7, <1>8
  <2>3. ASSUME NEW w \in [Events -> Nat]
        PROVE  TotalWeight(agenda', w) = TotalWeight(Rest, w) + w[event]
    BY <2>2, WeightInserted
  <2> QED BY <2>1, <2>3
<1>10. /\ TotalWeight(agenda, RequestBytes(g)) =
            RequestBytes(g)[Head(agenda)] + TotalWeight(Rest, RequestBytes(g))
       /\ TotalWeight(agenda, MapBytes(g)) = MapBytes(g)[Head(agenda)] + TotalWeight(Rest, MapBytes(g))
       /\ TotalWeight(Rest, RequestBytes(g)) \in Nat /\ TotalWeight(Rest, MapBytes(g)) \in Nat
  BY <1>2, CarriedRest DEF Rest
<1>11. /\ InFlight(g) = TotalWeight(agenda, RequestBytes(g))
       /\ InFlight(g)' = TotalWeight(agenda', RequestBytes(g))
       /\ Promised(g) = TotalWeight(agenda, MapBytes(g))
       /\ Promised(g)' = TotalWeight(agenda', MapBytes(g))
  BY AgendaFacts, OnItsWay
<1>12. /\ InFlight(g)' = InFlight(g) + RequestBytes(g)[event]
       /\ Promised(g)' = Promised(g)
       /\ InFlight(g) \in Nat
  BY <1>6, <1>9, <1>10, <1>11
<1>13. requestPipeline \in [Flows -> Nat] /\ bytes \in Nat
  BY ConstantFacts DEF UpstreamInv, CountersTyped
<1>14. CASE g = f
  <2>1. InFlight(f)' = InFlight(f) + bytes
    BY <1>6, <1>12, <1>14
  <2>2. requestPipeline'[f] = requestPipeline[f] + bytes
    BY <1>1, <1>13
  <2>3. Loop(f)!Ask(bytes)
    BY <1>12, <1>14, <2>1, <2>2, UnsentSame DEF Loop!Ask
  <2> QED BY <1>14, <2>3, AmountFacts, <1>13, LoopMoves
<1>15. CASE g # f
  <2>1. InFlight(g)' = InFlight(g)
    BY <1>6, <1>12, <1>15
  <2>2. requestPipeline'[g] = requestPipeline[g]
    BY <1>1, <1>13, <1>15
  <2> QED BY <1>12, <2>1, <2>2, UnsentSame, LoopStutters
<1> QED BY <1>14, <1>15

\* MakeRequest: it asks for no more than the flow holds and has not asked for.
LEMMA MakeRequestLoop ==
  ASSUME UpstreamInv, UpstreamInv', NEW f \in Flows, MakeRequest(f), NEW g \in Flows
  PROVE  [Loop(g)!Next]_(Loop(g)!vars)
<1>1. Due("MakeRequest") /\ UNCHANGED <<queues, grantPipeline, transmitPipeline, backlog>>
  BY DEF MakeRequest, DueFor
<1>2. ASSUME NEW bytes \in Nat, NewRequest(f) > 0, bytes <= NewRequest(f), SendRequest(f, bytes)
      PROVE  [Loop(g)!Next]_(Loop(g)!vars)
  <2>1. /\ NewRequest(f) \in 0..MaxUnsent /\ NewRequest(f) \in Nat
        /\ requestPipeline[f] \in Nat
        /\ requestPipeline[f] + NewRequest(f) + GrantInFront(f) = Unsent(f)
    BY <1>2, AskedBytes
  <2>2. GrantInFront(f) \in Nat
    BY RequestFacts DEF UpstreamInv, AgendaInv, Agrees
  <2>3. bytes \in 0..MaxUnsent
    BY <1>2, <2>1, ConstantFacts
  <2>4. requestPipeline[f] + bytes <= Unsent(f)
    BY <1>2, <2>1, <2>2
  <2> QED BY <1>1, <1>2, <2>3, <2>4, SendRequestLoop
<1>3. CASE NothingToRequest(f)
  <2>1. agenda' = Rest /\ requestPipeline' = requestPipeline
    BY <1>3 DEF NothingToRequest
  <2>2. InFlight(g)' = InFlight(g) /\ Promised(g)' = Promised(g)
    BY <1>1, <2>1, NothingCarried
  <2> QED BY <1>1, <2>1, <2>2, UnsentSame, LoopStutters
<1>4. CASE f = CLASSIC_SFID /\ MakeClassicRequest
  <2>1. NewRequest(f) > 0 /\ NewRequest(f) \in Nat
    BY <1>4, AskedBytes DEF MakeClassicRequest
  <2>2. CASE SendRequest(CLASSIC_SFID, NewRequest(CLASSIC_SFID))
    BY <1>2, <1>4, <2>1, <2>2
  <2>3. CASE Rate # 0 /\ SendRequest(CLASSIC_SFID, ShapeRequest(NewRequest(CLASSIC_SFID))[1])
    <3> DEFINE shaped == ShapeRequest(NewRequest(f))
    <3>1. shaped[1] \in 0..NewRequest(f)
      BY <2>1, <2>3, ShapedFacts DEF UpstreamInv
    <3>2. SendRequest(f, shaped[1])
      BY <1>4, <2>3
    <3> HIDE DEF shaped
    <3>3. shaped[1] \in Nat /\ shaped[1] <= NewRequest(f)
      BY <2>1, <3>1
    <3> QED BY <1>2, <2>1, <3>2, <3>3
  <2> QED BY <1>4, <2>2, <2>3 DEF MakeClassicRequest
<1>5. CASE f = LOW_LATENCY_SFID /\ MakeLowLatencyRequest
  <2>1. NewRequest(f) > 0 /\ NewRequest(f) \in Nat /\ SendRequest(f, NewRequest(f))
    BY <1>5, AskedBytes DEF MakeLowLatencyRequest
  <2> QED BY <1>2, <2>1
<1> QED BY <1>3, <1>4, <1>5 DEF MakeRequest

\* The events of a MAP in the making: the MAP and the making of the next.
LEMMA MapEvents ==
  ASSUME NEW layout \in Layouts, NEW f \in Flows
  PROVE  LET events == <<Event(MapTicks, "HandleMapMsg", layout),
                         Event(MapInterval, "GenerateMap", 0)>>
         IN  /\ events \in Seq(Events) /\ Timed(events)
             /\ TotalWeight(events, RequestBytes(f)) = 0
             /\ TotalWeight(events, MapBytes(f)) = GrantedBytes(layout[f])
<1> DEFINE a == Event(MapTicks, "HandleMapMsg", layout)
           b == Event(MapInterval, "GenerateMap", 0)
<1>1. /\ a.event = "HandleMapMsg" /\ a.in = MapTicks /\ a.arg = layout
      /\ b.event = "GenerateMap" /\ b.in = MapInterval
  BY DEF Event
<1>2. a \in MapsSent /\ b \in MapsMade
  BY ConstantFacts, MapIntervalFacts DEF Event, MapsSent, MapsMade, EventsOf
<1>3. a \in Events /\ b \in Events
  BY <1>2 DEF Events
<1> HIDE DEF a, b
<1>4. /\ RequestBytes(f) \in [Events -> Nat] /\ MapBytes(f) \in [Events -> Nat]
      /\ RequestBytes(f)[a] = 0 /\ RequestBytes(f)[b] = 0 /\ MapBytes(f)[b] = 0
      /\ MapBytes(f)[a] = GrantedBytes(layout[f])
  BY <1>1, <1>3, CarriedFacts
<1>5. <<a, b>> = Append(<<a>>, b) /\ <<a>> \in Seq(Events)
  BY <1>3
<1>6. /\ TotalWeight(<<a, b>>, RequestBytes(f)) = TotalWeight(<<a>>, RequestBytes(f)) + 0
      /\ TotalWeight(<<a, b>>, MapBytes(f)) = TotalWeight(<<a>>, MapBytes(f)) + 0
  <2>1. ASSUME NEW w \in [Events -> Nat], w[b] = 0
        PROVE  TotalWeight(<<a, b>>, w) = TotalWeight(<<a>>, w) + 0
    <3>1. TotalWeight(Append(<<a>>, b), w) = TotalWeight(<<a>>, w) + w[b]
      BY <1>3, <1>5, WeightAppend
    <3> QED BY <3>1, <1>5, <2>1
  <2> QED BY <2>1, <1>4
<1>7. /\ TotalWeight(<<a>>, RequestBytes(f)) = 0
      /\ TotalWeight(<<a>>, MapBytes(f)) = GrantedBytes(layout[f])
  BY <1>3, <1>4, WeightOfOne
<1>8. GrantedBytes(layout[f]) \in Nat
  BY GrantedFacts
<1>9. <<a, b>> \in Seq(Events)
  BY <1>3
<1>10. Timed(<<a, b>>)
  BY <1>9, ListFacts
<1> QED BY <1>6, <1>7, <1>8, <1>9, <1>10 DEF a, b

\* What is left of a when b is taken off, and never less than nothing.
LEMMA MonusIsMax ==
  ASSUME NEW f, NEW a \in Nat, NEW b \in Nat
  PROVE  Max({a - b, 0}) = Loop(f)!Monus(a, b)
<1>1. a - b \in Int /\ 0 \in Int
  OBVIOUS
<1>2. Max({a - b, 0}) \in {a - b, 0} /\ Max({a - b, 0}) >= a - b /\ Max({a - b, 0}) >= 0
  BY <1>1, MaxOfTwo
<1> QED BY <1>2 DEF Loop!Monus

\* Bytes of one MAP are bytes that one step may move.
LEMMA MapAmount ==
  ASSUME NEW layout \in Layouts, NEW f \in Flows
  PROVE  /\ GrantedBytes(layout[f]) \in 0 .. MaxUnsent + MaxBacklog + GrantedInAMap
         /\ GrantedBytes(layout[f]) \in Nat
         /\ 0 \in 0 .. GrantedBytes(layout[f])
<1>1. GrantedBytes(layout[f]) \in 0..GrantedInAMap /\ GrantedBytes(layout[f]) \in Nat
  BY GrantedFacts
<1> QED BY <1>1, AmountFacts

\* GenerateMap: the scheduler grants each flow what the MAP gives it.
LEMMA GenerateMapLoop ==
  ASSUME UpstreamInv, UpstreamInv', NEW layout \in Layouts, GenerateMap(layout), NEW g \in Flows
  PROVE  [Loop(g)!Next]_(Loop(g)!vars)
<1> DEFINE n == GrantedBytes(layout[g])
           events == <<Event(MapTicks, "HandleMapMsg", layout),
                       Event(MapInterval, "GenerateMap", 0)>>
<1>1. /\ Due("GenerateMap") /\ agenda' = ScheduleAll(Rest, events)
      /\ backlog' = [f \in Flows |-> Max({backlog[f] - GrantedBytes(layout[f]), 0})]
      /\ UNCHANGED <<queues, pipelines>>
  BY DEF GenerateMap
<1>2. /\ events \in Seq(Events) /\ Timed(events) /\ TotalWeight(events, RequestBytes(g)) = 0
      /\ TotalWeight(events, MapBytes(g)) = n
  BY MapEvents
<1>3. n \in Nat /\ n \in 0 .. MaxUnsent + MaxBacklog + GrantedInAMap /\ 0 \in 0..n
  BY MapAmount
<1>4. backlog'[g] = Max({backlog[g] - n, 0}) /\ backlog[g] \in Nat
  BY <1>1 DEF UpstreamInv, CountersTyped
<1> HIDE DEF n, events
<1>5. /\ agenda \in Seq(Events) /\ agenda # <<>> /\ Head(agenda) \in Events
      /\ Head(agenda).event = "GenerateMap" /\ Agrees(Rest, grantPipeline)
  BY <1>1, FrontFacts
<1>6. Rest \in Seq(Events) /\ Timed(Rest) /\ Sorted(Rest)
  BY <1>5, ListFacts DEF Agrees
<1>7. /\ RequestBytes(g) \in [Events -> Nat] /\ MapBytes(g) \in [Events -> Nat]
      /\ RequestBytes(g)[Head(agenda)] = 0 /\ MapBytes(g)[Head(agenda)] = 0
  BY <1>5, CarriedFacts
<1>8. ASSUME NEW w \in [Events -> Nat] PROVE TotalWeight(agenda', w) = TotalWeight(Rest, w) + TotalWeight(events, w)
  BY <1>1, <1>2, <1>6, WeightScheduled
<1>9. /\ TotalWeight(agenda', RequestBytes(g)) = TotalWeight(Rest, RequestBytes(g)) + 0
      /\ TotalWeight(agenda', MapBytes(g)) = TotalWeight(Rest, MapBytes(g)) + n
  BY <1>2, <1>7, <1>8
<1>10. /\ TotalWeight(agenda, RequestBytes(g)) = 0 + TotalWeight(Rest, RequestBytes(g))
       /\ TotalWeight(agenda, MapBytes(g)) = 0 + TotalWeight(Rest, MapBytes(g))
       /\ TotalWeight(Rest, RequestBytes(g)) \in Nat /\ TotalWeight(Rest, MapBytes(g)) \in Nat
  BY <1>5, <1>7, CarriedRest DEF Rest
<1>11. /\ InFlight(g) = TotalWeight(agenda, RequestBytes(g))
       /\ InFlight(g)' = TotalWeight(agenda', RequestBytes(g))
       /\ Promised(g) = TotalWeight(agenda, MapBytes(g))
       /\ Promised(g)' = TotalWeight(agenda', MapBytes(g))
  BY AgendaFacts, OnItsWay
<1>12. InFlight(g)' = InFlight(g) /\ Promised(g)' = Promised(g) + n
  BY <1>3, <1>9, <1>10, <1>11
<1>13. backlog'[g] = Loop(g)!Monus(backlog[g], n)
  BY <1>3, <1>4, MonusIsMax
<1>14. Loop(g)!Grant(n)
  BY <1>1, <1>12, <1>13, UnsentSame DEF Loop!Grant, pipelines
<1> QED BY <1>3, <1>14, LoopMoves

\* The events that a MAP makes carry nothing.
LEMMA MadeCarries ==
  ASSUME NEW list \in Seq(Made), list \in Seq(Events), NEW f \in Flows
  PROVE  TotalWeight(list, RequestBytes(f)) = 0 /\ TotalWeight(list, MapBytes(f)) = 0
<1>1. RequestBytes(f) \in [Events -> Nat] /\ MapBytes(f) \in [Events -> Nat]
  BY CarriedFacts
<1>2. ASSUME NEW i \in 1 .. Len(list)
      PROVE  RequestBytes(f)[list[i]] = 0 /\ MapBytes(f)[list[i]] = 0
  <2>1. list[i] \in Made /\ list[i] \in Events
    BY ElementOfSeq
  <2>2. list[i] \in RequestsDue \cup BurstsDue \cup LoadsDue \cup FramesDue \cup DumpsDue
    BY <2>1 DEF Made, MadeFor
  <2>3. list[i].event # "ReceiveRequest" /\ list[i].event # "HandleMapMsg"
    BY <2>2 DEF RequestsDue, BurstsDue, LoadsDue, FramesDue, DumpsDue, EventsOf
  <2> QED BY <2>1, <2>3, CarriedFacts
<1> QED BY <1>1, <1>2, WeightZero

\* Grants behind those of a pipeline.
LEMMA TotalConcat ==
  ASSUME NEW s \in Seq(Grants), NEW t \in Seq(Grants)
  PROVE  TotalOf(s \o t) = TotalOf(s) + TotalOf(t)
<1>1. s \o t \in Seq(Grants)
  BY ConcatProperties
<1>2. TotalWeight(s \o t, GrantBytes) = TotalWeight(s, GrantBytes) + TotalWeight(t, GrantBytes)
  BY BytesAreWeights, WeightConcat
<1> QED BY <1>1, <1>2, TotalFacts

\* HandleMapMsg: the MAP's grants leave the requests for the grant pipeline.
LEMMA HandleMapMsgLoop ==
  ASSUME UpstreamInv, UpstreamInv', HandleMapMsg, NEW g \in Flows
  PROVE  [Loop(g)!Next]_(Loop(g)!vars)
<1> DEFINE layout == Arg
           n == GrantedBytes(layout[g])
<1>1. /\ Due("HandleMapMsg")
      /\ requestPipeline' = [f \in Flows |-> StillRequested(f, layout)]
      /\ grantPipeline' = [f \in Flows |-> grantPipeline[f] \o Pipelined(layout[f])]
      /\ UNCHANGED <<queues, transmitPipeline, backlog>>
  BY DEF HandleMapMsg
<1>2. PICK offset \in [Flows -> RequestOffsets] :
        agenda' = ScheduleAll(Rest,
                    InFlowOrder([f \in Flows |-> FlowEvents(f, layout, offset[f])]))
  BY DEF HandleMapMsg
<1>3. /\ agenda \in Seq(Events) /\ agenda # <<>> /\ Head(agenda) \in Events
      /\ Head(agenda).event = "HandleMapMsg" /\ Agrees(Rest, grantPipeline)
  BY <1>1, FrontFacts
<1>4. layout \in Layouts /\ MapBytes(g)[Head(agenda)] = n /\ RequestBytes(g)[Head(agenda)] = 0
  BY <1>3, CarriedFacts DEF Arg
<1> HIDE DEF layout
<1>5. n \in Nat /\ n \in 0 .. MaxUnsent + MaxBacklog + GrantedInAMap /\ 0 \in 0..n
  BY <1>4, MapAmount
<1>6. n = TotalOf(Pipelined(layout[g])) /\ Pipelined(layout[g]) \in Seq(Grants)
  BY <1>4, GrantedFacts, LayoutFacts, PipelinedFacts
<1> DEFINE made == [f \in Flows |-> FlowEvents(f, layout, offset[f])]
           events == InFlowOrder(made)
<1>7. events \in Seq(Made) /\ events \in Seq(Events)
  <2> DEFINE added == [f \in Flows |-> Pipelined(layout[f])]
  <2>1. ASSUME NEW f \in Flows
        PROVE  /\ made[f] \in Seq(MadeFor(f)) /\ added[f] \in Seq(Grants)
               /\ Aligned(added[f], made[f], f)
    <3>1. /\ FlowEvents(f, layout, offset[f]) \in Seq(MadeFor(f))
          /\ Aligned(Pipelined(layout[f]), FlowEvents(f, layout, offset[f]), f)
      BY <1>4, FlowEventsFacts
    <3>2. Pipelined(layout[f]) \in Seq(Grants)
      BY <1>4, LayoutFacts, PipelinedFacts
    <3> QED BY <3>1, <3>2
  <2> HIDE DEF made, added
  <2> QED BY <2>1, InFlowOrderFacts
<1>8. agenda' = ScheduleAll(Rest, events)
  BY <1>2
<1> HIDE DEF made, events
<1>9. Timed(events) /\ Rest \in Seq(Events) /\ Timed(Rest) /\ Sorted(Rest)
  BY <1>3, <1>7, ListFacts DEF Agrees
<1>10. RequestBytes(g) \in [Events -> Nat] /\ MapBytes(g) \in [Events -> Nat]
  BY CarriedFacts
<1>11. ASSUME NEW w \in [Events -> Nat] PROVE TotalWeight(agenda', w) = TotalWeight(Rest, w) + TotalWeight(events, w)
  BY <1>7, <1>8, <1>9, WeightScheduled
<1>12. TotalWeight(events, RequestBytes(g)) = 0 /\ TotalWeight(events, MapBytes(g)) = 0
  BY <1>7, MadeCarries
<1>13. /\ TotalWeight(agenda', RequestBytes(g)) = TotalWeight(Rest, RequestBytes(g)) + 0
       /\ TotalWeight(agenda', MapBytes(g)) = TotalWeight(Rest, MapBytes(g)) + 0
  BY <1>10, <1>11, <1>12
<1>14. /\ TotalWeight(agenda, RequestBytes(g)) = 0 + TotalWeight(Rest, RequestBytes(g))
       /\ TotalWeight(agenda, MapBytes(g)) = n + TotalWeight(Rest, MapBytes(g))
       /\ TotalWeight(Rest, RequestBytes(g)) \in Nat /\ TotalWeight(Rest, MapBytes(g)) \in Nat
  BY <1>3, <1>4, CarriedRest DEF Rest
<1>15. /\ InFlight(g) = TotalWeight(agenda, RequestBytes(g))
       /\ InFlight(g)' = TotalWeight(agenda', RequestBytes(g))
       /\ Promised(g) = TotalWeight(agenda, MapBytes(g))
       /\ Promised(g)' = TotalWeight(agenda', MapBytes(g))
  BY AgendaFacts, OnItsWay
<1> HIDE DEF n
<1>16. InFlight(g)' = InFlight(g) /\ n <= Promised(g) /\ Promised(g)' = Promised(g) - n
  BY <1>5, <1>13, <1>14, <1>15
<1>17. requestPipeline'[g] = Loop(g)!Monus(requestPipeline[g], n)
  <2>1. requestPipeline'[g] = Max({requestPipeline[g] - n, 0}) /\ requestPipeline[g] \in Nat
    BY <1>1 DEF StillRequested, UpstreamInv, CountersTyped, n
  <2> QED BY <1>5, <2>1, MonusIsMax
<1>18. TotalOf(grantPipeline'[g]) = TotalOf(grantPipeline[g]) + n
  <2>1. grantPipeline[g] \in Seq(Grants)
    BY <1>3 DEF Agrees
  <2>2. grantPipeline'[g] = grantPipeline[g] \o Pipelined(layout[g])
    BY <1>1
  <2> QED BY <1>6, <2>1, <2>2, TotalConcat DEF n
<1>19. Loop(g)!Absorb(n)
  BY <1>1, <1>16, <1>17, <1>18, UnsentSame DEF Loop!Absorb, TotalOf
<1> QED BY <1>5, <1>19, LoopMoves

\* Events that are the same but for their times carry the same.
LEMMA LaterCarries ==
  ASSUME NEW list \in Seq(Events), NEW later \in Seq(Events), Len(later) = Len(list),
         \A i \in 1 .. Len(list) :
           later[i].event = list[i].event /\ later[i].arg = list[i].arg,
         NEW f \in Flows
  PROVE  /\ TotalWeight(later, RequestBytes(f)) = TotalWeight(list, RequestBytes(f))
         /\ TotalWeight(later, MapBytes(f)) = TotalWeight(list, MapBytes(f))
<1>1. RequestBytes(f) \in [Events -> Nat] /\ MapBytes(f) \in [Events -> Nat]
  BY CarriedFacts
<1>2. \A i \in 1 .. Len(later) : later[i] \in Events /\ list[i] \in Events
  BY ElementOfSeq
<1>3. \A i \in 1 .. Len(later) : RequestBytes(f)[later[i]] = RequestBytes(f)[list[i]]
  BY <1>2 DEF RequestBytes
<1>4. \A i \in 1 .. Len(later) : MapBytes(f)[later[i]] = MapBytes(f)[list[i]]
  BY <1>2 DEF MapBytes
<1>5. TotalWeight(later, RequestBytes(f)) = TotalWeight(list, RequestBytes(f))
  BY <1>1, <1>3, WeightSame
<1>6. TotalWeight(later, MapBytes(f)) = TotalWeight(list, MapBytes(f))
  BY <1>1, <1>4, WeightSame
<1> QED BY <1>5, <1>6

\* What a grant pipeline holds does not depend on the time.
LEMMA LaterTotal ==
  ASSUME NEW pipe \in Seq(Grants), NEW t, Later(pipe, t) \in Seq(Grants)
  PROVE  TotalOf(Later(pipe, t)) = TotalOf(pipe)
<1> DEFINE later == Later(pipe, t)
<1>1. /\ Len(pipe) \in Nat /\ DOMAIN pipe = 1 .. Len(pipe)
      /\ \A i \in 1 .. Len(pipe) : pipe[i] \in Grants
  BY LenProperties, ElementOfSeq
<1>2. later = [i \in 1 .. Len(pipe) |-> [pipe[i] EXCEPT !.in = @ - t]]
  BY <1>1 DEF Later
<1>3. Len(later) = Len(pipe)
  BY <1>1, <1>2, LenProperties
<1>4. ASSUME NEW i \in 1 .. Len(pipe) PROVE GrantBytes[later[i]] = GrantBytes[pipe[i]]
  <2>1. later[i] \in Grants
    BY <1>3, ElementOfSeq
  <2>2. later[i] = [pipe[i] EXCEPT !.in = @ - t]
    BY <1>2
  <2>3. later[i].bytes = pipe[i].bytes
    BY <1>1, <2>2 DEF Grants
  <2> QED BY <1>1, <2>1, <2>3, BytesAreWeights
<1>a. later \in Seq(Grants) /\ GrantBytes \in [Grants -> Nat]
  BY BytesAreWeights
<1> DEFINE w == GrantBytes
<1> HIDE DEF later, w
<1>5. TotalWeight(later, w) = TotalWeight(pipe, w)
  <2>1. \A i \in 1 .. Len(later) : w[later[i]] = w[pipe[i]]
    BY <1>3, <1>4 DEF w
  <2>2. w \in [Grants -> Nat]
    BY <1>a DEF w
  <2> QED BY <2>1, <2>2, <1>3, <1>a, WeightSame
<1>6. TotalOf(later) = TotalWeight(later, GrantBytes) /\ TotalOf(pipe) = TotalWeight(pipe, GrantBytes)
  BY <1>a, TotalFacts
<1> QED BY <1>5, <1>6 DEF later, w

\* AdvanceTime: nothing moves.
LEMMA AdvanceTimeLoop ==
  ASSUME UpstreamInv, UpstreamInv', AdvanceTime, NEW g \in Flows
  PROVE  [Loop(g)!Next]_(Loop(g)!vars)
<1> DEFINE ticks == Head(agenda).in
<1>1. /\ agenda # <<>> /\ agenda' = Later(agenda, ticks)
      /\ grantPipeline' = [f \in Flows |-> Later(grantPipeline[f], ticks)]
      /\ transmitPipeline' = [f \in Flows |-> Aged(transmitPipeline[f], ticks)]
      /\ UNCHANGED <<queues, requestPipeline, backlog>>
  BY DEF AdvanceTime
<1>2. agenda \in Seq(Events) /\ Sorted(agenda) /\ Spaced(agenda)
  BY DEF UpstreamInv, AgendaInv, Agrees
<1>3. /\ ticks \in Nat /\ Len(agenda') = Len(agenda)
      /\ \A i \in 1 .. Len(agenda) :
           agenda'[i].event = agenda[i].event /\ agenda'[i].arg = agenda[i].arg
  BY <1>1, <1>2, LaterList
<1> HIDE DEF ticks
<1>4. /\ TotalWeight(agenda', RequestBytes(g)) = TotalWeight(agenda, RequestBytes(g))
      /\ TotalWeight(agenda', MapBytes(g)) = TotalWeight(agenda, MapBytes(g))
  BY <1>3, AgendaFacts, LaterCarries
<1>5. InFlight(g)' = InFlight(g) /\ Promised(g)' = Promised(g)
  BY <1>4, AgendaFacts, OnItsWay
<1>6. TotalOf(transmitPipeline'[g]) = TotalOf(transmitPipeline[g])
  <2>1. transmitPipeline[g] \in Seq(Grants)
    BY DEF UpstreamInv, QueuesTyped
  <2> QED BY <1>1, <1>3, <2>1, AgedTotal
<1>7. TotalOf(grantPipeline'[g]) = TotalOf(grantPipeline[g])
  <2>1. grantPipeline[g] \in Seq(Grants) /\ grantPipeline'[g] \in Seq(Grants)
    BY DEF UpstreamInv, AgendaInv, Agrees
  <2>2. grantPipeline'[g] = Later(grantPipeline[g], ticks)
    BY <1>1
  <2> QED BY <2>1, <2>2, LaterTotal
<1> QED BY <1>1, <1>5, <1>6, <1>7, UnsentSame, LoopStutters DEF TotalOf

\* PrepareBurst: the bytes of a grant make way for those of a burst.
LEMMA PrepareBurstLoop ==
  ASSUME UpstreamInv, UpstreamInv', NEW f \in Flows, PrepareBurst(f), NEW g \in Flows
  PROVE  [Loop(g)!Next]_(Loop(g)!vars)
<1> DEFINE n == MinislotsToBytes(Arg.n)
<1>1. /\ Due("PrepareBurst") /\ Arg.sfid = f /\ agenda' = Rest
      /\ UNCHANGED <<frag, requestPipeline, backlog>> /\ PrepareBurstFrom(f, n)
  BY DEF PrepareBurst, DueFor, Arg, PrepareBurstFromCQueue, PrepareBurstFromLQueue
<1>2. /\ agenda # <<>> /\ Agrees(agenda, grantPipeline) /\ Head(agenda) \in BurstsDue
  BY <1>1, FrontFacts, EventFacts
<1>3. n \in Nat /\ n \in 0 .. MaxUnsent + MaxBacklog + GrantedInAMap
  <2>1. Arg.n \in 1..MinislotsPerMap
    BY <1>2 DEF BurstsDue, EventsOf, FlowArgs, Arg
  <2>2. MinislotsPerMap \in Nat /\ Capacity \in Nat
    BY ConstantFacts, ProductFacts DEF MinislotsPerMap
  <2>3. Arg.n \in Nat /\ Arg.n <= MinislotsPerMap
    BY <2>1, <2>2
  <2>4. Arg.n * Capacity <= MinislotsPerMap * Capacity
    BY <2>2, <2>3, ProductFacts
  <2>5. n \in Nat /\ GrantedInAMap \in Nat
    BY <2>3, MinislotFacts, AmountFacts
  <2>6. n \in 0..GrantedInAMap
    BY <2>4, <2>5 DEF MinislotsToBytes, GrantedInAMap
  <2> QED BY <2>5, <2>6, AmountFacts
<1>4. Head(agenda) \in BurstsOf(f) /\ DOMAIN grantPipeline = Flows
  BY <1>1, <1>2 DEF BurstsOf, Arg, UpstreamInv, PerFlow
<1>5. grantPipeline[f] # <<>> /\ Head(grantPipeline[f]) = GrantOf(Head(agenda))
  BY <1>2, <1>4, BurstAgrees
<1>6. Head(grantPipeline[f]).bytes = n
  BY <1>5 DEF GrantOf, Arg
<1> HIDE DEF n
<1>7. QueuesTyped /\ HeldInv /\ PerFlow /\ QueuesTyped' /\ HeldInv'
  BY DEF UpstreamInv
<1>8. /\ \A h \in Flows : Unsent(h)' = Unsent(h)
      /\ \A h \in Flows : h # f => transmitPipeline'[h] = transmitPipeline[h]
      /\ \E m \in 0..n : TotalOf(transmitPipeline'[f]) = TotalOf(transmitPipeline[f]) + m
  BY <1>1, <1>3, <1>7, StageFacts
<1>9. InFlight(g)' = InFlight(g) /\ Promised(g)' = Promised(g)
  BY <1>1, NothingCarried
<1>10. grantPipeline' = [grantPipeline EXCEPT ![f] = Tail(@)]
  BY <1>1 DEF PrepareBurstFrom
<1>11. CASE g = f
  <2>1. PICK m \in 0..n : TotalOf(transmitPipeline'[f]) = TotalOf(transmitPipeline[f]) + m
    BY <1>8
  <2>2. grantPipeline'[f] = Tail(grantPipeline[f])
    BY <1>4, <1>10
  <2>3. TotalOf(grantPipeline[f]) = n + TotalOf(grantPipeline'[f])
    <3>1. grantPipeline[f] \in Seq(Grants)
      BY <1>2 DEF Agrees
    <3>2. Tail(grantPipeline[f]) \in Seq(Grants) /\ Head(grantPipeline[f]) \in Grants
      BY <1>5, <3>1, HeadTailProperties
    <3>3. TotalWeight(grantPipeline[f], GrantBytes) =
            GrantBytes[Head(grantPipeline[f])] + TotalWeight(Tail(grantPipeline[f]), GrantBytes)
      BY <1>5, <3>1, BytesAreWeights, WeightTail
    <3>4. GrantBytes[Head(grantPipeline[f])] = n
      BY <1>6, <3>2, BytesAreWeights
    <3> QED BY <2>2, <3>1, <3>2, <3>3, <3>4, TotalFacts
  <2>4. TotalOf(grantPipeline'[f]) \in Nat
    <3>1. grantPipeline'[f] \in Seq(Grants)
      BY DEF UpstreamInv, AgendaInv, Agrees
    <3> QED BY <3>1, TotalFacts
  <2>5. n <= TotalOf(grantPipeline[f]) /\ TotalOf(grantPipeline'[f]) = TotalOf(grantPipeline[f]) - n
    BY <1>3, <2>3, <2>4
  <2>6. TotalOf(transmitPipeline'[f]) <= Unsent(f)
    <3>1. TotalOf(transmitPipeline'[f]) <= DeviceBytes(f)' /\ Unsent(f)' = Unsent(f)
      BY <1>7, <1>8 DEF HeldInv
    <3>2. /\ transmitPipeline'[f] \in Seq(Grants)
          /\ aqm'[f] \in Seq(Nat \ {0}) /\ device'[f] \in Seq(Nat \ {0})
          /\ frag'[f] \in [size : Nat, sent : Nat]
      BY <1>7 DEF QueuesTyped
    <3>3. AqmBytes(f)' \in Nat /\ SumSeq(device'[f]) \in Nat
      BY <3>2, SizesFacts DEF AqmBytes
    <3>4. DeviceBytes(f)' \in Int
      BY <3>2, <3>3 DEF DeviceBytes
    <3>5. Unsent(f)' = AqmBytes(f)' + DeviceBytes(f)' /\ TotalOf(transmitPipeline'[f]) \in Nat
      BY <3>2, TotalFacts DEF Unsent
    <3> QED BY <3>1, <3>3, <3>4, <3>5
  <2>7. Loop(f)!Stage(n, m)
    BY <1>1, <1>8, <1>9, <1>11, <2>1, <2>5, <2>6 DEF Loop!Stage, TotalOf
  <2> QED BY <1>3, <1>11, <2>7, LoopMoves
<1>12. CASE g # f
  <2>1. grantPipeline'[g] = grantPipeline[g] /\ transmitPipeline'[g] = transmitPipeline[g]
    BY <1>4, <1>8, <1>10, <1>12
  <2>2. Unsent(g)' = Unsent(g)
    BY <1>8
  <2> QED BY <1>1, <1>9, <2>1, <2>2, LoopStutters DEF TotalOf
<1> QED BY <1>11, <1>12

\* SendFrame: bytes of bursts leave the modem.
LEMMA SendFrameLoop ==
  ASSUME UpstreamInv, UpstreamInv', NEW f \in Flows, SendFrame(f), NEW g \in Flows
  PROVE  [Loop(g)!Next]_(Loop(g)!vars)
<1>1. /\ Due("SendFrame") /\ agenda' = Rest
      /\ UNCHANGED <<aqm, requestPipeline, grantPipeline, backlog>>
      /\ SendFrameFrom(f, MinislotsToBytes(Arg.n))
  BY DEF SendFrame, DueFor, SendFrameFromCQueue, SendFrameFromLQueue
<1>2. MinislotsToBytes(Arg.n) \in Nat
  <2>1. Head(agenda) \in FramesDue
    BY <1>1, FrontFacts, EventFacts
  <2>2. Arg.n \in Nat
    BY <2>1 DEF FramesDue, EventsOf, FlowArgs, Arg
  <2> QED BY <2>2, MinislotFacts
<1>3. /\ \A h \in Flows : h # f => /\ Unsent(h)' = Unsent(h)
                                   /\ transmitPipeline'[h] = transmitPipeline[h]
      /\ \E m \in 0 .. TotalOf(transmitPipeline[f]) :
           /\ Unsent(f)' = Unsent(f) - m
           /\ TotalOf(transmitPipeline'[f]) = TotalOf(transmitPipeline[f]) - m
  BY <1>1, <1>2, TransmitFacts
<1>4. InFlight(g)' = InFlight(g) /\ Promised(g)' = Promised(g)
  BY <1>1, NothingCarried
<1>5. CASE g = f
  <2>1. PICK m \in 0 .. TotalOf(transmitPipeline[f]) :
          /\ Unsent(f)' = Unsent(f) - m
          /\ TotalOf(transmitPipeline'[f]) = TotalOf(transmitPipeline[f]) - m
    BY <1>3
  <2>2. /\ TotalOf(transmitPipeline[f]) <= DeviceBytes(f) /\ Unsent(f) <= MaxUnsent
        /\ TotalOf(transmitPipeline[f]) \in Nat
        /\ AqmBytes(f) \in Nat /\ DeviceBytes(f) \in Nat /\ Unsent(f) = AqmBytes(f) + DeviceBytes(f)
    <3>1. QueuesTyped /\ HeldInv /\ transmitPipeline[f] \in Seq(Grants)
      BY DEF UpstreamInv, QueuesTyped
    <3> QED BY <3>1, TotalFacts, BytesFacts DEF HeldInv
  <2>3. m \in 0..MaxUnsent /\ m <= TotalOf(transmitPipeline[f]) /\ m \in Nat
    BY <2>1, <2>2, ConstantFacts
  <2>4. Loop(f)!Transmit(m)
    BY <1>1, <1>4, <1>5, <2>1, <2>3 DEF Loop!Transmit, TotalOf
  <2> QED BY <1>5, <2>3, <2>4, AmountFacts, LoopMoves
<1>6. CASE g # f
  BY <1>1, <1>3, <1>4, <1>6, LoopStutters DEF TotalOf
<1> QED BY <1>5, <1>6

\* The modem holds, has asked for and has been granted nothing at first.
LEMMA LoopInit ==
  ASSUME Init, NEW f \in Flows
  PROVE  Loop(f)!Init
<1> DEFINE first == Event(FirstGenerateMap, "GenerateMap", 0)
<1>1. /\ aqm[f] = <<>> /\ device[f] = <<>> /\ frag[f] = NoFragment
      /\ requestPipeline[f] = 0 /\ backlog[f] = 0
      /\ grantPipeline[f] = <<>> /\ transmitPipeline[f] = <<>>
  BY DEF Init, ForAllFlows
<1>2. PICK offset \in [Flows -> [1..StartupMaps -> RequestOffsets]] :
        agenda = ScheduleAll(<<first>>,
                   InFlowOrder([g \in Flows |-> StartupRequests(g, offset[g])]))
  BY DEF Init
<1> DEFINE events == InFlowOrder([g \in Flows |-> StartupRequests(g, offset[g])])
<1>3. events \in Seq(Events) /\ \A j \in 1 .. Len(events) : events[j] \in RequestsDue
  BY StartupList
<1>4. agenda = ScheduleAll(<<first>>, events)
  BY <1>2
<1>5. first \in Events /\ first.event = "GenerateMap"
  BY MapIntervalFacts DEF Event, Events, MapsMade, EventsOf
<1> HIDE DEF first, events
<1>6. RequestBytes(f) \in [Events -> Nat] /\ MapBytes(f) \in [Events -> Nat]
  BY CarriedFacts
<1>7. TotalWeight(events, RequestBytes(f)) = 0 /\ TotalWeight(events, MapBytes(f)) = 0
  <2>1. ASSUME NEW i \in 1 .. Len(events)
        PROVE  RequestBytes(f)[events[i]] = 0 /\ MapBytes(f)[events[i]] = 0
    <3>1. events[i] \in Events /\ events[i].event = "MakeRequest"
      BY <1>3, ElementOfSeq DEF RequestsDue, EventsOf
    <3> QED BY <3>1, CarriedFacts
  <2> QED BY <1>3, <1>6, <2>1, WeightZero
<1>8. TotalWeight(<<first>>, RequestBytes(f)) = 0 /\ TotalWeight(<<first>>, MapBytes(f)) = 0
  <2>1. RequestBytes(f)[first] = 0 /\ MapBytes(f)[first] = 0
    BY <1>5, CarriedFacts
  <2> QED BY <1>5, <1>6, <2>1, WeightOfOne
<1>9. <<first>> \in Seq(Events) /\ Timed(<<first>>) /\ Sorted(<<first>>) /\ Timed(events)
  <2>1. <<first>> \in Seq(Events) /\ Len(<<first>>) = 1
    BY <1>5
  <2>2. DOMAIN <<first>> = 1..1 /\ \A i \in 1..1 : <<first>>[i] = first
    OBVIOUS
  <2>3. first.in \in Nat
    BY <1>5, EventFacts
  <2>4. first.in <= first.in
    BY <2>3
  <2> QED BY <1>3, <2>1, <2>2, <2>3, <2>4, ListFacts DEF Timed, Sorted
<1>10. ASSUME NEW w \in [Events -> Nat]
       PROVE  TotalWeight(agenda, w) = TotalWeight(<<first>>, w) + TotalWeight(events, w)
  BY <1>3, <1>4, <1>9, WeightScheduled
<1>11. TotalWeight(agenda, RequestBytes(f)) = 0 /\ TotalWeight(agenda, MapBytes(f)) = 0
  BY <1>6, <1>7, <1>8, <1>10
<1>12. InFlight(f) = 0 /\ Promised(f) = 0
  <2>1. agenda \in Seq(Events)
    BY <1>3, <1>4, <1>9, ScheduleAllMerges
  <2>2. InFlight(f) = TotalWeight(agenda, RequestBytes(f)) /\ Promised(f) = TotalWeight(agenda, MapBytes(f))
    BY <2>1, OnItsWayNow
  <2> QED BY <1>11, <2>2
<1>13. Unsent(f) = 0
  <2>1. SumSeq(aqm[f]) = 0 /\ SumSeq(device[f]) = 0
    BY <1>1, SumEmpty
  <2>2. frag[f].size = 0 /\ frag[f].sent = 0
    BY <1>1 DEF NoFragment
  <2> QED BY <2>1, <2>2 DEF Unsent, AqmBytes, DeviceBytes
<1>14. TotalOf(<<>>) = 0
  <2>1. <<>> \in Seq(Grants) /\ \A i \in 1 .. Len(<<>>) : GrantBytes[<<>>[i]] = 0
    OBVIOUS
  <2>2. TotalWeight(<<>>, GrantBytes) = 0
    BY <2>1, BytesAreWeights, WeightZero
  <2> QED BY <2>1, <2>2, TotalFacts
<1> QED BY <1>1, <1>12, <1>13, <1>14 DEF Loop!Init

\* Every step of the modem, of the scheduler and of time is a step of the loop
\* of each flow, or leaves it as it is.
LEMMA LoopStep ==
  ASSUME UpstreamInv, UpstreamInv', [Next]_vars, NEW g \in Flows
  PROVE  [Loop(g)!Next]_(Loop(g)!vars)
<1>1. CASE UNCHANGED vars
  BY <1>1, UnsentSame, LoopStutters
  DEF vars, queues, pipelines, InFlight, Promised, PendingBytes
<1>2. CASE AdvanceTime
  BY <1>2, AdvanceTimeLoop
<1>3. ASSUME NEW layout \in Layouts, GenerateMap(layout) PROVE [Loop(g)!Next]_(Loop(g)!vars)
  BY <1>3, GenerateMapLoop
<1>4. CASE HandleMapMsg
  BY <1>4, HandleMapMsgLoop
<1>5. ASSUME NEW f \in Flows, FlowStep(f) PROVE [Loop(g)!Next]_(Loop(g)!vars)
  BY <1>5, MakeRequestLoop, ReceiveRequestLoop, PrepareBurstLoop, MapStateLoop, SendFrameLoop
  DEF FlowStep
<1>6. ASSUME NEW f \in Flows, NEW size \in Sizes, SendFrom(f, size)
      PROVE  [Loop(g)!Next]_(Loop(g)!vars)
  BY <1>6, SendFromLoop
<1> QED BY <1>1, <1>2, <1>3, <1>4, <1>5, <1>6 DEF Next, Simulate

\* The refinement: with all its events, MAPs, requests, bursts and frames, the
\* modem implements the byte ledger GrantLoop for each of its flows.
THEOREM UpstreamImplementsLoop == Spec => ImplementsLoop
<1> DEFINE Starts == \A f \in Flows : Loop(f)!Init
           Moves == \A f \in Flows : [Loop(f)!Next]_(Loop(f)!vars)
<1>1. Init => Starts
  BY LoopInit
<1>2. UpstreamInv /\ UpstreamInv' /\ [Next]_vars => Moves
  BY LoopStep
<1>3. ImplementsLoop <=> Starts /\ [][Moves]_vars
  BY DEF ImplementsLoop
<1> HIDE DEF Starts, Moves
<1> QED BY <1>1, <1>2, <1>3, UpstreamInvariant, PTL DEF Spec

\* What GrantLoop promises: every counter of it stays a natural number, a flow
\* never waits for a grant that nobody will give it, and no byte is promised
\* to a frame that the flow does not hold.
Ledgers == \A f \in Flows : Ledger(f)

\* The ledger of each flow is kept.
THEOREM LedgerInvariant == Spec => []Ledgers
<1>1. Init => Ledgers
  BY LoopInit, LedgerInit DEF Ledgers
<1>2. UpstreamInv /\ UpstreamInv' /\ Ledgers /\ [Next]_vars => Ledgers'
  <2> SUFFICES ASSUME UpstreamInv, UpstreamInv', Ledgers, [Next]_vars, NEW f \in Flows
               PROVE  Ledger(f)'
    BY DEF Ledgers
  <2>1. Ledger(f) /\ [Loop(f)!Next]_(Loop(f)!vars)
    BY LoopStep DEF Ledgers
  <2> QED BY <2>1, LedgerStep
<1> QED BY <1>1, <1>2, UpstreamInvariant, PTL DEF Spec

\* What the modem believes it has asked for (m_cRequestPipeline) is covered by
\* requests in flight, the scheduler's backlog and MAPs in flight, so a flow
\* never waits for a grant that the scheduler has forgotten.
THEOREM NeverForgotten == Spec => [](\A f \in Flows : Loop(f)!NothingForgotten)
<1>1. Ledgers => \A f \in Flows : Loop(f)!NothingForgotten
  BY DEF Ledgers, Ledger
<1> QED BY <1>1, LedgerInvariant, PTL

\* No burst is ever prepared from bytes that are not held, so PrepareBurst's
\* subtraction of scheduled from held bytes, which is unsigned, never wraps.
THEOREM StagedStaysHeld == Spec => [](\A f \in Flows : Loop(f)!StagedIsHeld)
<1>1. Ledgers => \A f \in Flows : Loop(f)!StagedIsHeld
  BY DEF Ledgers, Ledger
<1> QED BY <1>1, LedgerInvariant, PTL

-----------------------------------------------------------------------------
(* Minislots of grants and of frames.                                      *)

\* The minislots of a grant, those of the first j grants, and those of all
\* grants that lie before minislot x.
Span(grant) == grant.offset .. grant.offset + grant.length - 1
SpansOf(grants, j) == {m \in 0 .. MinislotsPerMap - 1 : \E i \in 1..j : m \in Span(grants[i])}
CoveredTo(grants, x) == {m \in 0 .. x - 1 : \E i \in DOMAIN grants : m \in Span(grants[i])}

\* A frame covers the minislots that are granted in it.
LEMMA FrameCovers ==
  ASSUME NEW grants, NEW k \in Nat
  PROVE  /\ Cardinality(CoveredTo(grants, k * MinislotsPerFrame)) \in Nat
         /\ AllocationInFrame(grants, k) \in Nat
         /\ Cardinality(CoveredTo(grants, (k + 1) * MinislotsPerFrame))
              = Cardinality(CoveredTo(grants, k * MinislotsPerFrame))
                  + AllocationInFrame(grants, k)
<1> DEFINE a == k * MinislotsPerFrame
           b == (k + 1) * MinislotsPerFrame
           In(m) == \E i \in DOMAIN grants : m \in Span(grants[i])
           S == {m \in 0 .. a - 1 : In(m)}
           T == {m \in a .. b - 1 : In(m)}
           U == {m \in 0 .. b - 1 : In(m)}
<1>1. a \in Nat /\ b \in Nat /\ a <= b
  <2>1. MinislotsPerFrame \in Nat /\ k + 1 \in Nat
    BY ConstantFacts
  <2>2. a \in Nat /\ b \in Nat
    BY <2>1, ProductFacts
  <2>3. b = a + MinislotsPerFrame
    BY <2>1, Z3
  <2> HIDE DEF a, b
  <2> QED BY <2>1, <2>2, <2>3
<1>2. /\ CoveredTo(grants, a) = S /\ CoveredTo(grants, b) = U
      /\ AllocationInFrame(grants, k) = Cardinality(T)
  BY DEF CoveredTo, AllocationInFrame, Span
<1> HIDE DEF a, b, In
<1>3. IsFiniteSet(S) /\ IsFiniteSet(T)
  <2>1. IsFiniteSet(0 .. a - 1) /\ IsFiniteSet(a .. b - 1)
    BY <1>1, FS_Interval
  <2>2. S \in SUBSET (0 .. a - 1) /\ T \in SUBSET (a .. b - 1)
    OBVIOUS
  <2> HIDE DEF S, T
  <2> QED BY <2>1, <2>2, FS_Subset
<1>4. S \cup T = U /\ S \cap T = {}
  BY <1>1
<1> HIDE DEF S, T, U
<1>5. Cardinality(S) \in Nat /\ Cardinality(T) \in Nat
  BY <1>3, FS_CardinalityType
<1>6. Cardinality(U) = Cardinality(S) + Cardinality(T)
  <2>1. Cardinality(S \cup T) = Cardinality(S) + Cardinality(T) - Cardinality(S \cap T)
    BY <1>3, FS_Union
  <2>2. Cardinality(S \cap T) = 0
    BY <1>4, FS_EmptySet
  <2> DEFINE x == Cardinality(S)
             y == Cardinality(T)
  <2>3. x \in Nat /\ y \in Nat /\ Cardinality(U) = x + y - 0
    BY <1>4, <1>5, <2>1, <2>2
  <2> HIDE DEF x, y
  <2>4. Cardinality(U) = x + y
    BY <2>3
  <2> QED BY <2>4 DEF x, y
<1> QED BY <1>2, <1>5, <1>6 DEF a, b

\* The grants cover as many minislots as they are long.
LEMMA GrantsCover ==
  ASSUME NEW grants, Placed(grants)
  PROVE  \E P : /\ Sums([i \in DOMAIN grants |-> grants[i].length], P)
                /\ GrantedMinislots(grants) = P[Len(grants)]
                /\ \A j \in 0 .. Len(grants) : Cardinality(SpansOf(grants, j)) = P[j]
<1> DEFINE n == Len(grants)
           lengths == [i \in DOMAIN grants |-> grants[i].length]
<1>1. /\ n \in Nat /\ DOMAIN grants = 1..n
      /\ \A i \in 1..n : grants[i].offset \in Nat /\ grants[i].length \in Nat \ {0}
  BY GrantFacts
<1>2. /\ \A i \in 1..n : grants[i].offset + grants[i].length <= MinislotsPerMap
      /\ \A i, j \in 1..n : i < j => grants[i].offset + grants[i].length <= grants[j].offset
  BY DEF Placed
<1>3. MinislotsPerMap \in Nat
  BY ConstantFacts, ProductFacts DEF MinislotsPerMap
<1> HIDE DEF n
<1>4. lengths \in Seq(Nat) /\ Len(lengths) = n /\ \A i \in 1..n : lengths[i] = grants[i].length
  <2>1. lengths \in [1..n -> Nat] /\ \A i \in 1..n : lengths[i] = grants[i].length
    BY <1>1
  <2> HIDE DEF lengths
  <2> QED BY <2>1, <1>1, SeqDef, LenProperties
<1>5. PICK P : Sums(lengths, P) /\ SumSeq(lengths) = P[n]
  BY <1>4, SumsExist
<1>6. P[0] = 0 /\ \A j \in 1..n : P[j] = P[j - 1] + grants[j].length
  BY <1>4, <1>5 DEF Sums
<1> DEFINE Right == {j \in 0..n : IsFiniteSet(SpansOf(grants, j))
                                    /\ Cardinality(SpansOf(grants, j)) = P[j]}
<1>7. 0 \in Right
  <2>1. SpansOf(grants, 0) = {}
    BY DEF SpansOf
  <2>2. IsFiniteSet({}) /\ Cardinality({}) = 0
    BY FS_EmptySet
  <2>3. 0 \in 0..n
    BY <1>1
  <2> QED BY <2>1, <2>2, <2>3, <1>6
<1>8. ASSUME NEW j \in 1..n, j - 1 \in Right PROVE j \in Right
  <2> DEFINE o == grants[j].offset
             l == grants[j].length
             S == SpansOf(grants, j - 1)
             T == o .. o + l - 1
  <2>1. o \in Nat /\ l \in Nat \ {0} /\ o + l <= MinislotsPerMap
    BY <1>1, <1>2
  <2>2. \A i \in 1 .. j - 1 : grants[i].offset + grants[i].length <= o
    BY <1>1, <1>2
  <2>3. SpansOf(grants, j) = S \cup T
    <3>1. \A i \in 1..j : i \in 1 .. j - 1 \/ i = j
      BY <1>1
    <3>2. j \in 1..j /\ \A i \in 1 .. j - 1 : i \in 1..j
      BY <1>1
    <3>3. T \subseteq 0 .. MinislotsPerMap - 1 /\ Span(grants[j]) = T
      BY <1>3, <2>1 DEF Span
    <3> HIDE DEF T
    <3> QED BY <3>1, <3>2, <3>3 DEF SpansOf
  <2>4. S \cap T = {}
    <3> SUFFICES ASSUME NEW m \in S, m \in T PROVE FALSE
      OBVIOUS
    <3>1. PICK i \in 1 .. j - 1 : m \in Span(grants[i])
      BY DEF SpansOf
    <3>2. i \in 1..n
      BY <1>1, <3>1
    <3>3. grants[i].offset + grants[i].length <= o /\ grants[i].offset \in Nat /\ grants[i].length \in Nat
      BY <1>1, <2>2, <3>1, <3>2
    <3> QED BY <2>1, <3>1, <3>3 DEF Span
  <2>5. IsFiniteSet(S) /\ Cardinality(S) = P[j - 1] /\ j \in 0..n
    BY <1>1, <1>8
  <2>6. IsFiniteSet(T) /\ Cardinality(T) = l
    <3>1. IsFiniteSet(T) /\ Cardinality(T) = IF o > o + l - 1 THEN 0 ELSE (o + l - 1) - o + 1
      <4>1. o \in Int /\ o + l - 1 \in Int
        BY <2>1
      <4> QED BY <4>1, FS_Interval
    <3> QED BY <2>1, <3>1
  <2> HIDE DEF S, T, o, l
  <2>7. IsFiniteSet(S \cup T) /\ Cardinality(S \cup T) = Cardinality(S) + Cardinality(T) - Cardinality(S \cap T)
    BY <2>5, <2>6, FS_Union
  <2>8. Cardinality(S \cap T) = 0
    BY <2>4, FS_EmptySet
  <2>9. Cardinality(S) \in Nat
    BY <2>5, FS_CardinalityType
  <2>10. Cardinality(S \cup T) = P[j]
    BY <1>6, <2>1, <2>5, <2>6, <2>7, <2>8, <2>9 DEF l
  <2> QED BY <2>3, <2>5, <2>7, <2>10
<1>9. \A j \in 0..n : j \in Right
  <2> HIDE DEF Right
  <2> QED BY <1>1, <1>7, <1>8, CountUp
<1> QED BY <1>5, <1>9 DEF GrantedMinislots, n, lengths

\* Nothing is granted before the first minislot, and up to the last one there
\* is what the grants are long.
LEMMA CoveredAll ==
  ASSUME NEW grants, Placed(grants)
  PROVE  /\ Cardinality(CoveredTo(grants, 0 * MinislotsPerFrame)) = 0
         /\ Cardinality(CoveredTo(grants, FramesPerMap * MinislotsPerFrame))
              = GrantedMinislots(grants)
<1>1. CoveredTo(grants, 0 * MinislotsPerFrame) = {}
  <2>1. 0 * MinislotsPerFrame = 0
    BY ConstantFacts
  <2> QED BY <2>1 DEF CoveredTo
<1>2. CoveredTo(grants, MinislotsPerMap) = SpansOf(grants, Len(grants))
  <2>1. DOMAIN grants = 1 .. Len(grants)
    BY GrantFacts
  <2> QED BY <2>1 DEF CoveredTo, SpansOf
<1>3. Cardinality(SpansOf(grants, Len(grants))) = GrantedMinislots(grants)
  <2>1. Len(grants) \in 0 .. Len(grants)
    BY GrantFacts
  <2> QED BY <2>1, GrantsCover
<1> QED BY <1>1, <1>2, <1>3, FS_EmptySet DEF MinislotsPerMap
-----------------------------------------------------------------------------
(* What a MAP's grant has left.                                            *)

\* The events that change what a flow's map state says.  Between them it has a
\* number of bytes left to send, or none is loaded.
ReportsOf(f) == {e \in LoadsDue \cup FramesDue \cup DumpsDue : e.arg.sfid = f}
Idle == -1
Changes(e, before, after) ==
  \/ e.event = "LoadMapState" /\ before = Idle /\ after = e.arg.n /\ after \in Nat \ {0}
  \/ /\ e.event = "SendFrame" /\ before \in Nat /\ after \in Nat
     /\ before = after + MinislotsToBytes(e.arg.n)
  \/ e.event = "DumpGrant" /\ before = 0 /\ after = Idle

\* The events of a list take what is left from `before' to `after', MAP by MAP.
Tracks(p, m, left, list, f, before, after) ==
  /\ Enumerates(p, m, list, ReportsOf(f))
  /\ left[0] = before /\ left[m] = after
  /\ \A k \in 1..m : Changes(list[p[k]], left[k - 1], left[k])
  /\ \A k, l \in 1..m : k < l => list[p[k]].in <= list[p[l]].in
Accounted(list, f, before, after) ==
  \E p, m, left : Tracks(p, m, left, list, f, before, after)

\* An event without effect on the account.
LEMMA AccountedOthers ==
  ASSUME NEW list \in Seq(Events), list # <<>>, NEW f, Head(list) \notin ReportsOf(f),
         NEW x, NEW y, Accounted(list, f, x, y)
  PROVE  Accounted(Tail(list), f, x, y)
<1>1. PICK p, m, left : Tracks(p, m, left, list, f, x, y)
  BY DEF Accounted
<1>2. PICK r : EnumeratesOthers(r, p, m, list, ReportsOf(f))
  <2>1. Enumerates(p, m, list, ReportsOf(f))
    BY <1>1 DEF Tracks
  <2> QED BY <2>1, EnumerateOthers
<1>3. /\ Enumerates(r, m, Tail(list), ReportsOf(f))
      /\ \A k \in 1..m : Tail(list)[r[k]] = list[p[k]]
  BY <1>2 DEF EnumeratesOthers
<1>4. Tracks(r, m, left, Tail(list), f, x, y)
  BY <1>1, <1>3 DEF Tracks
<1> QED BY <1>4 DEF Accounted

\* The event in front changes the account.
LEMMA AccountedFront ==
  ASSUME NEW list \in Seq(Events), list # <<>>, NEW f, Head(list) \in ReportsOf(f),
         NEW x, NEW y, Accounted(list, f, x, y)
  PROVE  \E z : Changes(Head(list), x, z) /\ Accounted(Tail(list), f, z, y)
<1>1. PICK p, m, left : Tracks(p, m, left, list, f, x, y)
  BY DEF Accounted
<1>2. /\ Enumerates(p, m, list, ReportsOf(f)) /\ m \in Nat
      /\ left[0] = x /\ left[m] = y
      /\ \A k \in 1..m : Changes(list[p[k]], left[k - 1], left[k])
      /\ \A k, l \in 1..m : k < l => list[p[k]].in <= list[p[l]].in
  BY <1>1 DEF Tracks, Enumerates
<1>3. m > 0 /\ p[1] = 1 /\ \E r : EnumeratesRest(r, p, m, list, ReportsOf(f))
  BY <1>2, EnumerateRest
<1>4. PICK r : EnumeratesRest(r, p, m, list, ReportsOf(f))
  BY <1>3
<1> DEFINE n == m - 1
           new == [k \in 0..n |-> left[k + 1]]
<1>5. /\ Enumerates(r, n, Tail(list), ReportsOf(f))
      /\ \A k \in 1..n : Tail(list)[r[k]] = list[p[k + 1]]
  BY <1>4 DEF EnumeratesRest
<1>6. Head(list) = list[1] /\ Changes(Head(list), x, left[1])
  <2>1. 1 \in 1..m /\ 1 - 1 = 0 /\ Head(list) = list[1]
    BY <1>2, <1>3, ListFacts
  <2> QED BY <2>1, <1>2, <1>3
<1>7. n \in Nat /\ n + 1 = m /\ \A k \in 0..n : new[k] = left[k + 1]
  BY <1>2, <1>3
<1>8. new[0] = left[1] /\ new[n] = y
  BY <1>2, <1>7
<1>9. ASSUME NEW k \in 1..n PROVE Changes(Tail(list)[r[k]], new[k - 1], new[k])
  <2>1. k + 1 \in 1..m /\ (k + 1) - 1 = k /\ new[k] = left[k + 1] /\ new[k - 1] = left[k]
    BY <1>7
  <2> HIDE DEF new
  <2> QED BY <2>1, <1>2, <1>5
<1>10. ASSUME NEW k \in 1..n, NEW l \in 1..n, k < l
       PROVE  Tail(list)[r[k]].in <= Tail(list)[r[l]].in
  <2>1. k + 1 \in 1..m /\ l + 1 \in 1..m /\ k + 1 < l + 1
    BY <1>7, <1>10
  <2> QED BY <2>1, <1>2, <1>5
<1> HIDE DEF new, n
<1>11. Tracks(r, n, new, Tail(list), f, left[1], y)
  BY <1>5, <1>8, <1>9, <1>10 DEF Tracks
<1>12. Accounted(Tail(list), f, left[1], y)
  BY <1>11 DEF Accounted
<1> QED BY <1>6, <1>12

\* Events behind those of the list go on where the list has ended.
LEMMA AccountedBoth ==
  ASSUME NEW old, NEW new, NEW events, NEW f, NEW x, NEW y, NEW z,
         NEW p, NEW m, NEW before, Tracks(p, m, before, old, f, x, y),
         NEW q, NEW n, NEW after, Tracks(q, n, after, events, f, y, z),
         NEW r, EnumeratesBoth(r, new, p, m, old, q, n, events, ReportsOf(f)),
         \A k \in 1..m, l \in 1..n : old[p[k]].in <= events[q[l]].in
  PROVE  Accounted(new, f, x, z)
<1>1. /\ m \in Nat /\ before[0] = x /\ before[m] = y
      /\ \A k \in 1..m : Changes(old[p[k]], before[k - 1], before[k])
      /\ \A k, l \in 1..m : k < l => old[p[k]].in <= old[p[l]].in
  BY DEF Tracks, Enumerates
<1>2. /\ n \in Nat /\ after[0] = y /\ after[n] = z
      /\ \A k \in 1..n : Changes(events[q[k]], after[k - 1], after[k])
      /\ \A k, l \in 1..n : k < l => events[q[k]].in <= events[q[l]].in
  BY DEF Tracks, Enumerates
<1>3. /\ Enumerates(r, m + n, new, ReportsOf(f))
      /\ \A k \in 1..m : new[r[k]] = old[p[k]]
      /\ \A k \in 1..n : new[r[m + k]] = events[q[k]]
  BY DEF EnumeratesBoth
<1> DEFINE left == [k \in 0 .. m + n |-> IF k <= m THEN before[k] ELSE after[k - m]]
<1>4. /\ \A k \in 0..m : left[k] = before[k]
      /\ \A k \in 0..n : left[m + k] = after[k]
  <2>1. ASSUME NEW k \in 0..m PROVE left[k] = before[k]
    BY <1>1, <1>2
  <2>2. ASSUME NEW k \in 0..n PROVE left[m + k] = after[k]
    <3>1. m + k \in 0 .. m + n /\ (m + k) - m = k /\ (m + k <= m <=> k = 0)
      BY <1>1, <1>2
    <3>2. k = 0 => before[m + k] = after[k]
      BY <1>1, <1>2
    <3> QED BY <3>1, <3>2
  <2> QED BY <2>1, <2>2
<1> HIDE DEF left
<1>5. ASSUME NEW k \in 1 .. m + n
      PROVE  k \in 1..m \/ \E j \in 1..n : k = m + j
  <2>1. CASE k <= m
    BY <1>1, <2>1
  <2>2. CASE ~ (k <= m)
    <3>1. k - m \in 1..n /\ k = m + (k - m)
      BY <1>1, <1>2, <2>2
    <3> QED BY <3>1
  <2> QED BY <2>1, <2>2
<1>6. ASSUME NEW k \in 1 .. m + n PROVE Changes(new[r[k]], left[k - 1], left[k])
  <2>1. CASE k \in 1..m
    <3>1. k - 1 \in 0..m /\ k \in 0..m
      BY <1>1, <2>1
    <3> QED BY <2>1, <3>1, <1>1, <1>3, <1>4
  <2>2. ASSUME NEW j \in 1..n, k = m + j PROVE Changes(new[r[k]], left[k - 1], left[k])
    <3>1. j - 1 \in 0..n /\ j \in 0..n /\ m + (j - 1) = k - 1
      BY <1>1, <1>2, <2>2
    <3>2. left[k] = after[j] /\ left[k - 1] = after[j - 1]
      BY <1>4, <2>2, <3>1
    <3>3. new[r[k]] = events[q[j]]
      BY <1>3, <2>2
    <3> QED BY <3>2, <3>3, <1>2
  <2> QED BY <1>5, <2>1, <2>2
<1>7. ASSUME NEW k \in 1 .. m + n, NEW l \in 1 .. m + n, k < l
      PROVE  new[r[k]].in <= new[r[l]].in
  <2>1. CASE k \in 1..m /\ l \in 1..m
    BY <1>1, <1>3, <1>7, <2>1
  <2>2. CASE k \in 1..m /\ \E j \in 1..n : l = m + j
    BY <1>3, <2>2
  <2>3. CASE (\E j \in 1..n : k = m + j) /\ l \in 1..m
    BY <1>1, <1>2, <1>7, <2>3
  <2>4. CASE (\E j \in 1..n : k = m + j) /\ (\E j \in 1..n : l = m + j)
    <3>1. PICK i \in 1..n, j \in 1..n : k = m + i /\ l = m + j
      BY <2>4
    <3>2. i < j
      BY <1>1, <1>2, <1>7, <3>1
    <3> QED BY <1>2, <1>3, <3>1, <3>2
  <2> QED BY <1>5, <2>1, <2>2, <2>3, <2>4
<1>8. left[0] = x /\ left[m + n] = z
  BY <1>1, <1>2, <1>4
<1>9. Tracks(r, m + n, left, new, f, x, z)
  BY <1>3, <1>6, <1>7, <1>8 DEF Tracks
<1> QED BY <1>9 DEF Accounted

\* One list after the other.
LEMMA AccountedConcat ==
  ASSUME NEW s \in Seq(Events), NEW t \in Seq(Events), NEW f, NEW x, NEW y, NEW z,
         Accounted(s, f, x, y), Accounted(t, f, y, z), NEW time \in Int,
         \A i \in 1 .. Len(s) : s[i] \in ReportsOf(f) => s[i].in <= time,
         \A i \in 1 .. Len(t) : t[i] \in ReportsOf(f) => time <= t[i].in
  PROVE  Accounted(s \o t, f, x, z)
<1>1. PICK p, m, before : Tracks(p, m, before, s, f, x, y)
  BY DEF Accounted
<1>2. PICK q, n, after : Tracks(q, n, after, t, f, y, z)
  BY DEF Accounted
<1>3. Enumerates(p, m, s, ReportsOf(f)) /\ Enumerates(q, n, t, ReportsOf(f))
  BY <1>1, <1>2 DEF Tracks
<1>4. PICK r : EnumeratesBoth(r, s \o t, p, m, s, q, n, t, ReportsOf(f))
  BY <1>3, EnumerateConcat
<1>5. ASSUME NEW k \in 1..m, NEW l \in 1..n PROVE s[p[k]].in <= t[q[l]].in
  <2>1. p[k] \in 1 .. Len(s) /\ s[p[k]] \in ReportsOf(f)
    BY <1>3 DEF Enumerates
  <2>2. q[l] \in 1 .. Len(t) /\ t[q[l]] \in ReportsOf(f)
    BY <1>3 DEF Enumerates
  <2>3. s[p[k]].in \in Nat /\ t[q[l]].in \in Nat
    BY <2>1, <2>2, ListFacts
  <2>4. s[p[k]].in <= time /\ time <= t[q[l]].in
    BY <2>1, <2>2
  <2> QED BY <2>3, <2>4
<1> QED BY <1>1, <1>2, <1>4, <1>5, AccountedBoth

\* One list merged into the other.
LEMMA AccountedMerged ==
  ASSUME NEW old \in Seq(Events), NEW new, NEW events \in Seq(Events), NEW a, NEW b,
         Merged(new, old, events, Len(events), a, b), NEW f, NEW x, NEW y, NEW z,
         Accounted(old, f, x, y), Accounted(events, f, y, z), NEW time \in Int,
         \A i \in 1 .. Len(old) : old[i] \in ReportsOf(f) => old[i].in <= time,
         \A i \in 1 .. Len(events) : events[i] \in ReportsOf(f) => time <= events[i].in
  PROVE  Accounted(new, f, x, z)
<1>1. PICK p, m, before : Tracks(p, m, before, old, f, x, y)
  BY DEF Accounted
<1>2. PICK q, n, after : Tracks(q, n, after, events, f, y, z)
  BY DEF Accounted
<1>3. Enumerates(p, m, old, ReportsOf(f)) /\ Enumerates(q, n, events, ReportsOf(f))
  BY <1>1, <1>2 DEF Tracks
<1>4. ASSUME NEW k \in 1..m, NEW l \in 1..n PROVE old[p[k]].in <= events[q[l]].in
  <2>1. p[k] \in 1 .. Len(old) /\ old[p[k]] \in ReportsOf(f)
    BY <1>3 DEF Enumerates
  <2>2. q[l] \in 1 .. Len(events) /\ events[q[l]] \in ReportsOf(f)
    BY <1>3 DEF Enumerates
  <2>3. old[p[k]].in \in Nat /\ events[q[l]].in \in Nat
    BY <2>1, <2>2, ListFacts
  <2>4. old[p[k]].in <= time /\ time <= events[q[l]].in
    BY <2>1, <2>2
  <2> QED BY <2>3, <2>4
<1>5. \A k, l \in 1..n : k < l => events[q[k]].in <= events[q[l]].in
  BY <1>2 DEF Tracks
<1>6. Len(old) \in Nat /\ Len(events) \in Nat
  BY LenProperties
<1>7. PICK r : EnumeratesBoth(r, new, p, m, old, q, n, events, ReportsOf(f))
  BY <1>3, <1>4, <1>5, <1>6, EnumerateMerged
<1> QED BY <1>1, <1>2, <1>4, <1>7, AccountedBoth

\* Without such an event nothing changes.
LEMMA AccountedNone ==
  ASSUME NEW list \in Seq(Events), NEW f, \A i \in 1 .. Len(list) : list[i] \notin ReportsOf(f),
         NEW x
  PROVE  Accounted(list, f, x, x)
<1> DEFINE none == [k \in 1..0 |-> 0]
           left == [k \in 0..0 |-> x]
<1>1. (~ \E k : k \in 1..0) /\ left[0] = x
  OBVIOUS
<1> HIDE DEF none, left
<1>2. Enumerates(none, 0, list, ReportsOf(f))
  BY <1>1 DEF Enumerates
<1>3. Tracks(none, 0, left, list, f, x, x)
  BY <1>1, <1>2 DEF Tracks
<1> QED BY <1>3 DEF Accounted

\* A single event.
LEMMA AccountedOne ==
  ASSUME NEW f, NEW e \in ReportsOf(f), NEW x, NEW y, Changes(e, x, y)
  PROVE  Accounted(<<e>>, f, x, y)
<1> DEFINE p == [k \in 1..1 |-> 1]
           left == [k \in 0..1 |-> IF k = 0 THEN x ELSE y]
<1>1. /\ p[1] = 1 /\ left[0] = x /\ left[1] = y /\ \A k \in 1..1 : k = 1 /\ k - 1 = 0
      /\ Len(<<e>>) = 1 /\ <<e>>[1] = e
  OBVIOUS
<1> HIDE DEF p, left
<1>2. Enumerates(p, 1, <<e>>, ReportsOf(f))
  BY <1>1 DEF Enumerates
<1>3. ASSUME NEW k \in 1..1 PROVE Changes(<<e>>[p[k]], left[k - 1], left[k])
  <2>1. k = 1 /\ k - 1 = 0
    BY <1>1
  <2> QED BY <2>1, <1>1
<1>4. \A k, l \in 1..1 : k < l => <<e>>[p[k]].in <= <<e>>[p[l]].in
  BY <1>1
<1>5. Tracks(p, 1, left, <<e>>, f, x, y)
  BY <1>1, <1>2, <1>3, <1>4 DEF Tracks
<1> QED BY <1>5 DEF Accounted

\* Time passes.
LEMMA AccountedLater ==
  ASSUME NEW list \in Seq(Events), NEW later \in Seq(Events), Len(later) = Len(list),
         NEW t \in Nat,
         \A i \in 1 .. Len(list) :
           /\ later[i].in = list[i].in - t /\ later[i].event = list[i].event
           /\ later[i].arg = list[i].arg,
         NEW f, NEW x, NEW y, Accounted(list, f, x, y)
  PROVE  Accounted(later, f, x, y)
<1>1. PICK p, m, left : Tracks(p, m, left, list, f, x, y)
  BY DEF Accounted
<1>2. /\ Enumerates(p, m, list, ReportsOf(f))
      /\ left[0] = x /\ left[m] = y
      /\ \A k \in 1..m : Changes(list[p[k]], left[k - 1], left[k])
      /\ \A k, l \in 1..m : k < l => list[p[k]].in <= list[p[l]].in
  BY <1>1 DEF Tracks
<1>3. ASSUME NEW e \in Events
      PROVE  e \in ReportsOf(f)
               <=> e.event \in {"LoadMapState", "SendFrame", "DumpGrant"} /\ e.arg.sfid = f
  <2>1. e.event \in {"LoadMapState", "SendFrame", "DumpGrant"}
          => e \in LoadsDue \cup FramesDue \cup DumpsDue
    BY EventFacts
  <2>2. e \in LoadsDue \cup FramesDue \cup DumpsDue
          => e.event \in {"LoadMapState", "SendFrame", "DumpGrant"}
    BY DEF LoadsDue, FramesDue, DumpsDue, EventsOf
  <2> QED BY <2>1, <2>2 DEF ReportsOf
<1>4. \A i \in 1 .. Len(list) : list[i] \in ReportsOf(f) <=> later[i] \in ReportsOf(f)
  <2>1. \A i \in 1 .. Len(list) : list[i] \in Events /\ later[i] \in Events
    BY ListFacts
  <2> QED BY <1>3, <2>1
<1>5. Enumerates(p, m, later, ReportsOf(f))
  BY <1>2, <1>4, EnumerateSame
<1>6. \A k \in 1..m : p[k] \in 1 .. Len(list)
  BY <1>2 DEF Enumerates
<1>7. \A k \in 1..m : Changes(later[p[k]], left[k - 1], left[k])
  BY <1>2, <1>6 DEF Changes
<1>8. \A k, l \in 1..m : k < l => later[p[k]].in <= later[p[l]].in
  <2> SUFFICES ASSUME NEW k \in 1..m, NEW l \in 1..m, k < l
               PROVE  later[p[k]].in <= later[p[l]].in
    OBVIOUS
  <2>1. list[p[k]].in \in Nat /\ list[p[l]].in \in Nat
    BY <1>6, ListFacts
  <2>2. list[p[k]].in <= list[p[l]].in
    BY <1>2
  <2>3. later[p[k]].in = list[p[k]].in - t /\ later[p[l]].in = list[p[l]].in - t
    BY <1>6
  <2> QED BY <2>1, <2>2, <2>3
<1>9. Tracks(p, m, left, later, f, x, y)
  <2>1. left[0] = x /\ left[m] = y
    BY <1>2
  <2> QED BY <1>5, <1>7, <1>8, <2>1, Zenon DEF Tracks
<1> QED BY <1>9 DEF Accounted

\* The events that change the account come in the order of their times.
LEMMA AccountedInOrder ==
  ASSUME NEW list, NEW f, NEW x, NEW y, Accounted(list, f, x, y),
         NEW i \in 1 .. Len(list), NEW j \in 1 .. Len(list), i < j,
         list[i] \in ReportsOf(f), list[j] \in ReportsOf(f)
  PROVE  list[i].in <= list[j].in
<1>1. PICK p, m, left : Tracks(p, m, left, list, f, x, y)
  BY DEF Accounted
<1>2. /\ Enumerates(p, m, list, ReportsOf(f))
      /\ \A k, l \in 1..m : k < l => list[p[k]].in <= list[p[l]].in
  BY <1>1 DEF Tracks
<1>3. PICK k \in 1..m : i = p[k]
  BY <1>2 DEF Enumerates
<1>4. PICK l \in 1..m : j = p[l]
  BY <1>2 DEF Enumerates
<1>5. m \in Nat /\ (l < k => p[l] < p[k])
  BY <1>2 DEF Enumerates
<1>6. k < l
  BY <1>3, <1>4, <1>5
<1> QED BY <1>2, <1>3, <1>4, <1>6

-----------------------------------------------------------------------------
(* What a MAP's events do to the account.                                  *)

\* When a frame sends, and the bytes that are granted before it.
FrameTime(k) == ProcTicks + k * FrameTicks
GrantedBefore(grants, k) ==
  MinislotsToBytes(Cardinality(CoveredTo(grants, k * MinislotsPerFrame)))

\* Frames follow each other.
LEMMA FrameTimeFacts ==
  ASSUME NEW k \in Nat
  PROVE  FrameTime(k) \in Nat /\ FrameTime(k) <= FrameTime(k + 1)
<1>1. FrameTicks \in Nat /\ ProcTicks \in Nat /\ k + 1 \in Nat
  BY ConstantFacts
<1>2. k * FrameTicks \in Nat
  BY <1>1, ProductFacts
<1>3. (k + 1) * FrameTicks = k * FrameTicks + FrameTicks
  BY <1>1, Z3
<1> DEFINE a == k * FrameTicks
           b == (k + 1) * FrameTicks
<1>4. a \in Nat /\ b = a + FrameTicks
  BY <1>2, <1>3
<1> HIDE DEF a, b
<1>5. ProcTicks + a \in Nat /\ ProcTicks + a <= ProcTicks + b
  BY <1>1, <1>4
<1> QED BY <1>5 DEF FrameTime, a, b

\* Each frame takes its minislots off what was granted, and the last one leaves
\* nothing.
LEMMA GrantedBeforeFacts ==
  ASSUME NEW grants, Placed(grants)
  PROVE  /\ GrantedBefore(grants, 0) = 0
         /\ GrantedBefore(grants, FramesPerMap) = GrantedBytes(grants)
         /\ \A k \in 0..FramesPerMap :
              /\ GrantedBefore(grants, k) \in Nat
              /\ GrantedBytes(grants) - GrantedBefore(grants, k) \in Nat
         /\ \A k \in Nat :
              /\ AllocationInFrame(grants, k) \in Nat
              /\ GrantedBefore(grants, k + 1)
                   = GrantedBefore(grants, k) + MinislotsToBytes(AllocationInFrame(grants, k))
<1> DEFINE C(k) == Cardinality(CoveredTo(grants, k * MinislotsPerFrame))
           n == FramesPerMap
<1>1. n \in Nat /\ Capacity \in Nat /\ MinislotsPerFrame \in Nat
  BY ConstantFacts
<1>2. C(0) = 0 /\ C(n) = GrantedMinislots(grants)
  BY CoveredAll
<1>3. \A k \in Nat : C(k) \in Nat /\ AllocationInFrame(grants, k) \in Nat
                       /\ C(k + 1) = C(k) + AllocationInFrame(grants, k)
  BY FrameCovers
<1>4. \A k : GrantedBefore(grants, k) = MinislotsToBytes(C(k))
  BY DEF GrantedBefore
<1> HIDE DEF C
<1>5. ASSUME NEW k \in Nat
      PROVE  GrantedBefore(grants, k + 1)
               = GrantedBefore(grants, k) + MinislotsToBytes(AllocationInFrame(grants, k))
  <2>1. C(k) \in Nat /\ AllocationInFrame(grants, k) \in Nat
          /\ C(k + 1) = C(k) + AllocationInFrame(grants, k)
    BY <1>3
  <2>2. (C(k) + AllocationInFrame(grants, k)) * Capacity
          = C(k) * Capacity + AllocationInFrame(grants, k) * Capacity
    BY <1>1, <2>1, Z3
  <2> QED BY <1>4, <2>1, <2>2 DEF MinislotsToBytes
<1>6. ASSUME NEW k \in 0..n PROVE k \in Nat /\ C(k) <= C(n)
  <2> DEFINE Below == {i \in 0..n : C(n - i) <= C(n)}
  <2>1. 0 \in Below
    <3>1. n - 0 = n /\ C(n) \in Nat
      BY <1>1, <1>3
    <3> QED BY <3>1, <1>1
  <2>2. ASSUME NEW i \in 1..n, i - 1 \in Below PROVE i \in Below
    <3>1. n - i \in Nat /\ n - (i - 1) = (n - i) + 1 /\ n \in Nat /\ i \in 0..n
      BY <1>1
    <3>2. C(n - i) \in Nat /\ AllocationInFrame(grants, n - i) \in Nat /\ C(n) \in Nat
            /\ C((n - i) + 1) = C(n - i) + AllocationInFrame(grants, n - i)
      BY <1>3, <3>1
    <3>3. C((n - i) + 1) <= C(n)
      BY <2>2, <3>1
    <3> DEFINE u == C(n - i)
               v == C((n - i) + 1)
               w == C(n)
               a == AllocationInFrame(grants, n - i)
    <3>4. u \in Nat /\ a \in Nat /\ w \in Nat /\ v = u + a /\ v <= w
      BY <3>2, <3>3
    <3> HIDE DEF u, v, w, a
    <3>5. u <= w
      BY <3>4
    <3> QED BY <3>1, <3>5 DEF u, w
  <2>3. \A i \in 0..n : i \in Below
    <3> HIDE DEF Below
    <3> QED BY <1>1, <2>1, <2>2, CountUp
  <2>4. n - k \in 0..n /\ n - (n - k) = k /\ k \in Nat
    BY <1>1
  <2> QED BY <2>3, <2>4
<1>7. ASSUME NEW k \in 0..n
      PROVE  /\ GrantedBefore(grants, k) \in Nat
             /\ GrantedBytes(grants) - GrantedBefore(grants, k) \in Nat
  <2>1. C(k) \in Nat /\ C(n) \in Nat /\ C(k) <= C(n)
    BY <1>1, <1>3, <1>6
  <2>2. C(k) * Capacity \in Nat /\ C(n) * Capacity \in Nat /\ C(k) * Capacity <= C(n) * Capacity
    BY <1>1, <2>1, ProductFacts
  <2> DEFINE u == C(k) * Capacity
             v == C(n) * Capacity
  <2>3. u \in Nat /\ v \in Nat /\ u <= v /\ GrantedBefore(grants, k) = u
          /\ GrantedBytes(grants) = v
    BY <1>2, <1>4, <2>2 DEF MinislotsToBytes, GrantedBytes
  <2> HIDE DEF u, v
  <2> QED BY <2>3
<1>8. GrantedBefore(grants, 0) = 0
  BY <1>1, <1>2, <1>4 DEF MinislotsToBytes
<1>9. GrantedBefore(grants, n) = GrantedBytes(grants)
  BY <1>2, <1>4 DEF GrantedBytes
<1> QED BY <1>3, <1>5, <1>7, <1>8, <1>9

\* The frames of a MAP send what it granted.
LEMMA FramesAccounted ==
  ASSUME NEW f \in Flows, NEW grants, Placed(grants), Len(grants) > 0
  PROVE  /\ FrameEvents(f, grants) \in Seq(MadeFor(f)) /\ FrameEvents(f, grants) # <<>>
         /\ Accounted(FrameEvents(f, grants), f, GrantedBytes(grants), 0)
         /\ \A i \in 1 .. Len(FrameEvents(f, grants)) :
              /\ FrameEvents(f, grants)[i] \in ReportsOf(f)
              /\ ProcTicks <= FrameEvents(f, grants)[i].in
              /\ FrameEvents(f, grants)[i].in + 1 \in Interval
<1> DEFINE S == {e \in MadeFor(f) : e.event = "SendFrame" /\ e.in + 1 \in Interval}
           n == FramesPerMap
           total == GrantedBytes(grants)
           event(k) == FlowEvent(ProcTicks + (k - 1) * FrameTicks, "SendFrame", f,
                                 AllocationInFrame(grants, k - 1))
           part(k) == IF AllocationInFrame(grants, k - 1) = 0 THEN <<>> ELSE <<event(k)>>
           parts == [k \in 1..n |-> part(k)]
<1>1. FrameEvents(f, grants) = FlattenSeq(parts)
  BY DEF FrameEvents
<1>2. n \in Nat /\ n > 0
  BY ConstantFacts
<1>3. ASSUME NEW e, e \in S
      PROVE  /\ e \in Events /\ e \in MadeFor(f) /\ e \in ReportsOf(f)
             /\ e.event = "SendFrame" /\ e.in \in Nat /\ ProcTicks <= e.in
             /\ e.in + 1 \in Interval
  <2>1. e \in MadeFor(f) /\ e.event = "SendFrame" /\ e.in + 1 \in Interval
    BY <1>3, Zenon
  <2>2. e \in Events /\ e.arg.sfid = f /\ (OfMap(e) => Counts(e) \in Interval)
    BY <2>1, MadeFacts DEF MadeFor
  <2>3. e \in FramesDue /\ e.in \in Nat
    BY <2>1, <2>2, EventFacts
  <2>4. Counts(e) = e.in /\ Counts(e) \in Interval
    <3>1. Counts(e) = e.in + 0
      BY <2>1 DEF Counts
    <3>2. OfMap(e)
      BY <2>1 DEF OfMap
    <3> QED BY <2>2, <2>3, <3>1, <3>2
  <2>5. ProcTicks <= e.in
    BY <2>4, ConstantFacts, MapIntervalFacts DEF Interval
  <2> QED BY <2>1, <2>2, <2>3, <2>5 DEF ReportsOf
<1>4. ASSUME NEW k \in 1..n
      PROVE  /\ k - 1 \in Nat /\ AllocationInFrame(grants, k - 1) \in Nat
             /\ event(k) \in S /\ event(k).in = FrameTime(k - 1)
             /\ event(k).event = "SendFrame"
             /\ event(k).arg.n = AllocationInFrame(grants, k - 1)
  <2> DEFINE t == (k - 1) * FrameTicks
  <2>1. k - 1 \in 0 .. n - 1 /\ k - 1 \in Nat
    BY <1>2
  <2>2. t \in Nat /\ t + FrameTicks <= MapInterval
    BY <2>1, MapIntervalFacts
  <2> HIDE DEF t
  <2>3. ProcTicks + t \in Nat /\ ProcTicks + t \in Interval /\ (ProcTicks + t) + 1 \in Interval
    BY <2>2, ConstantFacts, MapIntervalFacts DEF Interval
  <2>4. AllocationInFrame(grants, k - 1) \in Nat
    BY <2>1, AllocationFacts
  <2>5. FlowEvent(ProcTicks + t, "SendFrame", f, AllocationInFrame(grants, k - 1)) \in MadeFor(f)
    BY <2>3, <2>4, FlowEventFacts
  <2>6. /\ event(k) \in MadeFor(f) /\ event(k).event = "SendFrame" /\ event(k).in = ProcTicks + t
        /\ event(k).arg.n = AllocationInFrame(grants, k - 1)
    BY <2>5 DEF t, FlowEvent, Event
  <2> HIDE DEF event
  <2>7. event(k) \in S
    BY <2>3, <2>6
  <2> QED BY <2>1, <2>4, <2>6, <2>7 DEF FrameTime, t
<1> HIDE DEF event, S
<1>5. ASSUME NEW k \in 1..n PROVE part(k) \in Seq(S)
  BY <1>4
<1>6. parts \in Seq(Seq(S)) /\ Len(parts) = n /\ \A k \in 1..n : parts[k] = part(k)
  <2> HIDE DEF part, n
  <2>1. parts \in [1..n -> Seq(S)] /\ \A k \in 1..n : parts[k] = part(k)
    BY <1>5
  <2> QED BY <2>1, <1>2, SeqDef, LenProperties
<1> HIDE DEF parts, n
<1>7. PICK F : Flattened(S, parts, n, F) /\ FlattenSeq(parts) = F[n]
  BY <1>2, <1>6, FlattenSteps
<1>8. /\ F[0] = <<>> /\ \A k \in 0..n : F[k] \in Seq(S)
      /\ \A k \in 1..n : F[k] = F[k - 1] \o parts[k]
  BY <1>7 DEF Flattened
<1>9. \A s \in Seq(S) : /\ s \in Seq(Events) /\ Len(s) \in Nat
                        /\ \A i \in 1 .. Len(s) : s[i] \in S
  <2> SUFFICES ASSUME NEW s \in Seq(S)
               PROVE  /\ s \in Seq(Events) /\ Len(s) \in Nat /\ \A i \in 1 .. Len(s) : s[i] \in S
    OBVIOUS
  <2>1. /\ Len(s) \in Nat /\ DOMAIN s = 1 .. Len(s) /\ s \in [1 .. Len(s) -> S]
    BY LenProperties, SeqDef
  <2>2. s \in [1 .. Len(s) -> Events]
    BY <1>3, <2>1
  <2> QED BY <2>1, <2>2, SeqDef
<1> DEFINE Upto(s, k) == \A i \in 1 .. Len(s) : s[i].in <= FrameTime(k)
           Kept == {k \in 0..n : /\ Accounted(F[k], f, total, total - GrantedBefore(grants, k))
                                  /\ Upto(F[k], k)}
<1>10. /\ GrantedBefore(grants, 0) = 0 /\ GrantedBefore(grants, n) = total
       /\ \A k \in 0..n :
            GrantedBefore(grants, k) \in Nat /\ total - GrantedBefore(grants, k) \in Nat
       /\ \A k \in Nat :
            GrantedBefore(grants, k + 1)
              = GrantedBefore(grants, k) + MinislotsToBytes(AllocationInFrame(grants, k))
       /\ total \in Nat
  BY GrantedBeforeFacts, GrantFacts DEF n
<1> HIDE DEF total
<1>11. 0 \in Kept
  <2>1. /\ F[0] \in Seq(Events) /\ ~ \E i : i \in 1 .. Len(F[0])
    BY <1>8, <1>9
  <2>2. Accounted(F[0], f, total, total)
    BY <2>1, AccountedNone
  <2>3. total - GrantedBefore(grants, 0) = total /\ 0 \in 0..n
    BY <1>2, <1>10
  <2> QED BY <2>1, <2>2, <2>3
<1>12. ASSUME NEW k \in 1..n, k - 1 \in Kept PROVE k \in Kept
  <2>1. k - 1 \in 0..n /\ k \in 0..n /\ k - 1 \in Nat /\ (k - 1) + 1 = k
    BY <1>2
  <2> DEFINE a == GrantedBefore(grants, k - 1)
             b == GrantedBefore(grants, k)
             m == AllocationInFrame(grants, k - 1)
             t == FrameTime(k - 1)
  <2>2. /\ a \in Nat /\ b \in Nat /\ total - a \in Nat /\ total - b \in Nat
        /\ b = a + MinislotsToBytes(m)
    BY <1>10, <2>1
  <2>3. m \in Nat /\ MinislotsToBytes(m) \in Nat /\ total - a = (total - b) + MinislotsToBytes(m)
    <3> DEFINE c == MinislotsToBytes(m)
    <3>1. m \in Nat /\ c \in Nat /\ total \in Nat
      BY <1>4, <1>10, MinislotFacts
    <3>2. a \in Nat /\ b \in Nat /\ b = a + c
      BY <2>2
    <3> HIDE DEF a, b, m, c
    <3>3. total - a = (total - b) + c
      BY <3>1, <3>2
    <3> QED BY <3>1, <3>3 DEF c
  <2>4. t \in Nat /\ t <= FrameTime(k) /\ FrameTime(k) \in Nat
    BY <2>1, FrameTimeFacts
  <2>5. Accounted(F[k - 1], f, total, total - a) /\ Upto(F[k - 1], k - 1)
    BY <1>12
  <2>6. F[k - 1] \in Seq(Events) /\ parts[k] \in Seq(Events) /\ F[k] = F[k - 1] \o parts[k]
    BY <1>5, <1>6, <1>8, <1>9, <2>1
  <2>7. /\ Accounted(parts[k], f, total - a, total - b)
        /\ \A i \in 1 .. Len(parts[k]) : parts[k][i].in = t
    <3>1. CASE m = 0
      <4>1. parts[k] = <<>> /\ total - a = total - b
        <5>1. parts[k] = <<>>
          BY <1>6, <3>1
        <5>2. MinislotsToBytes(0) = 0
          BY ConstantFacts DEF MinislotsToBytes
        <5>3. b = a + 0 /\ a \in Nat /\ b \in Nat
          BY <2>2, <3>1, <5>2
        <5> HIDE DEF a, b
        <5>4. a = b
          BY <5>3
        <5> QED BY <5>1, <5>4
      <4>2. ~ \E i : i \in 1 .. Len(parts[k])
        BY <4>1
      <4> QED BY <2>6, <4>1, <4>2, AccountedNone
    <3>2. CASE m # 0
      <4>1. parts[k] = <<event(k)>>
        BY <1>6, <3>2
      <4>2. event(k) \in ReportsOf(f) /\ event(k).event = "SendFrame" /\ event(k).in = t
              /\ event(k).arg.n = m
        BY <1>3, <1>4
      <4>3. Changes(event(k), total - a, total - b)
        BY <2>2, <2>3, <4>2 DEF Changes
      <4> HIDE DEF a, b, m, t
      <4>4. Accounted(<<event(k)>>, f, total - a, total - b)
        BY <4>2, <4>3, AccountedOne
      <4>5. Len(<<event(k)>>) = 1 /\ <<event(k)>>[1] = event(k) /\ \A i \in 1..1 : i = 1
        OBVIOUS
      <4> QED BY <4>1, <4>2, <4>4, <4>5
    <3> QED BY <3>1, <3>2
  <2> HIDE DEF a, b, m, t
  <2>8. Accounted(F[k], f, total, total - b)
    <3>1. \A i \in 1 .. Len(F[k - 1]) : F[k - 1][i] \in ReportsOf(f) => F[k - 1][i].in <= t
      BY <2>5 DEF t
    <3>2. \A i \in 1 .. Len(parts[k]) : parts[k][i] \in ReportsOf(f) => t <= parts[k][i].in
      BY <2>4, <2>7
    <3>3. t \in Int
      BY <2>4
    <3>4. Accounted(F[k - 1] \o parts[k], f, total, total - b)
      BY <2>5, <2>6, <2>7, <3>1, <3>2, <3>3, AccountedConcat
    <3> QED BY <2>6, <3>4
  <2>9. Upto(F[k], k)
    <3> SUFFICES ASSUME NEW i \in 1 .. Len(F[k]) PROVE F[k][i].in <= FrameTime(k)
      OBVIOUS
    <3> DEFINE x == Len(F[k - 1])
               y == Len(parts[k])
    <3>1. x \in Nat /\ y \in Nat /\ i \in 1 .. x + y
      <4>1. Len(F[k]) = x + y
        BY <2>6, ConcatProperties
      <4>2. x \in Nat /\ y \in Nat
        BY <2>6, LenProperties
      <4> QED BY <4>1, <4>2
    <3>2. CASE i <= x
      <4>1. F[k][i] = F[k - 1][i] /\ i \in 1 .. x
        BY <2>6, <3>1, <3>2, ConcatProperties
      <4>2. F[k - 1][i].in <= t /\ F[k - 1][i].in \in Nat
        BY <2>5, <2>6, <4>1, ListFacts DEF t
      <4> QED BY <2>4, <4>1, <4>2
    <3>3. CASE ~ (i <= x)
      <4>1. i - x \in 1 .. y
        <5> HIDE DEF x, y
        <5>1. x \in Nat /\ y \in Nat /\ i \in 1 .. x + y /\ ~ (i <= x)
          BY <3>1, <3>3
        <5> QED BY <5>1
      <4>2. F[k][i] = parts[k][i - x]
        BY <2>6, <3>1, <3>3, ConcatProperties
      <4>3. parts[k][i - x].in = t
        BY <2>7, <4>1
      <4> QED BY <2>4, <4>2, <4>3
    <3> QED BY <3>2, <3>3
  <2> QED BY <2>1, <2>8, <2>9 DEF b
<1>13. \A k \in 0..n : k \in Kept
  <2> HIDE DEF Kept
  <2> QED BY <1>2, <1>11, <1>12, CountUp
<1>14. n \in 0..n /\ total - total = 0
  BY <1>2, <1>10
<1>15. Accounted(F[n], f, total, 0)
  BY <1>10, <1>13, <1>14
<1>16. F[n] # <<>> /\ F[n] \in Seq(S) /\ F[n] = FrameEvents(f, grants)
  BY <1>1, <1>7, <1>8, <1>14, FrameEventsFacts
<1>17. FrameEvents(f, grants) \in Seq(MadeFor(f))
  <2>1. DOMAIN F[n] = 1 .. Len(F[n]) /\ Len(F[n]) \in Nat /\ F[n] \in [1 .. Len(F[n]) -> S]
    BY <1>16, LenProperties, SeqDef
  <2>2. F[n] \in [1 .. Len(F[n]) -> MadeFor(f)]
    BY <1>3, <2>1
  <2> QED BY <1>16, <2>1, <2>2, SeqDef
<1> QED BY <1>3, <1>9, <1>15, <1>16, <1>17 DEF total

\* No event of a list belongs to T.
Avoids(list, T) == \A i \in 1 .. Len(list) : list[i] \notin T

\* What two lists avoid, their concatenation avoids.
LEMMA AvoidsConcat ==
  ASSUME NEW s \in Seq(Events), NEW t \in Seq(Events), NEW T, Avoids(s, T), Avoids(t, T)
  PROVE  s \o t \in Seq(Events) /\ Avoids(s \o t, T)
<1> SUFFICES ASSUME NEW i \in 1 .. Len(s \o t) PROVE (s \o t)[i] \notin T
  BY ConcatProperties DEF Avoids
<1> DEFINE x == Len(s)
           y == Len(t)
<1>1. x \in Nat /\ y \in Nat
  BY LenProperties
<1>2. i \in 1 .. x + y
  BY ConcatProperties
<1>3. CASE i <= x
  <2>1. i \in 1..x
    <3> HIDE DEF x, y
    <3> QED BY <1>1, <1>2, <1>3
  <2>2. (s \o t)[i] = s[i]
    BY <1>2, <1>3, ConcatProperties
  <2> QED BY <2>1, <2>2 DEF Avoids
<1>4. CASE ~ (i <= x)
  <2>1. i - x \in 1..y
    <3> HIDE DEF x, y
    <3> QED BY <1>1, <1>2, <1>4
  <2>2. (s \o t)[i] = t[i - x]
    BY <1>2, <1>4, ConcatProperties
  <2> QED BY <2>1, <2>2 DEF Avoids
<1> QED BY <1>3, <1>4

\* Bursts do not report.
LEMMA BurstsAvoid ==
  ASSUME NEW f \in Flows, NEW grants, Placed(grants), Len(grants) > 0, NEW g
  PROVE  BurstEvents(f, grants) \in Seq(Events) /\ Avoids(BurstEvents(f, grants), ReportsOf(g))
<1> DEFINE n == Len(grants)
           S == {e \in MadeFor(f) : e.event \in {"MakeRequest", "PrepareBurst"}}
           before(i) == GrantTime(grants[i]) - PrepTicks
           pair(i) == <<FlowEvent(before(i), "MakeRequest", f, 0),
                        FlowEvent(before(i), "PrepareBurst", f, grants[i].length)>>
           pairs == [i \in DOMAIN grants |-> pair(i)]
<1>1. /\ n \in Nat /\ n > 0 /\ DOMAIN grants = 1..n
      /\ \A i \in 1..n :
           /\ GrantTime(grants[i]) \in Nat /\ GrantTime(grants[i]) >= ProcTicks
           /\ GrantTime(grants[i]) + FrameTicks <= ProcTicks + MapInterval
  BY GrantFacts
<1>2. BurstEvents(f, grants) = FlattenSeq(pairs)
  BY DEF BurstEvents
<1>3. ASSUME NEW i \in 1..n PROVE pair(i) \in Seq(S)
  <2> DEFINE a == FlowEvent(before(i), "MakeRequest", f, 0)
             b == FlowEvent(before(i), "PrepareBurst", f, grants[i].length)
  <2>1. before(i) \in Nat /\ before(i) + PrepTicks = GrantTime(grants[i])
    BY <1>1, ConstantFacts
  <2>2. GrantTime(grants[i]) \in Interval
    BY <1>1, ConstantFacts, MapIntervalFacts DEF Interval
  <2>3. grants[i].length \in 1..MinislotsPerMap
    BY GrantLength
  <2>4. a.event = "MakeRequest" /\ b.event = "PrepareBurst"
    BY DEF FlowEvent, Event
  <2>5. a \in MadeFor(f)
    BY <2>1, FlowEventFacts
  <2>6. b \in MadeFor(f)
    BY <2>1, <2>2, <2>3, FlowEventFacts
  <2> HIDE DEF a, b
  <2>7. a \in S /\ b \in S
    BY <2>4, <2>5, <2>6
  <2> HIDE DEF S
  <2>8. <<a, b>> \in Seq(S)
    BY <2>7
  <2> QED BY <2>8 DEF a, b
<1>4. pairs \in Seq(Seq(S)) /\ Len(pairs) = n
  <2> HIDE DEF pair, S, n
  <2>1. pairs \in [1..n -> Seq(S)]
    BY <1>1, <1>3
  <2> QED BY <2>1, <1>1, SeqDef, LenProperties
<1>5. FlattenSeq(pairs) \in Seq(S)
  <2> HIDE DEF pairs, S
  <2> QED BY <1>1, <1>4, FlattenFacts
<1>6. \A e \in S : e \in MadeFor(f) /\ e \notin ReportsOf(g)
  BY DEF ReportsOf, LoadsDue, FramesDue, DumpsDue, EventsOf
<1> HIDE DEF pairs, S, n
<1>7. BurstEvents(f, grants) \in Seq(S)
  BY <1>2, <1>5
<1>8. BurstEvents(f, grants) \in Seq(MadeFor(f))
  BY BurstEventsFacts
<1>9. BurstEvents(f, grants) \in Seq(Events)
  BY <1>8, MadeList
<1>10. \A i \in 1 .. Len(BurstEvents(f, grants)) : BurstEvents(f, grants)[i] \in S
  BY <1>7, ElementOfSeq
<1> QED BY <1>6, <1>9, <1>10 DEF Avoids

\* The events of a MAP's grants load what was granted, send it and report it.
LEMMA GrantAccounted ==
  ASSUME NEW f \in Flows, NEW grants, Placed(grants), Len(grants) > 0
  PROVE  Accounted(GrantEvents(f, grants), f, Idle, Idle)
<1> DEFINE bursts == BurstEvents(f, grants)
           total == GrantedBytes(grants)
           load == FlowEvent(ProcTicks, "LoadMapState", f, total)
           frames == FrameEvents(f, grants)
           last == Last(frames).in
           dump == FlowEvent(last + 1, "DumpGrant", f, 0)
           Late(t) == {e \in ReportsOf(f) : ~ (e.in <= t)}
<1>1. GrantEvents(f, grants) = ((bursts \o <<load>>) \o frames) \o <<dump>>
  BY DEF GrantEvents
<1>2. /\ bursts \in Seq(Events) /\ Avoids(bursts, ReportsOf(f))
  BY BurstsAvoid
<1>3. /\ frames \in Seq(MadeFor(f)) /\ frames # <<>> /\ Accounted(frames, f, total, 0)
      /\ \A i \in 1 .. Len(frames) :
           /\ frames[i] \in ReportsOf(f) /\ ProcTicks <= frames[i].in
           /\ frames[i].in + 1 \in Interval
  BY FramesAccounted
<1>4. total \in Nat \ {0}
  <2>1. GrantedBefore(grants, FramesPerMap) = total /\ total \in Nat
    BY GrantedBeforeFacts, GrantFacts
  <2>2. GrantedMinislots(grants) \in Nat \ {0}
    <3>1. PICK P : /\ Sums([i \in DOMAIN grants |-> grants[i].length], P)
                   /\ GrantedMinislots(grants) = P[Len(grants)]
      BY GrantsCover
    <3> DEFINE lengths == [i \in DOMAIN grants |-> grants[i].length]
               n == Len(grants)
    <3>2. /\ n \in Nat /\ n > 0 /\ DOMAIN grants = 1..n
          /\ \A i \in 1..n : grants[i].length \in Nat \ {0}
      BY GrantFacts
    <3>3. Len(lengths) = n /\ lengths[n] = grants[n].length /\ n \in 1..n
      <4>1. lengths \in [1..n -> Nat] /\ n \in 1..n /\ lengths[n] = grants[n].length
        BY <3>2
      <4> HIDE DEF lengths
      <4> QED BY <4>1, <3>2, SeqDef, LenProperties
    <3> HIDE DEF lengths, n
    <3>4. P[n] = P[n - 1] + lengths[n] /\ P[n - 1] \in Nat /\ P[n] \in Nat
      <4>1. n - 1 \in 0..n /\ n \in 0..n
        BY <3>2
      <4> QED BY <3>1, <3>2, <3>3, <4>1 DEF Sums, lengths
    <3>5. lengths[n] \in Nat \ {0}
      BY <3>2, <3>3
    <3>6. P[n] # 0
      BY <3>4, <3>5
    <3> QED BY <3>1, <3>4, <3>6 DEF n
  <2> QED BY <2>2, MinislotFacts DEF GrantedBytes
<1> HIDE DEF total, bursts, frames
<1>5. ProcTicks \in Nat /\ ProcTicks \in Interval
  BY ConstantFacts, MapIntervalFacts DEF Interval
<1>6. load \in Events /\ load \in ReportsOf(f) /\ load.in = ProcTicks
        /\ load.event = "LoadMapState" /\ load.arg.n = total
  <2>1. load \in MadeFor(f)
    BY <1>4, <1>5, FlowEventFacts
  <2>2. load.in = ProcTicks /\ load.event = "LoadMapState" /\ load.arg.n = total
          /\ load.arg.sfid = f
    BY DEF FlowEvent, Event
  <2> HIDE DEF load
  <2>3. load \in Events
    BY <2>1, MadeFacts
  <2> QED BY <2>2, <2>3, EventFacts DEF ReportsOf
<1>7. /\ frames \in Seq(Events) /\ Len(frames) \in Nat \ {0}
      /\ last = frames[Len(frames)].in /\ Len(frames) \in 1 .. Len(frames)
      /\ last \in Nat /\ last + 1 \in Interval /\ ProcTicks <= last
  <2>1. frames \in Seq(Events) /\ Len(frames) \in Nat \ {0}
    BY <1>3, MadeList, EmptySeq
  <2>2. last = frames[Len(frames)].in /\ Len(frames) \in 1 .. Len(frames)
    BY <2>1 DEF Last
  <2>3. last \in Nat
    BY <2>1, <2>2, ListFacts
  <2> QED BY <1>3, <2>1, <2>2, <2>3
<1>8. \A i \in 1 .. Len(frames) : frames[i].in <= last
  <2> SUFFICES ASSUME NEW i \in 1 .. Len(frames) PROVE frames[i].in <= last
    OBVIOUS
  <2>1. CASE i = Len(frames)
    BY <1>7, <2>1
  <2>2. CASE i # Len(frames)
    <3>1. i < Len(frames)
      BY <1>7, <2>2
    <3> QED BY <1>3, <1>7, <3>1, AccountedInOrder
  <2> QED BY <2>1, <2>2
<1> HIDE DEF last
<1>9. dump \in Events /\ dump \in ReportsOf(f) /\ dump.in = last + 1 /\ dump.event = "DumpGrant"
  <2>1. dump \in MadeFor(f)
    <3>1. last + 1 \in Nat
      BY <1>7
    <3> QED BY <1>7, <3>1, FlowEventFacts
  <2>2. dump.in = last + 1 /\ dump.event = "DumpGrant" /\ dump.arg.sfid = f
    BY DEF FlowEvent, Event
  <2> HIDE DEF dump
  <2>3. dump \in Events
    BY <2>1, MadeFacts
  <2> QED BY <2>2, <2>3, EventFacts DEF ReportsOf
<1> HIDE DEF load, dump
<1>10. Idle # 0 /\ Changes(load, Idle, total) /\ Changes(dump, 0, Idle)
  BY <1>4, <1>6, <1>9 DEF Changes, Idle
<1>11. /\ Accounted(<<load>>, f, Idle, total) /\ Accounted(<<dump>>, f, 0, Idle)
       /\ <<load>> \in Seq(Events) /\ <<dump>> \in Seq(Events)
       /\ \A i \in 1 .. Len(<<load>>) : <<load>>[i] = load
       /\ \A i \in 1 .. Len(<<dump>>) : <<dump>>[i] = dump
  <2>1. Accounted(<<load>>, f, Idle, total) /\ Accounted(<<dump>>, f, 0, Idle)
    BY <1>6, <1>9, <1>10, AccountedOne
  <2> QED BY <2>1, <1>6, <1>9
<1>12. Accounted(bursts, f, Idle, Idle)
  BY <1>2, AccountedNone DEF Avoids
<1>13. Accounted(bursts \o <<load>>, f, Idle, total)
  <2>1. \A i \in 1 .. Len(bursts) : bursts[i] \in ReportsOf(f) => bursts[i].in <= ProcTicks
    BY <1>2 DEF Avoids
  <2>2. \A i \in 1 .. Len(<<load>>) : <<load>>[i] \in ReportsOf(f) => ProcTicks <= <<load>>[i].in
    BY <1>5, <1>6, <1>11
  <2>3. ProcTicks \in Int
    BY <1>5
  <2> QED BY <1>2, <1>11, <1>12, <2>1, <2>2, <2>3, AccountedConcat
<1>14. bursts \o <<load>> \in Seq(Events) /\ Avoids(bursts \o <<load>>, Late(ProcTicks))
         /\ Avoids(bursts \o <<load>>, Late(last))
  <2>1. Avoids(bursts, Late(ProcTicks)) /\ Avoids(bursts, Late(last))
    BY <1>2 DEF Avoids
  <2>2. Avoids(<<load>>, Late(ProcTicks)) /\ Avoids(<<load>>, Late(last))
    <3>1. load \notin Late(ProcTicks) /\ load \notin Late(last)
      BY <1>5, <1>6, <1>7
    <3> HIDE DEF Late
    <3> QED BY <3>1, <1>11 DEF Avoids
  <2> HIDE DEF Late
  <2> QED BY <2>1, <2>2, <1>2, <1>11, AvoidsConcat
<1> DEFINE first == bursts \o <<load>>
<1> HIDE DEF first
<1>15. Accounted(first \o frames, f, Idle, 0)
  <2>1. \A i \in 1 .. Len(first) : first[i] \in ReportsOf(f) => first[i].in <= ProcTicks
    BY <1>14 DEF Avoids, first
  <2>2. \A i \in 1 .. Len(frames) : frames[i] \in ReportsOf(f) => ProcTicks <= frames[i].in
    BY <1>3
  <2>3. ProcTicks \in Int
    BY <1>5
  <2>4. first \in Seq(Events) /\ Accounted(first, f, Idle, total)
    BY <1>13, <1>14 DEF first
  <2> QED BY <1>3, <1>7, <2>1, <2>2, <2>3, <2>4, AccountedConcat
<1>16. first \o frames \in Seq(Events) /\ Avoids(first \o frames, Late(last))
  <2>1. Avoids(frames, Late(last))
    BY <1>8 DEF Avoids
  <2>2. first \in Seq(Events) /\ Avoids(first, Late(last))
    BY <1>14 DEF first
  <2> HIDE DEF Late
  <2> QED BY <1>7, <2>1, <2>2, AvoidsConcat
<1> DEFINE sent == first \o frames
<1> HIDE DEF sent
<1>17. Accounted(sent \o <<dump>>, f, Idle, Idle)
  <2>1. \A i \in 1 .. Len(sent) : sent[i] \in ReportsOf(f) => sent[i].in <= last
    BY <1>16 DEF Avoids, sent
  <2>2. \A i \in 1 .. Len(<<dump>>) : <<dump>>[i] \in ReportsOf(f) => last <= <<dump>>[i].in
    BY <1>7, <1>9, <1>11
  <2>3. last \in Int
    BY <1>7
  <2>4. sent \in Seq(Events) /\ Accounted(sent, f, Idle, 0)
    BY <1>15, <1>16 DEF sent
  <2> QED BY <1>11, <2>1, <2>2, <2>3, <2>4, AccountedConcat
<1> QED BY <1>1, <1>17 DEF sent, first

\* Events that report.
LEMMA ReportFacts ==
  ASSUME NEW f, NEW e \in ReportsOf(f)
  PROVE  /\ e \in Events /\ e.arg.sfid = f /\ e.in \in Nat
         /\ e.event \in {"LoadMapState", "SendFrame", "DumpGrant"}
         /\ OfMap(e) /\ Counts(e) = e.in
<1>1. e \in Events /\ e.arg.sfid = f
  BY DEF ReportsOf, Events
<1>2. e.event \in {"LoadMapState", "SendFrame", "DumpGrant"}
  BY DEF ReportsOf, LoadsDue, FramesDue, DumpsDue, EventsOf
<1>3. e.in \in Nat
  BY <1>1, EventFacts
<1>4. Counts(e) = e.in + 0
  BY <1>2 DEF Counts
<1> QED BY <1>1, <1>2, <1>3, <1>4 DEF OfMap

\* What a MAP makes for a flow starts and ends with nothing loaded.
LEMMA FlowAccounted ==
  ASSUME NEW f \in Flows, NEW layout \in Layouts, NEW offset \in RequestOffsets
  PROVE  Accounted(FlowEvents(f, layout, offset), f, Idle, Idle)
<1>1. Placed(layout[f])
  BY LayoutFacts
<1>2. CASE layout[f] # <<>>
  <2>1. Len(layout[f]) > 0
    BY <1>1, <1>2, EmptySeq DEF Placed
  <2>2. FlowEvents(f, layout, offset) = GrantEvents(f, layout[f])
    BY <1>2 DEF FlowEvents
  <2> QED BY <1>1, <2>1, <2>2, GrantAccounted
<1>3. CASE layout[f] = <<>>
  <2> DEFINE e == FlowEvent(ProcTicks + offset, "MakeRequest", f, 0)
  <2>1. FlowEvents(f, layout, offset) = <<e>>
    BY <1>3 DEF FlowEvents, ContentionRequest
  <2>2. FlowEvents(f, layout, offset) \in Seq(Events)
    BY FlowEventsFacts, MadeList
  <2>3. e.event = "MakeRequest"
    BY DEF FlowEvent, Event
  <2>4. e \notin ReportsOf(f)
    BY <2>3, ReportFacts
  <2> HIDE DEF e
  <2>5. \A i \in 1 .. Len(<<e>>) : <<e>>[i] \notin ReportsOf(f)
    BY <2>4
  <2> QED BY <2>1, <2>2, <2>5, AccountedNone
<1> QED BY <1>2, <1>3

\* What a MAP makes for all flows.
LEMMA MadeAccounted ==
  ASSUME NEW made, \A f \in Flows : made[f] \in Seq(MadeFor(f)),
         \A f \in Flows : Accounted(made[f], f, Idle, Idle), NEW f \in Flows
  PROVE  Accounted(InFlowOrder(made), f, Idle, Idle)
<1> DEFINE c == CLASSIC_SFID
           l == LOW_LATENCY_SFID
           end == ProcTicks + MapInterval
<1>1. c \in Flows /\ c # l /\ \A g \in Flows : g \in {c, l}
  BY ConstantFacts
<1>2. end \in Int /\ ProcTicks \in Int
  BY ConstantFacts, MapIntervalFacts
<1> HIDE DEF c, l
<1>3. \A g \in Flows : made[g] \in Seq(Events)
  BY MadeList
<1>4. ASSUME NEW g \in Flows, NEW i \in 1 .. Len(made[g])
      PROVE  /\ g # f => made[g][i] \notin ReportsOf(f)
             /\ made[g][i] \in ReportsOf(f) => ProcTicks <= made[g][i].in /\ made[g][i].in <= end
  <2> DEFINE e == made[g][i]
  <2>1. e \in MadeFor(g)
    BY ElementOfSeq
  <2> HIDE DEF e
  <2>2. e.arg.sfid = g /\ (OfMap(e) => Counts(e) \in Interval)
    BY <2>1 DEF MadeFor
  <2>3. ASSUME e \in ReportsOf(f) PROVE g = f /\ ProcTicks <= e.in /\ e.in <= end
    <3>1. e.arg.sfid = f /\ OfMap(e) /\ Counts(e) = e.in /\ e.in \in Nat
      BY <2>3, ReportFacts
    <3>2. e.in \in Interval
      BY <2>2, <3>1
    <3> QED BY <2>2, <3>1, <3>2, ConstantFacts, MapIntervalFacts DEF Interval
  <2> QED BY <2>3 DEF e
<1>5. ASSUME NEW g \in Flows, g # f PROVE Accounted(made[g], f, Idle, Idle)
  BY <1>3, <1>4, <1>5, AccountedNone
<1> HIDE DEF end
<1>6. CASE l \in Flows
  <2>1. InFlowOrder(made) = made[c] \o made[l]
    BY <1>6 DEF InFlowOrder, c, l
  <2>2. /\ made[c] \in Seq(Events) /\ made[l] \in Seq(Events)
        /\ Accounted(made[c], f, Idle, Idle) /\ Accounted(made[l], f, Idle, Idle)
    BY <1>1, <1>3, <1>5, <1>6
  <2>3. CASE f = c
    <3>1. \A i \in 1 .. Len(made[c]) : made[c][i] \in ReportsOf(f) => made[c][i].in <= end
      BY <1>1, <1>4
    <3>2. \A i \in 1 .. Len(made[l]) : made[l][i] \in ReportsOf(f) => end <= made[l][i].in
      BY <1>1, <1>4, <1>6, <2>3
    <3> QED BY <1>2, <2>1, <2>2, <3>1, <3>2, AccountedConcat
  <2>4. CASE f # c
    <3>1. \A i \in 1 .. Len(made[c]) : made[c][i] \in ReportsOf(f) => made[c][i].in <= ProcTicks
      BY <1>1, <1>4, <2>4
    <3>2. \A i \in 1 .. Len(made[l]) : made[l][i] \in ReportsOf(f) => ProcTicks <= made[l][i].in
      BY <1>4, <1>6
    <3> QED BY <1>2, <2>1, <2>2, <3>1, <3>2, AccountedConcat
  <2> QED BY <2>3, <2>4
<1>7. CASE l \notin Flows
  <2>1. InFlowOrder(made) = made[c] \o <<>>
    BY <1>7 DEF InFlowOrder, c, l
  <2>2. InFlowOrder(made) = made[c]
    BY <1>1, <1>3, <2>1, ConcatEmptySeq
  <2> QED BY <1>1, <1>7, <2>2
<1> QED BY <1>6, <1>7

\* Joined by events without reports.
LEMMA AccountedJoined ==
  ASSUME NEW old \in Seq(Events), Sorted(old), NEW new, NEW events \in Seq(Events),
         NEW a, NEW b, Merged(new, old, events, Len(events), a, b),
         NEW f, Avoids(events, ReportsOf(f)), NEW x, NEW y, Accounted(old, f, x, y)
  PROVE  Accounted(new, f, x, y)
<1> DEFINE n == Len(old)
<1>1. n \in Nat /\ DOMAIN old = 1..n /\ \A i \in 1..n : old[i].in \in Nat
  BY ListFacts
<1>2. \E time \in Int : \A i \in 1..n : old[i].in <= time
  <2>1. CASE n = 0
    <3>1. 0 \in Int /\ ~ \E i : i \in 1..n
      BY <2>1
    <3> QED BY <3>1
  <2>2. CASE n # 0
    <3>1. n \in 1..n
      BY <1>1, <2>2
    <3>2. old[n].in \in Int /\ \A i \in 1..n : old[i].in <= old[n].in
      BY <1>1, <3>1 DEF Sorted
    <3> QED BY <3>2, Zenon
  <2> QED BY <2>1, <2>2
<1>3. PICK time \in Int : \A i \in 1..n : old[i].in <= time
  BY <1>2
<1>4. Accounted(events, f, y, y)
  BY AccountedNone DEF Avoids
<1>5. \A i \in 1 .. Len(old) : old[i] \in ReportsOf(f) => old[i].in <= time
  BY <1>3
<1>6. \A i \in 1 .. Len(events) : events[i] \in ReportsOf(f) => time <= events[i].in
  BY DEF Avoids
<1> QED BY <1>4, <1>5, <1>6, AccountedMerged

-----------------------------------------------------------------------------
(* What the modem reports.                                                 *)

\* What the loaded grant has left, and that the events of the list use it up.
Open(f) ==
  IF mapState[f].granted > 0 THEN mapState[f].granted - mapState[f].unused - usedInMap[f]
                             ELSE Idle
ReportedFor(f) == Accounted(agenda, f, Open(f), Idle)
Reported == \A f \in Flows : ReportedFor(f)

\* The list of events of a state.
LEMMA ReportedList ==
  ASSUME UpstreamInv, NEW name, Due(name)
  PROVE  /\ agenda \in Seq(Events) /\ agenda # <<>> /\ Head(agenda) \in Events
         /\ Sorted(agenda) /\ Spaced(agenda)
         /\ Head(agenda).event = name /\ Rest \in Seq(Events) /\ Sorted(Rest)
         /\ Rest = Tail(agenda)
<1>1. /\ agenda \in Seq(Events) /\ agenda # <<>> /\ Head(agenda) \in Events
      /\ Head(agenda).event = name /\ Agrees(agenda, grantPipeline)
  BY FrontFacts
<1>2. Sorted(agenda) /\ Spaced(agenda)
  BY <1>1 DEF Agrees
<1> QED BY <1>1, <1>2, RestFacts DEF Rest

\* What is left is the same while the map state and its history are.
LEMMA OpenSame ==
  ASSUME NEW f \in Flows, mapState'[f] = mapState[f], usedInMap'[f] = usedInMap[f]
  PROVE  Open(f)' = Open(f)
BY DEF Open

\* A flow to which nothing happens.
LEMMA OthersReported ==
  ASSUME UpstreamInv, NEW name, Due(name), agenda' = Rest, NEW f \in Flows, ReportedFor(f),
         Head(agenda) \notin ReportsOf(f), mapState'[f] = mapState[f],
         usedInMap'[f] = usedInMap[f]
  PROVE  ReportedFor(f)'
<1>1. agenda \in Seq(Events) /\ agenda # <<>> /\ Rest = Tail(agenda)
  BY ReportedList
<1>2. Accounted(agenda, f, Open(f), Idle)
  BY DEF ReportedFor
<1>3. Accounted(Rest, f, Open(f), Idle)
  BY <1>1, <1>2, AccountedOthers
<1>4. Open(f)' = Open(f)
  BY OpenSame
<1> QED BY <1>3, <1>4 DEF ReportedFor

\* LoadMapState, SendFrame and DumpGrant, for the flow they are for: they change
\* the account as their event says.
LEMMA FrontReported ==
  ASSUME UpstreamInv, NEW name \in {"LoadMapState", "SendFrame", "DumpGrant"}, NEW f \in Flows,
         DueFor(name, f), ReportedFor(f)
  PROVE  \E z : Changes(Head(agenda), Open(f), z) /\ Accounted(Rest, f, z, Idle)
<1>1. Due(name) /\ Head(agenda).arg.sfid = f
  BY DEF DueFor
<1>2. /\ agenda \in Seq(Events) /\ agenda # <<>> /\ Head(agenda) \in Events
      /\ Head(agenda).event = name /\ Rest = Tail(agenda)
  BY <1>1, ReportedList
<1>3. Head(agenda) \in ReportsOf(f)
  BY <1>1, <1>2, EventFacts DEF ReportsOf
<1>4. Accounted(agenda, f, Open(f), Idle)
  BY DEF ReportedFor
<1> QED BY <1>2, <1>3, <1>4, AccountedFront

\* A MAP's grant is loaded.
LEMMA LoadReported ==
  ASSUME UpstreamInv, Reported, NEW f \in Flows, LoadMapState(f)
  PROVE  Reported'
<1>1. /\ DueFor("LoadMapState", f) /\ agenda' = Rest
      /\ mapState' = [mapState EXCEPT ![f] = [granted |-> Arg.n, unused |-> 0]]
      /\ usedInMap' = [usedInMap EXCEPT ![f] = 0]
  BY DEF LoadMapState
<1>2. /\ mapState \in [Flows -> [granted : Nat, unused : Nat]] /\ usedInMap \in [Flows -> Nat]
  BY DEF UpstreamInv, CountersTyped
<1>3. Due("LoadMapState") /\ Head(agenda).arg.sfid = f
  BY <1>1 DEF DueFor
<1>4. ReportedFor(f)'
  <2>1. PICK z : Changes(Head(agenda), Open(f), z) /\ Accounted(Rest, f, z, Idle)
    BY <1>1, FrontReported DEF Reported
  <2>2. Head(agenda).event = "LoadMapState"
    BY <1>3, ReportedList
  <2>3. z = Arg.n /\ z \in Nat \ {0}
    BY <2>1, <2>2 DEF Changes, Arg
  <2>4. mapState'[f].granted = Arg.n /\ mapState'[f].unused = 0 /\ usedInMap'[f] = 0
    BY <1>1, <1>2
  <2>5. Open(f)' = z
    BY <2>3, <2>4 DEF Open
  <2> QED BY <1>1, <2>1, <2>5 DEF ReportedFor
<1>5. ASSUME NEW g \in Flows, g # f PROVE ReportedFor(g)'
  <2>1. Head(agenda) \notin ReportsOf(g)
    BY <1>3, <1>5, ReportFacts
  <2>2. mapState'[g] = mapState[g] /\ usedInMap'[g] = usedInMap[g]
    BY <1>1, <1>2, <1>5
  <2> QED BY <1>1, <1>3, <2>1, <2>2, OthersReported DEF Reported
<1> QED BY <1>4, <1>5 DEF Reported

\* A MAP's grant is dumped.
LEMMA DumpReported ==
  ASSUME UpstreamInv, Reported, NEW f \in Flows, DumpGrant(f)
  PROVE  Reported'
<1>1. /\ DueFor("DumpGrant", f) /\ agenda' = Rest
      /\ mapState' = [mapState EXCEPT ![f] = [granted |-> 0, unused |-> 0]]
      /\ usedInMap' = usedInMap
  BY DEF DumpGrant
<1>2. /\ mapState \in [Flows -> [granted : Nat, unused : Nat]] /\ usedInMap \in [Flows -> Nat]
  BY DEF UpstreamInv, CountersTyped
<1>3. Due("DumpGrant") /\ Head(agenda).arg.sfid = f
  BY <1>1 DEF DueFor
<1>4. ReportedFor(f)'
  <2>1. PICK z : Changes(Head(agenda), Open(f), z) /\ Accounted(Rest, f, z, Idle)
    BY <1>1, FrontReported DEF Reported
  <2>2. Head(agenda).event = "DumpGrant"
    BY <1>3, ReportedList
  <2>3. z = Idle
    BY <2>1, <2>2 DEF Changes
  <2>4. mapState'[f].granted = 0
    BY <1>1, <1>2
  <2>5. Open(f)' = z
    BY <2>3, <2>4 DEF Open, Idle
  <2> QED BY <1>1, <2>1, <2>5 DEF ReportedFor
<1>5. ASSUME NEW g \in Flows, g # f PROVE ReportedFor(g)'
  <2>1. Head(agenda) \notin ReportsOf(g)
    BY <1>3, <1>5, ReportFacts
  <2>2. mapState'[g] = mapState[g] /\ usedInMap'[g] = usedInMap[g]
    BY <1>1, <1>2, <1>5
  <2> QED BY <1>1, <1>3, <2>1, <2>2, OthersReported DEF Reported
<1> QED BY <1>4, <1>5 DEF Reported

\* A frame's minislots are all accounted for, as used or as unused.
LEMMA SendReported ==
  ASSUME UpstreamInv, Reported, NEW f \in Flows, SendFrame(f), UpstreamInv'
  PROVE  Reported'
<1> DEFINE allocated == MinislotsToBytes(Arg.n)
           toSend == Min({allocated, GetEligible(transmitPipeline[f])})
           used == Min({toSend, DeviceBytes(f)})
<1>1. /\ DueFor("SendFrame", f) /\ agenda' = Rest /\ SendFrameFrom(f, allocated)
  BY DEF SendFrame, SendFrameFromCQueue, SendFrameFromLQueue
<1>2. /\ mapState' = [mapState EXCEPT ![f].unused = @ + (allocated - used)]
      /\ usedInMap' = [usedInMap EXCEPT ![f] = @ + used]
  BY <1>1 DEF SendFrameFrom, Unused
<1>3. /\ mapState \in [Flows -> [granted : Nat, unused : Nat]] /\ usedInMap \in [Flows -> Nat]
      /\ mapState' \in [Flows -> [granted : Nat, unused : Nat]] /\ usedInMap' \in [Flows -> Nat]
  BY DEF UpstreamInv, CountersTyped
<1>4. Due("SendFrame") /\ Head(agenda).arg.sfid = f
  BY <1>1 DEF DueFor
<1>5. allocated \in Nat /\ used \in Int
  <2>1. Head(agenda) \in FramesDue
    BY <1>4, ReportedList, EventFacts
  <2>2. Arg.n \in Nat
    BY <2>1 DEF FramesDue, EventsOf, FlowArgs, Arg
  <2>3. allocated \in Nat
    BY <2>2, MinislotFacts
  <2>4. transmitPipeline[f] \in Seq(Grants) /\ DeviceBytes(f) \in Nat
    BY BytesFacts DEF UpstreamInv, QueuesTyped
  <2>5. GetEligible(transmitPipeline[f]) \in Nat
    BY <2>4, TotalFacts
  <2>6. toSend \in Int
    <3>1. allocated \in Int /\ GetEligible(transmitPipeline[f]) \in Int
      BY <2>3, <2>5
    <3> HIDE DEF allocated
    <3>2. toSend \in {allocated, GetEligible(transmitPipeline[f])}
      BY <3>1, MinOfTwo
    <3> QED BY <3>1, <3>2
  <2>7. used \in Int
    <3>1. toSend \in Int /\ DeviceBytes(f) \in Int
      BY <2>4, <2>6
    <3> HIDE DEF toSend
    <3>2. used \in {toSend, DeviceBytes(f)}
      BY <3>1, MinOfTwo
    <3> QED BY <3>1, <3>2
  <2> QED BY <2>3, <2>7
<1> HIDE DEF used
<1>6. ReportedFor(f)'
  <2>1. PICK z : Changes(Head(agenda), Open(f), z) /\ Accounted(Rest, f, z, Idle)
    BY <1>1, FrontReported DEF Reported
  <2>2. Head(agenda).event = "SendFrame"
    BY <1>4, ReportedList
  <2>3. z \in Nat /\ Open(f) \in Nat /\ Open(f) = z + allocated
    BY <2>1, <2>2 DEF Changes, Arg
  <2>4. /\ mapState'[f].granted = mapState[f].granted
        /\ mapState'[f].unused = mapState[f].unused + (allocated - used)
        /\ usedInMap'[f] = usedInMap[f] + used
    <3> DEFINE s == mapState[f]
               b == allocated - used
    <3>1. mapState'[f] = [s EXCEPT !.unused = @ + b] /\ usedInMap'[f] = usedInMap[f] + used
      BY <1>2, <1>3
    <3>2. s \in [granted : Nat, unused : Nat]
      BY <1>3
    <3> HIDE DEF s, b
    <3>3. [s EXCEPT !.unused = @ + b] = [granted |-> s.granted, unused |-> s.unused + b]
      BY <3>2
    <3>4. mapState'[f].granted = s.granted /\ mapState'[f].unused = s.unused + b
      BY <3>1, <3>3
    <3> QED BY <3>1, <3>4 DEF s, b
  <2>5. mapState[f].granted > 0 /\ Open(f) = mapState[f].granted - mapState[f].unused - usedInMap[f]
    BY <2>3 DEF Open, Idle
  <2>6. /\ mapState[f].granted \in Nat /\ mapState[f].unused \in Nat /\ usedInMap[f] \in Nat
    BY <1>3
  <2>7. Open(f)' = mapState'[f].granted - mapState'[f].unused - usedInMap'[f]
    BY <2>4, <2>5 DEF Open
  <2> HIDE DEF allocated
  <2>8. Open(f)' = z
    <3> DEFINE g == mapState[f].granted
               u == mapState[f].unused
               m == usedInMap[f]
               o == Open(f)
    <3>1. /\ g \in Nat /\ u \in Nat /\ m \in Nat /\ z \in Nat /\ allocated \in Nat /\ used \in Int
          /\ o = z + allocated /\ o = g - u - m
      BY <1>5, <2>3, <2>5, <2>6
    <3>2. Open(f)' = g - (u + (allocated - used)) - (m + used)
      BY <2>4, <2>7
    <3> HIDE DEF g, u, m, o
    <3>3. g - (u + (allocated - used)) - (m + used) = z
      BY <3>1
    <3> QED BY <3>2, <3>3
  <2> QED BY <1>1, <2>1, <2>8 DEF ReportedFor
<1>7. ASSUME NEW g \in Flows, g # f PROVE ReportedFor(g)'
  <2>1. Head(agenda) \notin ReportsOf(g)
    BY <1>4, <1>7, ReportFacts
  <2>2. mapState'[g] = mapState[g] /\ usedInMap'[g] = usedInMap[g]
    BY <1>2, <1>3, <1>7
  <2> QED BY <1>1, <1>4, <2>1, <2>2, OthersReported DEF Reported
<1> QED BY <1>6, <1>7 DEF Reported

\* Time brings the events nearer and changes nothing else.
LEMMA TimeReported ==
  ASSUME UpstreamInv, Reported, AdvanceTime
  PROVE  Reported'
<1> DEFINE t == Head(agenda).in
<1>1. /\ agenda # <<>> /\ agenda' = Later(agenda, t)
      /\ mapState' = mapState /\ usedInMap' = usedInMap
  BY DEF AdvanceTime
<1>2. agenda \in Seq(Events) /\ Sorted(agenda) /\ Spaced(agenda)
  BY DEF UpstreamInv, AgendaInv, Agrees
<1>3. /\ t \in Nat /\ agenda' \in Seq(Events) /\ Len(agenda') = Len(agenda)
      /\ \A i \in 1 .. Len(agenda) :
           /\ agenda'[i].in = agenda[i].in - t /\ agenda'[i].event = agenda[i].event
           /\ agenda'[i].arg = agenda[i].arg
  BY <1>1, <1>2, LaterList
<1> HIDE DEF t
<1>4. ASSUME NEW f \in Flows PROVE ReportedFor(f)'
  <2>1. Accounted(agenda, f, Open(f), Idle)
    BY DEF Reported, ReportedFor
  <2>2. Accounted(agenda', f, Open(f), Idle)
    BY <1>2, <1>3, <2>1, AccountedLater
  <2>3. Open(f)' = Open(f)
    BY <1>1, OpenSame
  <2> QED BY <2>2, <2>3 DEF ReportedFor
<1> QED BY <1>4 DEF Reported

\* Events that do not report join the list.
LEMMA JoinReported ==
  ASSUME UpstreamInv, Reported, NEW name, Due(name),
         name \notin {"LoadMapState", "SendFrame", "DumpGrant"},
         mapState' = mapState, usedInMap' = usedInMap,
         NEW events \in Seq(Events), NEW a, NEW b,
         Merged(agenda', Rest, events, Len(events), a, b),
         \A f \in Flows : Avoids(events, ReportsOf(f))
  PROVE  Reported'
<1>1. /\ agenda \in Seq(Events) /\ agenda # <<>> /\ Head(agenda).event = name
      /\ Rest \in Seq(Events) /\ Sorted(Rest) /\ Rest = Tail(agenda)
  BY ReportedList
<1>2. ASSUME NEW f \in Flows PROVE ReportedFor(f)'
  <2>1. Accounted(agenda, f, Open(f), Idle)
    BY DEF Reported, ReportedFor
  <2>2. Head(agenda) \notin ReportsOf(f)
    BY <1>1, ReportFacts
  <2>3. Accounted(Rest, f, Open(f), Idle)
    BY <1>1, <2>1, <2>2, AccountedOthers
  <2>4. Accounted(agenda', f, Open(f), Idle)
    BY <1>1, <2>3, AccountedJoined
  <2>5. Open(f)' = Open(f)
    BY OpenSame
  <2> QED BY <2>4, <2>5 DEF ReportedFor
<1> QED BY <1>2 DEF Reported

\* Events that do not report leave the list.
LEMMA LeaveReported ==
  ASSUME UpstreamInv, Reported, NEW name, Due(name),
         name \notin {"LoadMapState", "SendFrame", "DumpGrant"},
         mapState' = mapState, usedInMap' = usedInMap, agenda' = Rest
  PROVE  Reported'
<1>1. Head(agenda).event = name
  BY ReportedList
<1>2. ASSUME NEW f \in Flows PROVE ReportedFor(f)'
  <2>1. Head(agenda) \notin ReportsOf(f)
    BY <1>1, ReportFacts
  <2> QED BY <2>1, OthersReported DEF Reported
<1> QED BY <1>2 DEF Reported

\* A request on its way.
LEMMA RequestReported ==
  ASSUME UpstreamInv, Reported, NEW f \in Flows, Due("MakeRequest"),
         NEW bytes \in 0..MaxUnsent, SendRequest(f, bytes),
         mapState' = mapState, usedInMap' = usedInMap
  PROVE  Reported'
<1> DEFINE event == FlowEvent(RequestTicks, "ReceiveRequest", f, bytes)
<1>1. event \in Events /\ event.event = "ReceiveRequest"
  BY ConstantFacts DEF FlowEvent, Event, Events, RequestsSent, EventsOf, FlowArgs
<1>2. agenda' = Schedule(Rest, event)
  BY DEF SendRequest
<1> HIDE DEF event
<1>3. Rest \in Seq(Events) /\ Sorted(Rest)
  BY ReportedList
<1>4. PICK a, b : Merged(Schedule(Rest, event), Rest, <<event>>, 1, a, b)
  BY <1>1, <1>3, ScheduleMerges
<1>5. /\ Len(<<event>>) = 1 /\ <<event>> \in Seq(Events)
      /\ \A j \in 1..1 : <<event>>[j] = event
  BY <1>1
<1>6. Merged(agenda', Rest, <<event>>, Len(<<event>>), a, b)
  BY <1>2, <1>4, <1>5
<1>7. ASSUME NEW g PROVE event \notin ReportsOf(g)
  BY <1>1, ReportFacts
<1>8. \A g \in Flows : Avoids(<<event>>, ReportsOf(g))
  BY <1>5, <1>7 DEF Avoids
<1>9. "MakeRequest" \notin {"LoadMapState", "SendFrame", "DumpGrant"}
  OBVIOUS
<1> QED BY <1>5, <1>6, <1>8, <1>9, JoinReported

\* MakeRequest.
LEMMA MakeRequestReported ==
  ASSUME UpstreamInv, Reported, NEW f \in Flows, MakeRequest(f)
  PROVE  Reported'
<1>1. Due("MakeRequest") /\ mapState' = mapState /\ usedInMap' = usedInMap
  BY DEF MakeRequest, DueFor
<1>2. CountersTyped
  BY DEF UpstreamInv
<1>3. CASE NothingToRequest(f)
  <2>1. agenda' = Rest
    BY <1>3 DEF NothingToRequest
  <2>2. "MakeRequest" \notin {"LoadMapState", "SendFrame", "DumpGrant"}
    OBVIOUS
  <2> QED BY <1>1, <2>1, <2>2, LeaveReported
<1>4. CASE f = CLASSIC_SFID /\ MakeClassicRequest
  <2>1. NewRequest(f) > 0 /\ NewRequest(f) \in 0..MaxUnsent /\ NewRequest(f) \in Nat
    BY <1>4, AskedBytes DEF MakeClassicRequest
  <2>2. CASE SendRequest(CLASSIC_SFID, NewRequest(CLASSIC_SFID))
    BY <1>1, <1>4, <2>1, <2>2, RequestReported
  <2>3. CASE Rate # 0 /\ SendRequest(CLASSIC_SFID, ShapeRequest(NewRequest(CLASSIC_SFID))[1])
    <3> DEFINE shaped == ShapeRequest(NewRequest(f))
    <3>1. shaped[1] \in 0..NewRequest(f)
      BY <1>2, <2>1, <2>3, ShapedFacts
    <3>2. SendRequest(f, shaped[1])
      BY <1>4, <2>3
    <3> HIDE DEF shaped
    <3>3. shaped[1] \in 0..MaxUnsent
      BY <2>1, <3>1, ConstantFacts
    <3> QED BY <1>1, <3>2, <3>3, RequestReported
  <2> QED BY <1>4, <2>2, <2>3 DEF MakeClassicRequest
<1>5. CASE f = LOW_LATENCY_SFID /\ MakeLowLatencyRequest
  <2>1. NewRequest(f) \in 0..MaxUnsent
    BY <1>5, AskedBytes DEF MakeLowLatencyRequest
  <2>2. SendRequest(f, NewRequest(f))
    BY <1>5 DEF MakeLowLatencyRequest
  <2> QED BY <1>1, <2>1, <2>2, RequestReported
<1> QED BY <1>3, <1>4, <1>5 DEF MakeRequest

\* A MAP is made.
LEMMA MapMadeReported ==
  ASSUME UpstreamInv, Reported, NEW layout \in Layouts, GenerateMap(layout)
  PROVE  Reported'
<1> DEFINE sent == Event(MapTicks, "HandleMapMsg", layout)
           next == Event(MapInterval, "GenerateMap", 0)
           events == <<sent, next>>
<1>1. /\ Due("GenerateMap") /\ mapState' = mapState /\ usedInMap' = usedInMap
      /\ agenda' = ScheduleAll(Rest, events)
  BY DEF GenerateMap
<1>2. /\ sent.event = "HandleMapMsg" /\ next.event = "GenerateMap"
      /\ \A i \in 1 .. Len(events) : events[i] = sent \/ events[i] = next
  <2>1. events[1] = sent /\ events[2] = next /\ Len(events) = 2
    OBVIOUS
  <2>2. sent.event = "HandleMapMsg" /\ next.event = "GenerateMap"
    BY DEF Event
  <2> QED BY <2>1, <2>2
<1> HIDE DEF sent, next
<1>3. events \in Seq(Events) /\ Timed(events)
  BY ConstantFacts, MapEvents DEF sent, next
<1> HIDE DEF events
<1>4. Rest \in Seq(Events) /\ Sorted(Rest) /\ Timed(Rest)
  BY <1>1, ReportedList, ListFacts
<1>5. PICK a, b : Merged(agenda', Rest, events, Len(events), a, b)
  BY <1>1, <1>3, <1>4, ScheduleAllMerges
<1>6. ASSUME NEW g PROVE sent \notin ReportsOf(g) /\ next \notin ReportsOf(g)
  BY <1>2, ReportFacts
<1>7. \A g \in Flows : Avoids(events, ReportsOf(g))
  BY <1>2, <1>6 DEF Avoids
<1>8. "GenerateMap" \notin {"LoadMapState", "SendFrame", "DumpGrant"}
  OBVIOUS
<1> QED BY <1>1, <1>3, <1>5, <1>7, <1>8, JoinReported

\* A MAP is handled: its reports come behind those of earlier MAPs.
LEMMA MapHandledReported ==
  ASSUME UpstreamInv, Reported, HandleMapMsg
  PROVE  Reported'
<1> DEFINE layout == Arg
<1>1. Due("HandleMapMsg") /\ mapState' = mapState /\ usedInMap' = usedInMap
  BY DEF HandleMapMsg
<1>2. PICK offset \in [Flows -> RequestOffsets] :
        agenda' = ScheduleAll(Rest,
                    InFlowOrder([f \in Flows |-> FlowEvents(f, layout, offset[f])]))
  BY DEF HandleMapMsg
<1> DEFINE made == [f \in Flows |-> FlowEvents(f, layout, offset[f])]
           events == InFlowOrder(made)
           added == [f \in Flows |-> Pipelined(layout[f])]
<1>3. /\ agenda \in Seq(Events) /\ agenda # <<>> /\ Head(agenda) \in Events
      /\ Sorted(agenda) /\ Spaced(agenda) /\ Head(agenda).event = "HandleMapMsg"
      /\ Rest \in Seq(Events) /\ Sorted(Rest) /\ Rest = Tail(agenda)
  BY <1>1, ReportedList
<1>4. layout \in Layouts
  <2>1. Head(agenda) \in MapsSent
    BY <1>3, EventFacts
  <2> QED BY <2>1 DEF MapsSent, EventsOf, Arg
<1> HIDE DEF layout
<1>5. ASSUME NEW f \in Flows
      PROVE  /\ made[f] \in Seq(MadeFor(f)) /\ Accounted(made[f], f, Idle, Idle)
             /\ added[f] \in Seq(Grants) /\ Aligned(added[f], made[f], f)
  <2>1. /\ FlowEvents(f, layout, offset[f]) \in Seq(MadeFor(f))
        /\ Accounted(FlowEvents(f, layout, offset[f]), f, Idle, Idle)
        /\ Aligned(Pipelined(layout[f]), FlowEvents(f, layout, offset[f]), f)
    BY <1>4, FlowEventsFacts, FlowAccounted
  <2>2. Pipelined(layout[f]) \in Seq(Grants)
    BY <1>4, LayoutFacts, PipelinedFacts
  <2> QED BY <2>1, <2>2
<1> HIDE DEF made, added
<1>6. events \in Seq(Made) /\ events \in Seq(Events)
  BY <1>5, InFlowOrderFacts
<1>7. ASSUME NEW f \in Flows PROVE Accounted(events, f, Idle, Idle)
  BY <1>5, MadeAccounted
<1> HIDE DEF events
<1>8. Timed(Rest) /\ Timed(events)
  BY <1>3, <1>6, ListFacts
<1>9. PICK a, b : Merged(agenda', Rest, events, Len(events), a, b)
  <2>1. agenda' = ScheduleAll(Rest, events)
    BY <1>2 DEF events, made
  <2> QED BY <1>3, <1>6, <1>8, <2>1, ScheduleAllMerges
<1>10. ASSUME NEW f \in Flows PROVE ReportedFor(f)'
  <2>1. Accounted(agenda, f, Open(f), Idle)
    BY DEF Reported, ReportedFor
  <2>2. Head(agenda) \notin ReportsOf(f)
    BY <1>3, ReportFacts
  <2>3. Accounted(Rest, f, Open(f), Idle)
    BY <1>3, <2>1, <2>2, AccountedOthers
  <2>4. ASSUME NEW i \in 1 .. Len(Rest), Rest[i] \in ReportsOf(f) PROVE Rest[i].in <= ProcTicks
    <3> DEFINE e == Rest[i]
    <3>1. Apart(e, Head(agenda))
      BY <1>3, RestFacts
    <3>2. OfMap(e) /\ Counts(e) = e.in /\ e.in \in Nat
      BY <2>4, ReportFacts
    <3> HIDE DEF e
    <3>3. ToCome(Head(agenda)) /\ Begins(Head(agenda)) = ProcTicks
      <4>1. Head(agenda).in = 0
        BY <1>1, FrontFacts
      <4> QED BY <1>3, <4>1, ConstantFacts DEF ToCome, Begins
    <3>4. e.in < ProcTicks
      BY <3>1, <3>2, <3>3 DEF Apart
    <3> QED BY <3>2, <3>4, ConstantFacts DEF e
  <2>5. ASSUME NEW i \in 1 .. Len(events), events[i] \in ReportsOf(f) PROVE ProcTicks <= events[i].in
    <3> DEFINE e == events[i]
    <3>1. e \in Made
      BY <1>6, ElementOfSeq
    <3>2. OfMap(e) /\ Counts(e) = e.in /\ e.in \in Nat
      BY <2>5, ReportFacts
    <3> HIDE DEF e
    <3>3. e.in \in Interval
      BY <3>1, <3>2, MadeFacts DEF Made
    <3> QED BY <3>2, <3>3, ConstantFacts, MapIntervalFacts DEF Interval, e
  <2>6. ProcTicks \in Int
    BY ConstantFacts
  <2>7. Accounted(agenda', f, Open(f), Idle)
    BY <1>3, <1>6, <1>7, <1>9, <2>3, <2>4, <2>5, <2>6, AccountedMerged
  <2>8. Open(f)' = Open(f)
    BY <1>1, OpenSame
  <2> QED BY <2>7, <2>8 DEF ReportedFor
<1> QED BY <1>10 DEF Reported

\* Nothing is loaded at the start, and nothing reports.
LEMMA StartReported == Init => Reported
<1> SUFFICES ASSUME Init, NEW f \in Flows PROVE ReportedFor(f)
  BY DEF Reported
<1> DEFINE first == Event(FirstGenerateMap, "GenerateMap", 0)
<1>1. PICK offset \in [Flows -> [1..StartupMaps -> RequestOffsets]] :
        agenda = ScheduleAll(<<first>>,
                   InFlowOrder([g \in Flows |-> StartupRequests(g, offset[g])]))
  BY DEF Init
<1> DEFINE made == [g \in Flows |-> StartupRequests(g, offset[g])]
           events == InFlowOrder(made)
<1>2. first \in Events /\ first.in \in Nat /\ first.event = "GenerateMap"
  BY MapIntervalFacts DEF Event, Events, MapsMade, EventsOf
<1> HIDE DEF first
<1>3. <<first>> \in Seq(Events) /\ Len(<<first>>) = 1 /\ \A i \in 1..1 : <<first>>[i] = first
  BY <1>2
<1>4. DOMAIN <<first>> = 1..1 /\ Timed(<<first>>)
  BY <1>3, LenProperties, ListFacts
<1>5. Sorted(<<first>>)
  <2>1. \A i \in 1..1 : i = 1
    OBVIOUS
  <2> QED BY <2>1, <1>2, <1>3, <1>4 DEF Sorted
<1>6. /\ events \in Seq(Events)
      /\ \A j \in 1 .. Len(events) : events[j] \in RequestsDue
  BY StartupList
<1>7. agenda = ScheduleAll(<<first>>, events)
  BY <1>1
<1> HIDE DEF made, events
<1>8. PICK a, b : Merged(agenda, <<first>>, events, Len(events), a, b)
  BY <1>3, <1>4, <1>5, <1>6, <1>7, ListFacts, ScheduleAllMerges
<1>9. first \notin ReportsOf(f) /\ Avoids(events, ReportsOf(f))
  <2>1. \A e \in RequestsDue : e.event = "MakeRequest"
    BY DEF RequestsDue, EventsOf
  <2>2. \A j \in 1 .. Len(events) : events[j].event = "MakeRequest"
    BY <1>6, <2>1
  <2>3. \A e : e \in ReportsOf(f) => e.event # "GenerateMap" /\ e.event # "MakeRequest"
    BY ReportFacts
  <2> QED BY <1>2, <2>2, <2>3 DEF Avoids
<1>10. Accounted(<<first>>, f, Idle, Idle)
  BY <1>3, <1>9, AccountedNone
<1>11. Accounted(agenda, f, Idle, Idle)
  BY <1>3, <1>5, <1>6, <1>8, <1>9, <1>10, AccountedJoined
<1>12. Open(f) = Idle
  <2>1. mapState[f].granted = 0
    BY DEF Init, ForAllFlows
  <2> QED BY <2>1 DEF Open
<1> QED BY <1>11, <1>12 DEF ReportedFor

\* Every step keeps the account.
LEMMA StepReported == UpstreamInv /\ UpstreamInv' /\ Reported /\ [Next]_vars => Reported'
<1> SUFFICES ASSUME UpstreamInv, UpstreamInv', Reported, [Next]_vars PROVE Reported'
  OBVIOUS
<1>1. ASSUME mapState' = mapState, usedInMap' = usedInMap, agenda' = agenda PROVE Reported'
  BY <1>1 DEF Reported, ReportedFor, Open
<1>2. CASE UNCHANGED vars
  BY <1>1, <1>2 DEF vars
<1>3. CASE AdvanceTime
  BY <1>3, TimeReported
<1>4. ASSUME NEW layout \in Layouts, GenerateMap(layout) PROVE Reported'
  BY <1>4, MapMadeReported
<1>5. CASE HandleMapMsg
  BY <1>5, MapHandledReported
<1>6. ASSUME NEW f \in Flows, FlowStep(f) PROVE Reported'
  <2>1. ASSUME NEW name \in {"ReceiveRequest", "PrepareBurst"}, Due(name), agenda' = Rest,
               mapState' = mapState, usedInMap' = usedInMap
        PROVE  Reported'
    BY <2>1, LeaveReported
  <2>2. CASE ReceiveRequest(f)
    BY <2>1, <2>2 DEF ReceiveRequest, DueFor
  <2>3. CASE PrepareBurst(f)
    BY <2>1, <2>3 DEF PrepareBurst, DueFor
  <2> QED BY <1>6, <2>2, <2>3, MakeRequestReported, LoadReported, SendReported, DumpReported
          DEF FlowStep
<1>7. ASSUME NEW f \in Flows, NEW size \in Sizes, SendFrom(f, size) PROVE Reported'
  BY <1>1, <1>7 DEF SendFrom
<1> QED BY <1>2, <1>3, <1>4, <1>5, <1>6, <1>7 DEF Next, Simulate

\* What a MAP's grant has left when its frames are done is nothing: the bytes a
\* DumpGrant reports as used are those its frames sent, though the next MAP's
\* events are in the list by then and all MAPs share one map state.
THEOREM GrantReportsExact == Spec => []GrantReportExact
<1>1. UpstreamInv /\ Reported => GrantReportExact
  <2> SUFFICES ASSUME UpstreamInv, Reported, NEW f \in Flows, DueFor("DumpGrant", f)
               PROVE  /\ mapState[f].granted > 0
                      /\ mapState[f].granted - mapState[f].unused = usedInMap[f]
    BY DEF GrantReportExact
  <2>1. PICK z : Changes(Head(agenda), Open(f), z)
    BY FrontReported DEF Reported
  <2>2. Head(agenda).event = "DumpGrant"
    BY ReportedList DEF DueFor
  <2>3. Open(f) = 0
    BY <2>1, <2>2 DEF Changes
  <2>4. mapState[f].granted > 0 /\ mapState[f].granted - mapState[f].unused - usedInMap[f] = 0
    BY <2>3 DEF Open, Idle
  <2>5. mapState[f].granted \in Nat /\ mapState[f].unused \in Nat /\ usedInMap[f] \in Nat
    BY DEF UpstreamInv, CountersTyped
  <2> QED BY <2>4, <2>5
<1>2. UpstreamInv /\ UpstreamInv' /\ Reported /\ [Next]_vars => Reported'
  BY StepReported
<1>3. Init => Reported
  BY StartReported
<1> QED BY <1>1, <1>2, <1>3, UpstreamInvariant, PTL DEF Spec
=============================================================================
