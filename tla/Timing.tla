------------------------------- MODULE Timing -------------------------------
(***************************************************************************)
(* The arithmetic that ties the request and grant loop to the clock: what  *)
(* DocsisNetDevice derives from the physical layer's attributes, when the  *)
(* scheduler starts and sends a MAP, and how sizes are accounted.  Every   *)
(* operator takes the attributes as a record c.  Times are nanoseconds,    *)
(* spacings hertz, distances units of 10 m (a round trip is 100 ns each);  *)
(* what a double would round below a nanosecond is dropped.                *)
(***************************************************************************)
EXTENDS Integers

Larger(a, b) == IF a >= b THEN a ELSE b
Smaller(a, b) == IF a <= b THEN a ELSE b

CeilDiv(a, b) == (a + b - 1) \div b
\* (a * b) \div c without the large product.
MulDiv(a, b, c) == (a \div c) * b + ((a % c) * b) \div c
RoundDiv(a, b) == (2 * a + b) \div (2 * b)

\* The attributes, as their checkers and the setters allow them (the checkers
\* bound a prefix by its smallest and largest value; the help texts list them).
SymbolSpacings == {25000, 50000}
UsCpLens == {96, 128, 160, 192, 224, 256, 288, 320, 384, 512, 640}
DsCpLens == {192, 256, 512, 768, 1024}
UsSubcarriers == {n \in Nat : n >= 1 /\ n <= 3800}
DsSubcarriers == {n \in Nat : n >= 1 /\ n <= 7537}
ChannelLengths == {n \in Nat : n >= 100 /\ n <= 200000}
PhyFields ==
  {"usScSpacing", "numUsSc", "symbolsPerFrame", "usSpectralEfficiency", "usCpLen",
   "mapInterval", "cmtsMapProcTime", "cmtsUsPipelineFactor", "cmUsPipelineFactor",
   "dsScSpacing", "numDsSc", "dsCpLen", "dsIntlvM", "ncpModulation",
   "cmtsDsPipelineFactor", "cmDsPipelineFactor", "maximumDistance"}
AttributesChecked(c) ==
  /\ DOMAIN c = PhyFields
  /\ c.usScSpacing \in SymbolSpacings /\ c.dsScSpacing \in SymbolSpacings
  /\ c.numUsSc \in UsSubcarriers /\ c.numDsSc \in DsSubcarriers
  /\ c.usCpLen \in UsCpLens /\ c.dsCpLen \in DsCpLens
  /\ c.symbolsPerFrame \in 6..36 /\ c.usSpectralEfficiency \in 1..12
  /\ c.dsIntlvM \in 1..32 /\ c.ncpModulation \in 2..6
  /\ c.mapInterval \in Nat /\ c.cmtsMapProcTime \in Nat
  /\ c.cmtsUsPipelineFactor \in Nat /\ c.cmUsPipelineFactor \in Nat
  /\ c.cmtsDsPipelineFactor \in Nat /\ c.cmDsPipelineFactor \in Nat
  /\ c.maximumDistance \in ChannelLengths

-----------------------------------------------------------------------------
(* Upstream frames and minislots.                                          *)

FrameDuration(c) ==
  c.symbolsPerFrame * (1000000000 \div c.usScSpacing)
    + (c.symbolsPerFrame * c.usCpLen * 625) \div 64
ScPerMinislot(c) == 400000 \div c.usScSpacing
MinislotsPerFrame(c) == (c.numUsSc * (c.usScSpacing \div 1000)) \div 400
MinislotCapacity(c) ==
  (ScPerMinislot(c) * c.symbolsPerFrame * c.usSpectralEfficiency) \div 10
FramesPerMap(c) == RoundDiv(c.mapInterval, FrameDuration(c))
MinislotsPerMap(c) == FramesPerMap(c) * MinislotsPerFrame(c)
ActualMapInterval(c) == FramesPerMap(c) * FrameDuration(c)

TimeToMinislots(c, t) == MinislotsPerFrame(c) * (t \div FrameDuration(c))
MinislotsToTime(c, n) == FrameDuration(c) * (n \div MinislotsPerFrame(c))
GetFrameForMinislot(c, n) == n \div MinislotsPerFrame(c)

MinislotCeil(c, bytes) == CeilDiv(bytes, MinislotCapacity(c))
MinislotRound(c, bytes) == RoundDiv(bytes, MinislotCapacity(c))
MinislotsToBytes(c, n) == n * MinislotCapacity(c)

-----------------------------------------------------------------------------
(* Delays.                                                                 *)

CmMapProcTime(c) ==
  600000 + FrameDuration(c) + FrameDuration(c) \div c.symbolsPerFrame
DsSymbolTime(c) == 1000000000 \div c.dsScSpacing + (c.dsCpLen * 625) \div 128
DsIntlvDelay(c) == (c.dsIntlvM - 1) * DsSymbolTime(c)
Rtt(c) == 100 * c.maximumDistance

\* "The closest (in frames) a request can be generated in order to be taken
\* into account in a MAP": downstream symbols count without their prefix.
UsPipeline(c) == c.cmUsPipelineFactor + c.cmtsUsPipelineFactor + 1
DsPipeline(c) ==
  (c.cmtsDsPipelineFactor + c.cmDsPipelineFactor + 1) * (1000000000 \div c.dsScSpacing)
\* Mutant: the round trip is left out.
MinReqGntDelayWithoutRtt(c) ==
  CeilDiv(CmMapProcTime(c) + DsIntlvDelay(c) + c.cmtsMapProcTime + DsPipeline(c),
          FrameDuration(c)) + UsPipeline(c)
MinReqGntDelay(c) ==
  CeilDiv(CmMapProcTime(c) + Rtt(c) + DsIntlvDelay(c) + c.cmtsMapProcTime + DsPipeline(c),
          FrameDuration(c)) + UsPipeline(c)

\* From GenerateMap to HandleMapMsg, and from MakeRequest to the scheduler.
MapMessageArrivalDelay(c) ==
  DsIntlvDelay(c) + 3 * DsSymbolTime(c) + Rtt(c) \div 2 + c.cmtsMapProcTime
RequestDelay(c) == Rtt(c) \div 2 + FrameDuration(c) * UsPipeline(c)

\* What a request that is generated at the Ack Time of a MAP may be late by
\* when the scheduler makes that MAP: MinReqGntDelay leaves the cyclic prefix
\* out of the downstream symbols, which MapMessageArrivalDelay counts.
Lateness(c) == Larger(0, 3 * DsSymbolTime(c) - DsPipeline(c))

-----------------------------------------------------------------------------
(* StartScheduler: the first MAP interval whose Ack Time is not negative.  *)

\* MAP intervals until that one, which is at least the second to start.
FirstMapInterval(c) == Larger(1, CeilDiv(MinReqGntDelay(c), FramesPerMap(c)))
MinReqGntDelaySlots(c) == MinReqGntDelay(c) * MinislotsPerFrame(c)
FirstAllocStartTime(c) ==
  FirstMapInterval(c) * TimeToMinislots(c, ActualMapInterval(c))
FirstGenerateMapTime(c) ==
  FirstMapInterval(c) * ActualMapInterval(c) - CmMapProcTime(c) - MapMessageArrivalDelay(c)

\* GenerateMap is called every GetActualMapInterval and moves the start of the
\* allocation by the MAP's minislots: both for the n-th MAP, from 0.
AllocStartTime(c, n) == FirstAllocStartTime(c) + n * MinislotsPerMap(c)
AckTime(c, n) == AllocStartTime(c, n) - MinReqGntDelaySlots(c)
GenerateMapTime(c, n) == FirstGenerateMapTime(c) + n * ActualMapInterval(c)
MapArrivalTime(c, n) == GenerateMapTime(c, n) + MapMessageArrivalDelay(c)

-----------------------------------------------------------------------------
(* The congestion model of both directions: what other traffic leaves.     *)

\* The free bytes around a mean, with a variation of some percent of it.
FreeAround(mean, variation) ==
  LET w == (variation * mean) \div 100
  IN  IF variation = 0 \/ w = 0 THEN {mean}
      ELSE {Larger(mean + r, 0) : r \in -w .. w - 1}
\* CmtsUpstreamScheduler::CalculateFreeCapacity, the mean in Mbit/s.
FreeMinislots(c, mean, variation) ==
  IF mean = 0 THEN {MinislotsPerMap(c)}
  ELSE {Smaller(MinislotRound(c, bytes), MinislotsPerMap(c)) :
          bytes \in FreeAround(RoundDiv(mean * ActualMapInterval(c), 8000), variation)}
\* CmtsNetDevice::CalculateFreeCapacity, the mean in bytes per second.
FreeSymbolBytes(symbolCapacity, mean, variation) ==
  {Smaller(bytes, symbolCapacity) : bytes \in FreeAround(mean, variation)}

-----------------------------------------------------------------------------
(* Frame sizes: a packet, its padding, and the headers of the wire.        *)

FramingSize == 14 + 4
GetDataPduSize(sdu) == Larger(sdu, 46) + FramingSize
GetMacFrameSize(sdu, macHdrSize) == GetDataPduSize(sdu) + macHdrSize

\* DocsisHeader is made for the bytes beyond its fixed 6, a uint16_t.
DocsisHeaderSize(macHdrSize) == 6 + ((macHdrSize - 6) % 65536)
\* AddHeaderTrailer pads the packet and adds header and trailer, then
\* AddDocsisHeader; the receiver removes what these three add.
WireSize(sdu, macHdrSize) ==
  LET padding == IF sdu < 46 THEN 46 - sdu ELSE 0
  IN  sdu + padding + 14 + 4 + DocsisHeaderSize(macHdrSize)
=============================================================================
