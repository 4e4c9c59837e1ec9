--------------------------- MODULE CmtsDownstream ---------------------------
(***************************************************************************)
(* The downstream device (CmtsNetDevice).  At every symbol boundary it     *)
(* schedules bytes for a symbol PipelineFactor symbols later, as the two   *)
(* token buckets and the free capacity allow, and moves packets from the   *)
(* dual queue to its own queue; SendSymbol then sends that many bytes,     *)
(* splitting packets where they end.  Time is counted in symbols.          *)
(*                                                                         *)
(* Counters are uint32_t, here modulo Word.  Bytes of the dual queue       *)
(* include the MAC header, bytes of the device queue do not.               *)
(***************************************************************************)
EXTENDS EventList

CONSTANTS
  PipelineFactor,     \* GetCmtsDsPipelineFactor
  SymbolCapacity,     \* GetDsSymbolCapacity, bytes
  FreeCapacities,     \* what CalculateFreeCapacity may return
  Header,             \* GetDsMacHdrSize
  PduSizes,           \* data PDU sizes of arriving packets
  MaxFrame,           \* the 1518 bytes of DoInitialize
  MsrIncrement,       \* bytes of m_maxSustainedRate in a symbol
  PeakIncrement,      \* bytes of m_peakRate in a symbol
  MaxTrafficBurst,    \* m_maxTrafficBurst
  MaxPdu,             \* m_maxPdu, the size of the peak rate bucket
  Word,               \* 2^32, scaled
  QueueLimit          \* bytes the dual queue accepts

ASSUME DownstreamAssumption ==
  /\ PipelineFactor \in Nat \ {0}
  /\ SymbolCapacity \in Nat \ {0} /\ FreeCapacities \subseteq 0..SymbolCapacity
  /\ Header \in Nat \ {0}
  /\ PduSizes \subseteq Nat \ {0}
  /\ MaxFrame \in Nat /\ MsrIncrement \in Nat /\ PeakIncrement \in Nat
  /\ MaxTrafficBurst \in Nat /\ MaxPdu \in Nat /\ QueueLimit \in Nat
  /\ Word \in Nat
  /\ Word > QueueLimit + MaxTrafficBurst + MaxPdu + MsrIncrement + PeakIncrement

VARIABLES
  queue,         \* data PDU sizes in the dual queue
  device,        \* data PDU sizes in m_deviceQueue
  frag,          \* m_fragPkt's data PDU size, and m_fragSentBytes
  req,           \* m_req: bytes scheduled, by symbols to go
  msrTokens,     \* m_msrTokens
  peakTokens,    \* m_peakTokens
  agenda,        \* the simulator's event list
  lost           \* history: packets taken from the dual queue and dropped

tokens == <<msrTokens, peakTokens>>
vars == <<queue, device, frag, req, tokens, agenda, lost>>

-----------------------------------------------------------------------------
(* Bytes.                                                                  *)

Due(name) == HeadIsDue(agenda, name)
NoFragment == [pdu |-> 0, sent |-> 0]
NoSymbol == [bytes |-> 0, symbolState |-> 0]

FrameBytes(pdus) == SumSeq(pdus) + Len(pdus) * Header

\* GetInternallyQueuedBytes, for a device queue: MAC headers are not counted,
\* but the bytes of the fragment that are sent may include its header.
InternallyQueued(pdus) == (SumSeq(pdus) + frag.pdu - frag.sent) % Word
Total(pipeline) == FoldFunction(LAMBDA x, y : (x + y) % Word, 0, pipeline)
PipelineData == Total(req)

\* Mutant: room for two symbols.
DeviceQueueSizeTwo == Max({2 * SymbolCapacity, MaxFrame})
DeviceQueueSize == Max({3 * SymbolCapacity, 3 * MaxFrame})

Init ==
  /\ queue = <<>> /\ device = <<>> /\ frag = NoFragment
  /\ req = [i \in 0..PipelineFactor |-> 0]
  /\ msrTokens = MaxTrafficBurst /\ peakTokens = MaxPdu
  /\ agenda = <<Event(1, "HandleSymbolBoundary", NoSymbol)>>
  /\ lost = 0

AdvanceTime ==
  /\ Head(agenda).in > 0
  /\ agenda' = Later(agenda, Head(agenda).in)
  /\ UNCHANGED <<queue, device, frag, req, tokens, lost>>

\* A packet that the dual queue accepts.
SendFrom(pdu) ==
  /\ FrameBytes(queue) + pdu + Header <= QueueLimit
  /\ queue' = Append(queue, pdu)
  /\ UNCHANGED <<device, frag, req, tokens, agenda, lost>>

-----------------------------------------------------------------------------
(* Token buckets.                                                          *)

\* Adding a double to a uint32_t: a sum that does not fit is undefined, and
\* the machines of the build wrap or saturate.
AddTokens(bucket, increment) ==
  IF bucket + increment < Word THEN {bucket + increment}
  ELSE {(bucket + increment) % Word, Word - 1}

\* IncrementTokens, one bucket.
Refilled(bucket, increment, size) ==
  {Min({sum, size}) : sum \in AddTokens(bucket, increment)}

\* What the refilled buckets allow.
GetEligibleTokens == Min({msrTokens', peakTokens'})

\* AdvanceTokenState: subtraction in uint32_t, whatever the bucket holds.
Drained(bucket, bytes) == (bucket - bytes) % Word

-----------------------------------------------------------------------------
(* The symbol boundary.                                                    *)

\* PushToPipeline: slots move up, slot 1 is added to slot 0.
PushToPipeline(bytes) ==
  [i \in 0..PipelineFactor |->
     ((IF i = 0 THEN req[0] ELSE 0)
       + (IF i = PipelineFactor THEN bytes ELSE req[i + 1])) % Word]

\* Packets the boundary moves while the device holds less than `pipeline'.
\* An Enqueue into a full device queue fails, and the packet is gone.
StagePacket(pipeline, acc, pdu) ==
  IF InternallyQueued(acc.device) >= pipeline
  THEN [acc EXCEPT !.rest = Append(@, pdu)]
  ELSE IF FrameBytes(Append(acc.device, pdu)) <= DeviceQueueSize
       THEN [acc EXCEPT !.device = Append(@, pdu)]
       ELSE [acc EXCEPT !.lost = @ + 1]
Stage(pipeline) ==
  FoldLeft(LAMBDA acc, pdu : StagePacket(pipeline, acc, pdu),
           [device |-> device, rest |-> <<>>, lost |-> lost], queue)

\* Mutant: the fragment is not counted as pending.
PendingWithoutFragment == (FrameBytes(queue) + SumSeq(device)) % Word
\* pendingData
Pending == (FrameBytes(queue) + InternallyQueued(device)) % Word

NextBoundary == Schedule(Tail(agenda), Event(1, "HandleSymbolBoundary", NoSymbol))

\* Nothing is scheduled, for lack of tokens or of new data.
SkipSymbol ==
  /\ req' = PushToPipeline(0)
  /\ agenda' = NextBoundary
  /\ UNCHANGED <<queue, device, lost>>

\* Schedule bytes for a symbol and make sure that the device holds them.
FillSymbol(free) ==
  LET bytes  == Min({GetEligibleTokens, Pending - PipelineData, free})
      pushed == PushToPipeline(bytes)
      staged == Stage(Total(pushed))
  IN  /\ req' = pushed
      /\ agenda' = Schedule(NextBoundary,
                     Event(PipelineFactor, "SendSymbol",
                           [bytes |-> bytes, symbolState |-> SymbolCapacity - free]))
      /\ queue' = staged.rest
      /\ device' = staged.device
      /\ lost' = staged.lost

HandleSymbolBoundary(free) ==
  /\ Due("HandleSymbolBoundary")
  /\ msrTokens' \in Refilled(msrTokens, MsrIncrement, MaxTrafficBurst)
  /\ peakTokens' \in Refilled(peakTokens, PeakIncrement, MaxPdu)
  /\ \/ /\ GetEligibleTokens = 0 \/ Pending <= PipelineData
        /\ SkipSymbol
     \/ /\ GetEligibleTokens > 0 /\ Pending > PipelineData
        /\ FillSymbol(free)
  /\ UNCHANGED frag

-----------------------------------------------------------------------------
(* The symbol.                                                             *)

\* The bytes a symbol may carry: scheduled, and free in the symbol.
SymbolBytes(symbol) == Min({symbol.bytes, SymbolCapacity - symbol.symbolState})

\* What is left of the fragment on the wire, its MAC header included.
FragmentLeft == IF frag = NoFragment THEN 0 ELSE frag.pdu + Header - frag.sent

\* Those of `bytes' that packets fill: the fragment, then the device queue.
Sent(bytes) == Min({bytes, FragmentLeft + FrameBytes(device)})

\* Mutant: bytes that no packet used stay in the pipeline.
PoppedIfSent(bytes) == Sent(bytes)
\* What SendSymbol takes from the pipeline, packet by packet and then the rest.
Popped(bytes) == bytes

\* Mutant: whole packets sent in the symbol are not deducted.
PartSentOfAll(bytes, whole) == bytes
\* The part of the next packet that is sent after `whole' packets.
PartSent(bytes, whole) == bytes - FrameBytes(SubSeq(device, 1, whole))

\* SendFragment: the fragment takes all bytes and goes on in a later symbol.
ContinueFragment(bytes) ==
  /\ bytes < FragmentLeft
  /\ frag' = [frag EXCEPT !.sent = @ + bytes]
  /\ UNCHANGED device

\* SendOut, for every packet that fits in `bytes' and for the one that does not.
SendPackets(bytes) ==
  LET whole == Max({k \in 0..Len(device) : FrameBytes(SubSeq(device, 1, k)) <= bytes})
      part  == PartSent(bytes, whole)
  IN  \/ /\ part > 0 /\ whole < Len(device)
         /\ frag' = [pdu |-> device[whole + 1], sent |-> part]
         /\ device' = SubSeq(device, whole + 2, Len(device))
      \/ /\ part = 0 \/ whole = Len(device)
         /\ frag' = NoFragment
         /\ device' = SubSeq(device, whole + 1, Len(device))

SendSymbol ==
  /\ Due("SendSymbol")
  /\ LET bytes == SymbolBytes(Head(agenda).arg)
     IN /\ \/ ContinueFragment(bytes)
           \/ bytes >= FragmentLeft /\ SendPackets(bytes - FragmentLeft)
        /\ msrTokens' = Drained(msrTokens, Sent(bytes))
        /\ peakTokens' = Drained(peakTokens, Sent(bytes))
        /\ req' = [req EXCEPT ![0] = (@ - Popped(bytes)) % Word]
  /\ agenda' = Tail(agenda)
  /\ UNCHANGED <<queue, lost>>

-----------------------------------------------------------------------------

Simulate ==
  \/ AdvanceTime
  \/ \E free \in FreeCapacities : HandleSymbolBoundary(free)
  \/ SendSymbol

Next == Simulate \/ \E pdu \in PduSizes : SendFrom(pdu)

Spec == Init /\ [][Next]_vars
FairSpec == Spec /\ WF_vars(Simulate)

-----------------------------------------------------------------------------
(* Properties.                                                             *)

TypeOK ==
  /\ queue \in Seq(PduSizes) /\ device \in Seq(PduSizes)
  /\ frag = NoFragment \/ (frag.pdu \in PduSizes /\ frag.sent \in 1..frag.pdu + Header - 1)
  /\ req \in [0..PipelineFactor -> 0..Word - 1]
  /\ msrTokens \in 0..Word - 1 /\ peakTokens \in 0..Word - 1
  /\ InTimeOrder(agenda)
  /\ lost \in Nat

\* When a symbol is sent, slot 0 of the pipeline holds exactly its bytes,
\* although boundary and symbol fall on the same time: the assert of
\* PopFromPipeline, and that no bytes stay behind in the pipeline, where they
\* would hide as many bytes of data from every later boundary.
SlotHoldsSymbol ==
  /\ Due("SendSymbol") => req[0] = Head(agenda).arg.bytes
  /\ (\A i \in DOMAIN agenda : agenda[i].event # "SendSymbol") =>
       \A i \in DOMAIN req : req[i] = 0

\* A packet taken from the dual queue finds room in the device queue, which
\* DoInitialize sizes to three symbols or packets: nothing is lost between.
NothingLost == lost = 0

WireHeld == FragmentLeft + FrameBytes(device) + FrameBytes(queue)

\* The device never stops for good with more than a MAC header of data to
\* send, whatever the buckets have wrapped to: a header is the most that it
\* can lose sight of, because GetInternallyQueuedBytes does not count headers.
NoStallButHeader == []<>(WireHeld <= Header) \/ []<><<WireHeld' < WireHeld>>_vars

=============================================================================
