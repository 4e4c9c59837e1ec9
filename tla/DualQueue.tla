------------------------------ MODULE DualQueue ------------------------------
(***************************************************************************)
(* The dual queue (DualQueueCoupledAqm): a classic and a low latency       *)
(* queue, the deficit round robin between them that the CMTS uses, the     *)
(* virtual queue from which the cable modem estimates the low latency      *)
(* delay, and the control of early drops in the classic queue.             *)
(*                                                                         *)
(* Time is counted in bytes at MAX_RATE, so that delays and byte counts    *)
(* compare directly.  A packet is its data PDU size.  A probability is     *)
(* None, Some (below 0.2) or High, all that the code's control depends on. *)
(***************************************************************************)
EXTENDS Integers, Sequences

CONSTANTS
  PduSizes,           \* data PDU sizes of arriving packets
  MaxPdu,             \* the largest of them
  Header,             \* GetMacHeaderLength
  MaxSize,            \* GetMaxSize, the limit of both queues together
  ClassicBufferSize,  \* GetMaxSize of the classic internal queue
  LlBufferSize,       \* GetMaxSize of the low latency internal queue
  MaxFrameSize,       \* m_maxFrameSize
  DrrQuantum,         \* m_drrQuantum
  SchedulingWeight,   \* m_schedulingWeight, in 256ths
  Intervals,          \* times that may pass between two events
  MaxElapsed,         \* bound: no virtual queue takes longer to drain
  EwmaDivisor,        \* 2 to the power of m_lgVqEwmaAlpha
  StagedBytes,        \* low latency bytes the device may hold outside the queue
  AllowedAqs,         \* what calcAllowedAQ may yield
  ClassicRates,       \* r_C of QDelayCoupledC, bytes per unit of time
  LatencyTarget,      \* m_latencyTarget
  LongDelay,          \* the 0.2 seconds of CalculateDropProb
  Alpha, Beta,        \* m_alpha and m_beta, in a common unit
  MeanPktSize,        \* m_meanPktSize
  UpdateInterval,     \* m_interval
  MaxBurst,           \* m_maxBurst
  BurstResetLimit,    \* m_burstResetTimeout / m_interval
  ResetMemory         \* what the memory of m_burstReset, never initialized, may hold

ASSUME DualQueueAssumption ==
  /\ MaxPdu \in Nat \ {0} /\ PduSizes \subseteq 1..MaxPdu /\ Header \in Nat
  /\ MaxSize \in Nat /\ ClassicBufferSize \in Nat /\ LlBufferSize \in Nat
  /\ MaxFrameSize \in 0..LlBufferSize
  /\ DrrQuantum \in Nat /\ SchedulingWeight \in 1..255
  /\ DrrQuantum * SchedulingWeight >= 256
  /\ Intervals \subseteq Nat /\ MaxElapsed \in Nat
  /\ EwmaDivisor \in Nat \ {0}
  /\ StagedBytes \subseteq Nat /\ AllowedAqs \subseteq Nat
  /\ ClassicRates \subseteq Nat \ {0}
  /\ LatencyTarget \in Nat /\ LongDelay \in Nat /\ Alpha \in Nat /\ Beta \in Nat
  /\ MeanPktSize \in Nat /\ UpdateInterval \in Nat \ {0}
  /\ MaxBurst \in Nat /\ BurstResetLimit \in Nat /\ ResetMemory \subseteq Nat

Side == {"cm", "cmts"}
Queue == {"Classic", "LowLatency"}
BurstState == {"NoBurst", "InBurst", "Protecting"}
None == 0
Some == 1
High == 2

VARIABLES
  side,     \* the device that owns the queues: it decides estimator and dequeue
  queue,    \* the internal queues
  pduBytes, \* m_llDataPduBytes, m_tracePieQueueBytes
  drr,      \* m_drrQueues, m_llDeficit and m_classicDeficit
  vq,       \* m_vq
  elapsed,  \* the time since m_tLast
  averageAq,\* m_averageAqBytes
  burst,    \* m_burstState, m_burstAllowance and m_burstReset
  prob,     \* m_classicDropProb
  qDelay,   \* m_cqEstimateAtUpdate, which is m_prevq until the next update
  waited,   \* history: bytes of the other queue sent since a queue was served
  ideal,    \* history: the virtual queue when it drains all the time
  aligned,  \* history: AlignVq has raised the virtual queue
  quiet,    \* history: updates in a row that found a burst over
  settled   \* history: m_burstReset has been assigned

scheduler == <<drr, waited>>
queues == <<queue, pduBytes>>
virtual == <<vq, elapsed, averageAq, ideal, aligned>>
pie == <<burst, prob, qDelay, quiet, settled>>
vars == <<side, queues, scheduler, virtual, pie>>

-----------------------------------------------------------------------------

Monus(a, b) == IF b < a THEN a - b ELSE 0
Smaller(a, b) == IF a < b THEN a ELSE b
Larger(a, b) == IF a < b THEN b ELSE a
CeilDiv(a, b) == (a + b - 1) \div b

Bytes(q) == pduBytes[q] + Header * Len(queue[q])
CurrentSize == Bytes("Classic") + Bytes("LowLatency")
Backlogged(q) == queue[q] # <<>>
HeadSize(q) == Head(queue[q]) + Header

Init ==
  /\ side \in Side
  /\ queue = [q \in Queue |-> <<>>] /\ pduBytes = [q \in Queue |-> 0]
  /\ drr = [queues |-> {}, deficit |-> [q \in Queue |-> 0]]
  /\ vq = 0 /\ elapsed = 0 /\ averageAq = 0
  /\ burst \in [state : {"NoBurst"}, allowance : {0}, reset : ResetMemory]
  /\ prob = None /\ qDelay = 0
  /\ waited = [q \in Queue |-> 0]
  /\ ideal = 0 /\ aligned = FALSE
  /\ quiet = 0 /\ settled = FALSE

-----------------------------------------------------------------------------
(* The virtual queue of the cable modem.                                   *)

AdvanceTime(d) ==
  /\ side = "cm"
  /\ elapsed < MaxElapsed
  /\ elapsed' = elapsed + d
  /\ ideal' = Monus(ideal, d)
  /\ aligned' = (aligned /\ ideal > d)
  /\ UNCHANGED <<side, queues, scheduler, vq, averageAq, pie>>

\* Mutant: the virtual queue drains below zero.
DrainedBelowZero == vq - elapsed
\* QDelayCoupledV charges a packet; DecreaseVq takes it back.
Drained == Monus(vq, elapsed)
Charged(p) == Drained + p

\* The low latency packet p was charged, and DecreaseVq is not called.
KeepCharge(p) ==
  /\ vq' = IF side = "cm" THEN Charged(p) ELSE vq
  /\ elapsed' = 0
  /\ ideal' = IF side = "cm" THEN ideal + p ELSE ideal

\* Mutant: DecreaseVq is forgotten.
TakeBackNothing(p) ==
  /\ vq' = IF side = "cm" THEN Charged(p) ELSE vq
  /\ elapsed' = 0
  /\ UNCHANGED ideal
\* The low latency packet p was charged and does not enter the queue.
TakeBackCharge(p) ==
  /\ vq' = IF side = "cm" THEN Monus(Charged(p), p) ELSE Monus(vq, p)
  /\ elapsed' = 0
  /\ UNCHANGED ideal

\* The moving average of the actual queue, of which the device holds a part.
Averaged(actual) ==
  Larger(0, averageAq + (actual - averageAq) \div EwmaDivisor)

\* AlignVq compares and assigns m_vq without draining it and leaves m_tLast.
AlignVq(staged, allowedAq) ==
  LET average == Averaged(Bytes("LowLatency") + staged)
      excess  == Monus(average, allowedAq)
  IN  /\ side = "cm"
      /\ averageAq' = average
      /\ vq' = Larger(vq, excess)
      /\ ideal' = Larger(ideal, excess)
      /\ aligned' = (aligned \/ excess > ideal)
      /\ UNCHANGED <<side, queues, scheduler, elapsed, pie>>

-----------------------------------------------------------------------------
(* Early drops in the classic queue.                                       *)

Calm(delay) == 2 * delay < LatencyTarget

\* NO_BURST ends when a packet finds a third of the buffer in use.
LightlyLoaded == pduBytes["Classic"] < ClassicBufferSize \div 3
StaysIdle == burst.state = "NoBurst" /\ LightlyLoaded
Entered == IF burst.state = "NoBurst" THEN "InBurst" ELSE burst.state

\* What the random number and the accumulated probability may decide.
MayDrop ==
  /\ burst.allowance = 0 /\ ~StaysIdle
  /\ prob # None
  /\ ~(Calm(qDelay) /\ prob # High)
  /\ pduBytes["Classic"] > 2 * MeanPktSize

\* DropEarly returns true: the first drop of a burst excuses those to come.
DropEarly ==
  /\ MayDrop
  /\ burst' = IF Entered = "InBurst"
               THEN [burst EXCEPT !.state = "Protecting", !.allowance = MaxBurst]
               ELSE burst
  /\ quiet' = IF burst' = burst THEN quiet ELSE 0
  /\ UNCHANGED <<prob, qDelay, settled>>

\* DropEarly returns false; a burst may have begun.
PassEarly ==
  /\ burst' = IF burst.allowance > 0 \/ StaysIdle THEN burst
               ELSE [burst EXCEPT !.state = Entered]
  /\ quiet' = IF burst' = burst THEN quiet ELSE 0
  /\ UNCHANGED <<prob, qDelay, settled>>

\* DropTailQueue::Enqueue
Fits(q, p) ==
  Bytes(q) + p + Header <= IF q = "Classic" THEN ClassicBufferSize ELSE LlBufferSize
Put(q, p) ==
  /\ queue' = [queue EXCEPT ![q] = Append(@, p)]
  /\ pduBytes' = [pduBytes EXCEPT ![q] = @ + p]

ClassicEnqueue(p) ==
  \/ DropEarly /\ UNCHANGED queues
  \/ PassEarly /\ IF Fits("Classic", p) THEN Put("Classic", p) ELSE UNCHANGED queues

-----------------------------------------------------------------------------
(* DoEnqueue.                                                              *)

WithinMaxSize(p) == CurrentSize + p + Header <= MaxSize

EnqueueClassic(p) ==
  /\ WithinMaxSize(p)
  /\ ClassicEnqueue(p)
  /\ UNCHANGED <<side, scheduler, virtual>>

\* QueueProtect has sanctioned the packet.
EnqueueSanctioned(p) ==
  /\ WithinMaxSize(p)
  /\ ClassicEnqueue(p)
  /\ TakeBackCharge(p)
  /\ UNCHANGED <<side, scheduler, averageAq, aligned>>

\* CONFIG_BUFFER_SIZE - MAX_FRAME_SIZE against the estimate of the side.
IsSpace(p) ==
  LET estimate == IF side = "cm" THEN Charged(p) ELSE pduBytes["LowLatency"]
  IN  estimate < LlBufferSize - MaxFrameSize

EnqueueLowLatency(p) ==
  /\ WithinMaxSize(p)
  /\ IF IsSpace(p) /\ Fits("LowLatency", p)
     THEN Put("LowLatency", p) /\ KeepCharge(p)
     ELSE UNCHANGED queues /\ TakeBackCharge(p)
  /\ UNCHANGED <<side, scheduler, averageAq, aligned, pie>>

-----------------------------------------------------------------------------
(* SelectLlQueue.  Its loop is summed up by the rounds it starts.          *)

LlQuantum == (DrrQuantum * SchedulingWeight) \div 256
Quantum == [q \in Queue |-> IF q = "LowLatency" THEN LlQuantum ELSE DrrQuantum]

\* The deficits after k more rounds.
Deficit(q, k) == drr.deficit[q] + k * Quantum[q]
\* Mutant: every dequeue starts a round.
RoundsToStartAlways == 1
RoundsToStart == IF drr.queues = {} THEN 1 ELSE 0

\* The first round, not before the given one, in which the head may be sent.
RoundOf(q, earliest) ==
  Larger(earliest, CeilDiv(Monus(HeadSize(q), drr.deficit[q]), Quantum[q]))

\* The low latency queue is tried while it has its bit, the classic one always.
LlRound == RoundOf("LowLatency", IF "LowLatency" \in drr.queues THEN 0 ELSE 1)
ClassicRound == RoundOf("Classic", RoundsToStart)

\* Mutant: the other queue loses the deficit that did not suffice.
ServeForgetting(q, bits, k) ==
  drr' = [queues  |-> bits,
          deficit |-> [o \in Queue |-> IF o = q THEN Deficit(q, k) - HeadSize(q) ELSE 0]]
Serve(q, bits, k) ==
  drr' = [queues  |-> bits,
          deficit |-> [o \in Queue |-> Deficit(o, k) - IF o = q THEN HeadSize(q) ELSE 0]]

\* Sent because the other queue is empty: the deficit is lost.
ServeAnyway(q, bits, k) ==
  drr' = [queues  |-> bits,
          deficit |-> [o \in Queue |-> IF o = q THEN 0 ELSE Deficit(o, k)]]

\* Both queues have packets.
SelectBetween(q) ==
  /\ Backlogged("Classic") /\ Backlogged("LowLatency")
  /\ \/ /\ q = "LowLatency" /\ LlRound <= ClassicRound
        /\ Serve(q, IF LlRound = 0 THEN drr.queues ELSE Queue, LlRound)
     \/ /\ q = "Classic" /\ ClassicRound < LlRound
        /\ Serve(q, (IF ClassicRound = 0 THEN drr.queues ELSE Queue) \ {"LowLatency"},
                 ClassicRound)

\* Only q has packets.
SelectAlone(q) ==
  LET k      == RoundsToStart
      bits   == IF k = 1 THEN Queue ELSE drr.queues
      inTurn == q = "Classic" \/ q \in bits
  IN  /\ Backlogged(q) /\ \A o \in Queue \ {q} : ~Backlogged(o)
      /\ IF inTurn /\ HeadSize(q) <= Deficit(q, k)
         THEN Serve(q, bits, k)
         ELSE ServeAnyway(q, bits \ {q}, k)

Select(q) == SelectBetween(q) \/ SelectAlone(q)

\* LowLatencyDequeue, ClassicDequeue
Take(q) ==
  /\ queue' = [queue EXCEPT ![q] = Tail(@)]
  /\ pduBytes' = [pduBytes EXCEPT ![q] = Monus(@, Head(queue[q]))]

\* DoDequeue, for the CMTS
Dequeue(q) ==
  /\ side = "cmts"
  /\ Select(q)
  /\ Take(q)
  /\ waited' = [o \in Queue |-> IF o = q \/ ~Backlogged(o) THEN 0
                                ELSE waited[o] + HeadSize(q)]
  /\ UNCHANGED <<side, virtual, pie>>

\* A grant makes the cable modem dequeue from the queue it is for.
DequeueForGrant(q) ==
  /\ side = "cm"
  /\ Backlogged(q)
  /\ Take(q)
  /\ UNCHANGED <<side, scheduler, virtual, pie>>

-----------------------------------------------------------------------------
(* CalculateDropProb.                                                      *)

\* The sign of p is all that its scaling keeps: a long delay adds 0.02 to the
\* probability, which may or may not outweigh a negative p.
NewProbs(delay) ==
  LET p == Alpha * (delay - LatencyTarget) + Beta * (delay - qDelay)
  IN  IF burst.allowance > 0 THEN {None}
      ELSE IF p > 0 \/ (p = 0 /\ delay > LongDelay) THEN {Some, High}
      ELSE IF delay > LongDelay THEN None .. (IF prob = None THEN Some ELSE High)
      ELSE IF p = 0 /\ prob # None THEN Some..prob
      ELSE None..prob

\* Mutant: the burst protection ends while some of its allowance is left.
BurstOverEarly(delay, p, allowance) == Calm(delay) /\ Calm(qDelay) /\ p = None
BurstOver(delay, p, allowance) ==
  Calm(delay) /\ Calm(qDelay) /\ p = None /\ allowance = 0

NextState(over) ==
  CASE over /\ burst.state = "Protecting" -> "InBurst"
    [] over /\ burst.state = "InBurst" /\ burst.reset >= BurstResetLimit -> "NoBurst"
    [] OTHER -> burst.state

\* Mutant: the reset counter survives an update that finds the burst going on.
NextResetKept(over) ==
  IF NextState(over) # burst.state THEN 0
  ELSE IF over /\ burst.state = "InBurst" THEN burst.reset + 1
  ELSE burst.reset
NextReset(over) ==
  IF NextState(over) # burst.state THEN 0
  ELSE IF burst.state # "InBurst" THEN burst.reset
  ELSE IF over THEN burst.reset + 1
  ELSE 0

CalculateDropProb(rate) ==
  LET delay     == pduBytes["Classic"] \div rate
      allowance == Monus(burst.allowance, UpdateInterval)
  IN  \E p \in NewProbs(delay) :
        LET over == BurstOver(delay, p, allowance)
        IN  /\ prob' = p
            /\ qDelay' = delay
            /\ burst' = [state |-> NextState(over), allowance |-> allowance,
                          reset |-> NextReset(over)]
            /\ quiet' = IF over /\ burst.state = "InBurst" THEN quiet + 1 ELSE 0
            /\ settled' = (\/ settled
                           \/ burst.state # burst'.state
                           \/ burst.state = "InBurst" /\ ~over)
            /\ UNCHANGED <<side, queues, scheduler, virtual>>

-----------------------------------------------------------------------------

Next ==
  \/ \E p \in PduSizes : \/ EnqueueClassic(p)
                         \/ EnqueueSanctioned(p)
                         \/ EnqueueLowLatency(p)
  \/ \E q \in Queue : Dequeue(q) \/ DequeueForGrant(q)
  \/ \E rate \in ClassicRates : CalculateDropProb(rate)
  \/ \E d \in Intervals : AdvanceTime(d)
  \/ \E staged \in StagedBytes, allowedAq \in AllowedAqs : AlignVq(staged, allowedAq)

Spec == Init /\ [][Next]_vars

-----------------------------------------------------------------------------
(* Properties.                                                             *)

TypeOK ==
  /\ side \in Side
  /\ queue \in [Queue -> Seq(PduSizes)] /\ pduBytes \in [Queue -> Nat]
  /\ drr \in [queues : SUBSET Queue, deficit : [Queue -> Nat]]
  /\ vq \in Nat /\ elapsed \in Nat /\ averageAq \in Nat
  /\ burst \in [state : BurstState, allowance : 0..MaxBurst, reset : Nat]
  /\ prob \in {None, Some, High} /\ qDelay \in Nat
  /\ waited \in [Queue -> Nat] /\ ideal \in Nat /\ quiet \in Nat
  /\ aligned \in BOOLEAN /\ settled \in BOOLEAN

MaxPacket == Header + MaxPdu
Other(q) == CHOOSE o \in Queue : o # q

\* Deficit round robin keeps its promise although deficits outlive an empty
\* queue and rounds end by bits: whatever was sent before, a queue with a packet
\* waits for no more of the other queue than a quantum for every round its
\* largest packet takes, and a deficit left from before (a packet less a byte,
\* or a quantum if that is more).
NeitherQueueStarves ==
  \A q \in Queue :
    waited[q] < Larger(MaxPacket, Quantum[Other(q)] + 1)
                  + CeilDiv(MaxPacket, Quantum[q]) * Quantum[Other(q)]

\* What is left of a deficit is less than the packet it did not cover and one
\* quantum: no queue saves up for a burst while it is empty or alone.
DeficitIsSmall == \A q \in Queue : drr.deficit[q] < MaxPacket + Quantum[q]

\* Sanctioned, dropped and refused packets leave no trace in the virtual queue,
\* in whatever order charges, drains and alignments come: it never overstates
\* the backlog, and unless it was aligned it is exact.
VqKeepsTheCount == Drained <= ideal /\ (~aligned => Drained = ideal)

\* An allowance is granted and used up in one state of the burst machine only,
\* so a burst that is over, or has not begun, excuses no drop.
AllowanceMeansProtecting == burst.allowance > 0 => burst.state = "Protecting"

\* Once m_burstReset has been assigned, a burst is over after exactly
\* BurstResetLimit + 1 quiet updates in a row since it was entered or disturbed.
BurstTimesOut ==
  settled =>
    /\ burst.state = "InBurst" => burst.reset = quiet
    /\ quiet > BurstResetLimit => burst.state = "NoBurst"

\* "Drain the virtual queue (if bytes exist to drain) and align the virtual
\* queue to the difference between average (actual) queue and allowed average
\* queue": the virtual queue never falls short of one that AlignVq aligned.
VqIsAligned == Drained >= ideal
=============================================================================
