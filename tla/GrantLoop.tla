------------------------------ MODULE GrantLoop ------------------------------
(***************************************************************************)
(* What the request/grant loop of one upstream service flow promises,      *)
(* in bytes only: how much the cable modem holds, how much it believes it  *)
(* has asked for, and where each asked-for byte is on its way round the    *)
(* loop (request in flight, scheduler backlog, MAP message in flight).     *)
(* CmUpstream implements this specification message by message and event   *)
(* by event; CmUpstreamProofs proves that, and the invariants stated here. *)
(***************************************************************************)
EXTENDS Integers

CONSTANT MaxAmount     \* bound of the model: bytes one step moves; every step moves a natural number

VARIABLES
  unsent,      \* bytes in the AQM and the device, not yet on the wire
  staged,      \* bytes of those promised to a frame by PrepareBurst
  asked,       \* bytes the CM believes the scheduler still owes it a grant for
  travelling,  \* bytes of requests scheduled for arrival at the CMTS
  backlog,     \* the scheduler's m_requests entry for the flow
  promised,    \* bytes granted by MAP messages the CM has not handled yet
  granted      \* bytes of handled grants whose burst is not prepared yet

vars == <<unsent, staged, asked, travelling, backlog, promised, granted>>

\* a - b, saturating at zero: CmPipeline::Remove-or-Clear, and the backlog.
Monus(a, b) == IF a > b THEN a - b ELSE 0

Init ==
  /\ unsent = 0 /\ staged = 0 /\ asked = 0
  /\ travelling = 0 /\ backlog = 0 /\ promised = 0 /\ granted = 0

\* A packet of n bytes is accepted by the queue.
Arrive(n) ==
  /\ unsent' = unsent + n
  /\ UNCHANGED <<staged, asked, travelling, backlog, promised, granted>>

\* The CM asks for n more bytes, never for more than it holds.
Ask(n) ==
  /\ asked + n <= unsent
  /\ asked' = asked + n
  /\ travelling' = travelling + n
  /\ UNCHANGED <<unsent, staged, backlog, promised, granted>>

\* A request reaches the scheduler.
Receive(n) ==
  /\ n <= travelling
  /\ travelling' = travelling - n
  /\ backlog' = backlog + n
  /\ UNCHANGED <<unsent, staged, asked, promised, granted>>

\* The scheduler grants n bytes, of the backlog or proactively.
Grant(n) ==
  /\ backlog' = Monus(backlog, n)
  /\ promised' = promised + n
  /\ UNCHANGED <<unsent, staged, asked, travelling, granted>>

\* The CM handles a MAP message that grants n bytes.
Absorb(n) ==
  /\ n <= promised
  /\ promised' = promised - n
  /\ asked' = Monus(asked, n)
  /\ granted' = granted + n
  /\ UNCHANGED <<unsent, staged, travelling, backlog>>

\* The burst of a grant of n bytes is prepared with m bytes of data.
Stage(n, m) ==
  /\ n <= granted
  /\ staged + m <= unsent
  /\ granted' = granted - n
  /\ staged' = staged + m
  /\ UNCHANGED <<unsent, asked, travelling, backlog, promised>>

\* m staged bytes go out in a frame.
Transmit(m) ==
  /\ m <= staged
  /\ staged' = staged - m
  /\ unsent' = unsent - m
  /\ UNCHANGED <<asked, travelling, backlog, promised, granted>>

Next ==
  \E n \in 0..MaxAmount :
    \/ Arrive(n)
    \/ Ask(n)
    \/ Receive(n)
    \/ Grant(n)
    \/ Absorb(n)
    \/ \E m \in 0..n : Stage(n, m)
    \/ Transmit(n)

Spec == Init /\ [][Next]_vars

-----------------------------------------------------------------------------

TypeOK ==
  /\ unsent \in Nat
  /\ staged \in Nat
  /\ asked \in Nat
  /\ travelling \in Nat
  /\ backlog \in Nat
  /\ promised \in Nat
  /\ granted \in Nat

\* Every byte the CM believes it has asked for is still on its way round the
\* loop, so the CM never waits for a grant that the scheduler has forgotten.
NothingForgotten == asked <= travelling + backlog + promised

\* A burst is only ever prepared from bytes that are really held.
StagedIsHeld == staged <= unsent
=============================================================================
