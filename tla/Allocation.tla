----------------------------- MODULE Allocation -----------------------------
(***************************************************************************)
(* CmtsUpstreamScheduler::Allocate: how the minislots of one MAP are split *)
(* between the classic and the low latency service flow.  As a build       *)
(* without asserts computes it; SplitAssert is what its asserts say.       *)
(***************************************************************************)
EXTENDS Integers

CONSTANTS
  Capacity,          \* GetMinislotCapacity, bytes
  Weight             \* m_schedulingWeight, in 256ths, of the low latency flow

ASSUME CapacityAssumption == Capacity \in Nat /\ Capacity > 0
ASSUME WeightAssumption == Weight \in 1..255

Smaller(a, b) == IF a <= b THEN a ELSE b
Larger(a, b)  == IF a >= b THEN a ELSE b
Monus(a, b)   == IF a > b THEN a - b ELSE 0

MinislotCeil(bytes) == (bytes + Capacity - 1) \div Capacity
MinislotsToBytes(n) == n * Capacity

-----------------------------------------------------------------------------
(* What may be allocated.                                                  *)

\* Mutant: the token bucket does not limit what is allocated.
AvailableUnshaped(free, tokens) == free
\* What the token bucket and the congestion model leave for this MAP.
Available(free, tokens) == Smaller(MinislotCeil(tokens), free)

\* A low latency flow is never asked to take less than its PGS grants.
MaxLowLatency(lBytes, pgs) == Larger(MinislotCeil(lBytes), pgs)

\* minislotsToAllocate
ToAllocate(avail, maxC, maxL, pgs) == Larger(Smaller(avail, maxC + maxL), pgs)

\* Mutant: strict priority for the low latency flow.
LowLatencyShareAll(n, pgs) == Larger(n, pgs)
\* The low latency share of n minislots: its weight, and at least the PGS grants.
LowLatencyShare(n, pgs) == Larger((n * Weight) \div 256, pgs)

-----------------------------------------------------------------------------
(* The split, for a demand of maxC and maxL minislots.                     *)

\* Mutant: what one flow leaves over is not offered to the other.
SplitStrictly(avail, maxC, maxL, pgs) ==
  LET n == ToAllocate(avail, maxC, maxL, pgs)
      l == LowLatencyShare(n, pgs)
  IN  [c |-> Smaller(n - l, maxC), l |-> Smaller(l, maxL)]

Split(avail, maxC, maxL, pgs) ==
  LET n == ToAllocate(avail, maxC, maxL, pgs)
      l == LowLatencyShare(n, pgs)
      c == n - l
  IN  CASE pgs >= maxL ->
             [c |-> Smaller(Monus(avail, pgs), maxC), l |-> pgs]
        [] pgs < maxL /\ maxL <= l /\ maxC <= c ->
             [c |-> maxC, l |-> maxL]
        [] pgs < maxL /\ maxL > l /\ maxC > c ->
             [c |-> c, l |-> l]
        [] pgs < maxL /\ maxL <= l /\ maxC > c ->
             [c |-> Smaller(n - maxL, maxC), l |-> maxL]
        [] pgs < maxL /\ maxL > l /\ maxC <= c ->
             [c |-> maxC, l |-> Smaller(n - maxC, maxL)]

Allocate(free, pgs, tokens, cBytes, lBytes) ==
  Split(Available(free, tokens), MinislotCeil(cBytes), MaxLowLatency(lBytes, pgs), pgs)

\* The asserts of Allocate: the flow that is granted all it asks for leaves
\* something of the allocation to the other.
SplitAssert(avail, maxC, maxL, pgs) ==
  LET n == ToAllocate(avail, maxC, maxL, pgs)
      l == LowLatencyShare(n, pgs)
      c == n - l
  IN  pgs < maxL =>
        /\ n >= l
        /\ maxL <= l /\ maxC > c => n > maxL
        /\ maxL > l /\ maxC <= c => n > maxC

-----------------------------------------------------------------------------
(* What the split promises, whichever of its cases applies.                *)

SplitIsFair(avail, maxC, maxL, pgs, split) ==
  LET n == ToAllocate(avail, maxC, maxL, pgs)
      l == LowLatencyShare(n, pgs)
  IN  /\ split.c + split.l = n
      /\ split.c <= maxC /\ split.l <= maxL
      /\ pgs <= split.l
      /\ Smaller(n - l, maxC) <= split.c
      /\ Smaller(l, maxL) <= split.l
=============================================================================
