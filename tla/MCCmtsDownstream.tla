-------------------------- MODULE MCCmtsDownstream --------------------------
(* CmtsDownstream beside a token bucket that is charged without wrapping.  *)
EXTENDS CmtsDownstream

VARIABLE credit      \* the sustained-rate bucket, below zero when overdrawn

RateInit == Init /\ credit = MaxTrafficBurst
RateNext ==
  /\ Next
  /\ credit' =
       IF agenda' = agenda THEN credit
       ELSE IF Due("HandleSymbolBoundary") THEN Min({credit + MsrIncrement, MaxTrafficBurst})
       ELSE IF Due("SendSymbol") THEN credit - Sent(SymbolBytes(Head(agenda).arg))
       ELSE credit
RateSpec == RateInit /\ [][RateNext]_<<vars, credit>>

\* The maximum sustained rate and burst bound what a flow sends.  A symbol is
\* charged when it is sent, PipelineFactor symbols after its bytes were found
\* eligible, so that many symbols may be overdrawn, and no more.
RateIsShaped == credit + PipelineFactor * SymbolCapacity >= 0
=============================================================================
