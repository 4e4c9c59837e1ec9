---------------------------- MODULE MCCmUpstream ----------------------------
(* CmUpstream with two frames of two minislots to a MAP.                   *)
EXTENDS CmUpstream

\* Both instances are such that the staging queue has room.
ASSUME StagingInstance == StagingFits

Grants(offset, length) == <<[offset |-> offset, length |-> length]>>
Layout(classic, lowLatency) ==
  [f \in Flows |-> IF f = CLASSIC_SFID THEN classic ELSE lowLatency]

\* No grant; a classic one that spans the frames; one for each flow.
BothLayouts ==
  {Layout(<<>>, <<>>),
   Layout(Grants(1, 2), <<>>),
   Layout(Grants(2, 1), Grants(0, 1) \o Grants(3, 1))}

\* No grant; the whole MAP; two adjacent grants in different frames.
FullMapLayouts ==
  {Layout(<<>>, <<>>),
   Layout(Grants(0, 4), <<>>),
   Layout(Grants(1, 1) \o Grants(2, 1), <<>>)}
=============================================================================
