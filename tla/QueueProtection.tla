-------------------------- MODULE QueueProtection --------------------------
(***************************************************************************)
(* Queue protection (QueueProtection::QueueProtect).  Every low latency    *)
(* packet fills a bucket of its flow; buckets drain with time.  A packet   *)
(* of a flow whose bucket is high while the queue is long is sanctioned.   *)
(* A flow hashes to a few dedicated buckets and claims an expired one; if  *)
(* there is none it shares the default bucket.                             *)
(*                                                                         *)
(* The code keeps the time at which a bucket expires (m_exp); `score' is   *)
(* what is left until then.  It is zero for an expired bucket: the code    *)
(* resets m_exp to now before it uses one, so how long ago is not seen.    *)
(***************************************************************************)
EXTENDS Integers, Sequences

CONSTANTS
  Flows,             \* microflow identifiers (Uflw)
  NoFlow,            \* m_flowId of a bucket that was never claimed
  Dedicated,         \* bucket indices below nbuckets
  Default,           \* the bucket with index nbuckets
  Attempted,         \* a flow's hash: the buckets its attempts address
  CongestionScores,  \* what GetCongestionScore may return
  QueueDelays,       \* qDelay of a packet
  Pauses,            \* times that may pass between packets
  MaxQlScore,        \* GetMaxQlScore
  CriticalQl,        \* GetCriticalQl
  CriticalQlScore    \* GetCriticalQlScore

ASSUME FlowAssumption == NoFlow \notin Flows /\ Default \notin Dedicated
ASSUME AttemptedAssumption == Attempted \in [Flows -> Seq(Dedicated)]
ASSUME ScoreAssumption ==
  /\ CongestionScores \subseteq Nat /\ QueueDelays \subseteq Nat
  /\ Pauses \subseteq Nat
  /\ MaxQlScore \in Nat /\ CriticalQl \in Nat /\ CriticalQlScore \in Nat

VARIABLES
  owner,      \* m_flowId of each bucket
  score,      \* m_exp of each bucket, from now
  outcome,    \* what QueueProtect returned, and for which packet
  ownScore,   \* history: the score a flow would have in a bucket of its own
  spilled     \* history: flows with a score, part of it in the default bucket

protectionVars == <<owner, score, outcome, ownScore, spilled>>

Buckets == Dedicated \cup {Default}

-----------------------------------------------------------------------------

LeftAfter(a, b) == IF b < a THEN a - b ELSE 0
AtMost(bound, n) == IF n > bound THEN bound ELSE n
First(attempts) == CHOOSE j \in attempts : \A k \in attempts : j <= k

NoOutcome == [flow |-> NoFlow, bucket |-> Default, delay |-> 0, sanctioned |-> FALSE]

ProtectionInit ==
  /\ owner = [b \in Buckets |-> NoFlow]
  /\ score = [b \in Buckets |-> 0]
  /\ outcome = NoOutcome
  /\ ownScore = [f \in Flows |-> 0]
  /\ spilled = {}

-----------------------------------------------------------------------------
(* PickBucket.                                                             *)

OwnedAttempts(f) == {j \in DOMAIN Attempted[f] : owner[Attempted[f][j]] = f}

\* Mutant: a bucket is recycled although it has not expired.
ExpiredAttemptsAny(f) == DOMAIN Attempted[f]
\* Mutant: a bucket is recycled a little before it expires.
ExpiredAttemptsEarly(f) == {j \in DOMAIN Attempted[f] : score[Attempted[f][j]] <= 1}
ExpiredAttempts(f) == {j \in DOMAIN Attempted[f] : score[Attempted[f][j]] = 0}

\* Mutant: the first attempt that finds the flow's bucket or an expired one.
PickBucketAtOnce(f) ==
  LET usable == OwnedAttempts(f) \cup ExpiredAttempts(f)
  IN  IF usable # {} THEN Attempted[f][First(usable)] ELSE Default

\* Mutant: the first attempt's bucket, whoever owns it.
PickBucketFirst(f) == Attempted[f][1]
\* All ownership checks come before an expired bucket is recycled.
PickBucket(f) ==
  IF OwnedAttempts(f) # {} THEN Attempted[f][First(OwnedAttempts(f))]
  ELSE IF ExpiredAttempts(f) # {} THEN Attempted[f][First(ExpiredAttempts(f))]
  ELSE Default

\* Mutant: the limit is applied to what is added, not to the sum.
FilledUncapped(old, added) == old + AtMost(MaxQlScore, added)
\* FillBucket
Filled(old, added) == AtMost(MaxQlScore, old + added)

\* QueueProtect's decision for a packet of a bucket with score qLscore.
Sanctions(delay, qLscore) ==
  /\ delay > CriticalQl
  /\ delay * qLscore > CriticalQlScore * CriticalQl

QueueProtect(f, added, delay) ==
  LET b       == PickBucket(f)
      qLscore == Filled(score[b], added)
      mine    == Filled(ownScore[f], added)
  IN  /\ owner' = [owner EXCEPT ![b] = f]
      /\ score' = [score EXCEPT ![b] = qLscore]
      /\ outcome' = [flow |-> f, bucket |-> b, delay |-> delay,
                     sanctioned |-> Sanctions(delay, qLscore)]
      /\ ownScore' = [ownScore EXCEPT ![f] = mine]
      /\ spilled' = IF b = Default /\ mine > 0 THEN spilled \cup {f} ELSE spilled

\* Time passes between two packets: buckets drain.
Drain(d) ==
  /\ score' = [b \in Buckets |-> LeftAfter(score[b], d)]
  /\ ownScore' = [f \in Flows |-> LeftAfter(ownScore[f], d)]
  /\ spilled' = {f \in spilled : ownScore[f] > d}
  /\ outcome' = NoOutcome
  /\ UNCHANGED owner

ProtectionNext ==
  \/ \E f \in Flows, added \in CongestionScores, delay \in QueueDelays :
       QueueProtect(f, added, delay)
  \/ \E d \in Pauses : Drain(d)

ProtectionSpec == ProtectionInit /\ [][ProtectionNext]_protectionVars

-----------------------------------------------------------------------------
(* Properties.                                                             *)

ProtectionTypeOK ==
  /\ owner \in [Buckets -> Flows \cup {NoFlow}]
  /\ score \in [Buckets -> 0..MaxQlScore]
  /\ outcome \in [flow : Flows \cup {NoFlow}, bucket : Buckets,
                  delay : QueueDelays \cup {0}, sanctioned : BOOLEAN]
  /\ ownScore \in [Flows -> 0..MaxQlScore]
  /\ spilled \subseteq Flows

Owns(f, b) == b \in Dedicated /\ owner[b] = f

\* A flow owns at most one dedicated bucket, although each of its attempts
\* may find an expired one: with two, it would spread its score.
OneBucketPerFlow ==
  \A f \in Flows : \A b, c \in Dedicated : Owns(f, b) /\ Owns(f, c) => b = c

\* What is in a dedicated bucket was put there by its owner: recycling never
\* hands one flow the score of another.
NotBlamedForOthers ==
  \A f \in Flows, b \in Dedicated : Owns(f, b) => score[b] <= ownScore[f]

\* A flow that has not met the default bucket cannot shed its score: as long
\* as it has one, it owns a dedicated bucket that holds all of it, however
\* many flows hash to that bucket.
ScoreIsKept ==
  \A f \in Flows \ spilled :
    ownScore[f] > 0 => \E b \in Dedicated : Owns(f, b) /\ score[b] = ownScore[f]

\* A packet of a flow with a bucket of its own is sanctioned for what that
\* flow itself has sent, and for nothing else.
SanctionIsEarned ==
  outcome.sanctioned /\ outcome.bucket # Default =>
    Sanctions(outcome.delay, ownScore[outcome.flow])
=============================================================================
