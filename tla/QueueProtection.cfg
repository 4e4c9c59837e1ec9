SPECIFICATION ProtectionSpec
CONSTANTS
  f1 = f1  f2 = f2  f3 = f3
  Flows = {f1, f2, f3}
  NoFlow = NoFlow
  Dedicated = {0, 1}
  Default = 2
  Attempted <- MCAttempted
  CongestionScores = {0, 1, 2}
  QueueDelays = {1, 2}
  Pauses = {1, 2}
  MaxQlScore = 3
  CriticalQl = 1
  CriticalQlScore = 2
INVARIANTS
  ProtectionTypeOK
  OneBucketPerFlow
  NotBlamedForOthers
  ScoreIsKept
  SanctionIsEarned
