CONSTANTS
  Tiers <- MCTiers
  Tier <- MCTier
  Times <- MCTimes
  FirstTimes <- MCFirstTimes
  Classes <- MCClasses
  MaxChanges = 2
  None = None
SPECIFICATION FairSpec
INVARIANTS
  WindowsAccepted
  NoLostTimes
  EditsKept
  OneRequest

  
