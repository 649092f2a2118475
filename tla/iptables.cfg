SPECIFICATION FairSpec
CONSTANTS
  None = None
  InitChain <- OldTarget
  EnableConntrackDeletion = TRUE
  MaxEdits = 3
  MaxFaults = 3
  MaxStops = 3
INVARIANT TypeOK
INVARIANT NoBypass
INVARIANT OrderlyExit
PROPERTY NoGap
PROPERTY Repaired
