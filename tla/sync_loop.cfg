SPECIFICATION FairSpec
INVARIANTS TypeOK WakeupPending
PROPERTIES EventuallyActive EventuallyNoticed NoticedByTicker
CONSTANTS
  EventChannelSize = 1
  InitialObjects <- MCInitialObjects
  Change <- MCChange
  MaxChanges = 2
  MaxAborts = 1
