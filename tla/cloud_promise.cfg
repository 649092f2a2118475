SPECIFICATION FairSpec
CONSTANTS
  vm1 = vm1
  vm2 = vm2
  a = a
  b = b
  c = c
  None = None
  Resource <- OneVM
  KindOf <- Kinds
  Rid = {a, b, c}
  Spelling = {"lower"}
  Requests <- Lists
  InitAzure <- BothKinds
  Erroneous = {b, c}
  Deleting = {}
  Faults = {"error", "throttled", "wait"}
  MaxWrites = 2
  Unreadable = {1}
  maxIdentitiesCount = 2
  maxRetry = 1
INVARIANT TypeOK
INVARIANT ErroneousIsolated
PROPERTY PromiseKept
PROPERTY Returns
PROPERTY SystemKeptWithUser
PROPERTY Reloaded
