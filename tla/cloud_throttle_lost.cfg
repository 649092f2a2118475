SPECIFICATION Spec
CONSTANTS
  vm1 = vm1
  vm2 = vm2
  a = a
  b = b
  c = c
  None = None
  Resource <- TwoVMs
  KindOf <- Kinds
  Rid = {a}
  Spelling = {"lower"}
  Requests <- OneList
  InitAzure <- Bare
  Erroneous = {}
  Deleting = {}
  Faults = {"error", "throttled"}
  MaxWrites = 0
  Unreadable = {}
  maxIdentitiesCount = 2
  maxRetry = 1
PROPERTY ThrottleHonoured
