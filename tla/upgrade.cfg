SPECIFICATION FairSpec
CONSTANTS
  m1 = m1  m2 = m2  i1 = i1  b1 = b1  e1 = e1  a1 = a1
  None = None
  Replica = {m1, m2}
  AzureIdentity = {i1}
  AzureIdentityBinding = {b1}
  AzurePodIdentityException = {e1}
  AzureAssignedIdentity = {a1}
  RefOf <- MCRefOf
  Old = {i1, b1, e1, a1}
  EnableTypeUpgrade = TRUE
  MaxEdits = 2
  MaxFaults = 2
INVARIANTS TypeOK UpgradeRecorded NoCycleTriggered
PROPERTIES NoLostEdit EventuallySyncing
CHECK_DEADLOCK FALSE
