SPECIFICATION FairSpec
CONSTANTS
  n1 = n1
  n2 = n2
  web = web
  ip1 = ip1
  ip2 = ip2
  i1 = i1
  i2 = i2
  None = None
  Pod <- SameName
  IP = {ip1}
  LabelOf <- Labels
  Excepted <- OfSecond
  MICPods = {}
  Identity <- TwoIds
  Assignable <- OfNamespace
  InitAssigned <- OneOfOldMIC
  Binding = {}
  Query <- EveryKind
  mode = "standard"
  BlockInstanceMetadata = TRUE
  IsNamespaced = FALSE
  MetadataHeaderRequired = TRUE
  SetRetryAfterHeader = TRUE
  RetryAttemptsForCreated = 1
  RetryAttemptsForAssigned = 1
  getPodListRetries = 1
INVARIANT TypeOK
INVARIANT LookupNeverPanics
INVARIANT Unclaimed
PROPERTY OwnIdentity
PROPERTY Answered
PROPERTY ServedWhenAssigned
