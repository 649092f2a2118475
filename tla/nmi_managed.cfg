SPECIFICATION Spec
CONSTANTS
  n1 = n1
  n2 = n2
  web = web
  ip1 = ip1
  ip2 = ip2
  i1 = i1
  i2 = i2
  None = None
  Pod <- SameName
  IP = {ip1, ip2}
  LabelOf <- Labels
  Excepted = {}
  MICPods = {}
  Identity <- IdsOfTwoNamespaces
  Assignable = {}
  InitAssigned <- NothingAssigned
  Binding <- Bindings
  Query <- WellFormed
  mode = "managed"
  BlockInstanceMetadata = FALSE
  IsNamespaced = TRUE
  MetadataHeaderRequired = TRUE
  SetRetryAfterHeader = FALSE
  RetryAttemptsForCreated = 1
  RetryAttemptsForAssigned = 1
  getPodListRetries = 1
PROPERTY OwnIdentity
