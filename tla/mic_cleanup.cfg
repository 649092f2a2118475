\* Pods and bindings come and go, identities are edited and detached; UpdateUserMSI and updates of objects fail.
SPECIFICATION FairSpec
INVARIANTS Recorded
PROPERTIES DeletedAfterCleanup EventuallyAssigned EventuallyRemoved
\* MIC rests when nothing is left to do.
CHECK_DEADLOCK FALSE
CONSTANTS
  p1 = p1
  p2 = p2
  i1 = i1
  i2 = i2
  n1 = n1
  n2 = n2
  n3 = n3
  v = v
  ridA = ridA
  ridB = ridB
  badRid = badRid
  app = app
  None = None
  Pod <- MCPod
  PodName <- DistinctNames
  PodNamespace <- OneNamespace
  Namespace = {1}
  IdName = {i1}
  BindName = {1}
  Label = {app}
  Rid = {ridA, ridB}
  InvalidRid = {}
  Cid = {ridA, ridB}
  Node = {n1, n2}
  VMSS = {v}
  VMSSOf <- ScaleSet
  Malformed = {}
  Immutable = {}
  IsNamespaced = FALSE
  PodSpecs <- OneMoves
  IdSpecs <- OneMSI
  BindSpecs <- Bindings
  InitBindings <- AllBindings
  InitIds <- AllRidA
  InitCloud <- EmptyCloud
  Edits = {"pod", "binding", "detach", "identity"}
  MaxEdits = 3
  Faults = {"cloud", "update"}
  MaxFaults = 2
  MaxLag = 1
  Settles = TRUE
