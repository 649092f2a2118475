\* The removal of an object fails after its status went to Unassigned.
SPECIFICATION FairSpec
PROPERTIES EventuallyAssigned
\* MIC rests when nothing is left to do.
CHECK_DEADLOCK FALSE
CONSTANTS
  p1 = p1
  p2 = p2
  i1 = i1
  i2 = i2
  n1 = n1
  n2 = n2
  n3 = n3
  v = v
  ridA = ridA
  ridB = ridB
  badRid = badRid
  app = app
  None = None
  Pod <- MCPod
  PodName <- DistinctNames
  PodNamespace <- OneNamespace
  Namespace = {1}
  IdName = {i1}
  BindName = {1}
  Label = {app}
  Rid = {ridA, ridB}
  InvalidRid = {}
  Cid = {ridA, ridB}
  Node = {n1, n2}
  VMSS = {v}
  VMSSOf <- ScaleSet
  Malformed = {}
  Immutable = {}
  IsNamespaced = FALSE
  PodSpecs <- OnNodes
  IdSpecs <- TwoMSIs
  BindSpecs <- Bindings
  InitBindings <- AllBindings
  InitIds <- AllRidA
  InitCloud <- EmptyCloud
  Edits = {"pod"}
  MaxEdits = 2
  Faults = {"remove"}
  MaxFaults = 1
  MaxLag = 1
  Settles = TRUE
