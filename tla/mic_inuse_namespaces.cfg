\* The same pod name in two namespaces.
SPECIFICATION Spec
PROPERTIES InUseKept
\* MIC rests when nothing is left to do.
CHECK_DEADLOCK FALSE
CONSTANTS
  p1 = p1
  p2 = p2
  i1 = i1
  i2 = i2
  n1 = n1
  n2 = n2
  n3 = n3
  v = v
  ridA = ridA
  ridB = ridB
  badRid = badRid
  app = app
  None = None
  Pod <- MCPod
  PodName <- SameNames
  PodNamespace <- TwoNamespaces
  Namespace = {1, 2}
  IdName = {i1}
  BindName = {1}
  Label = {app}
  Rid = {ridA, ridB}
  InvalidRid = {}
  Cid = {ridA, ridB}
  Node = {n1, n2}
  VMSS = {v}
  VMSSOf <- ScaleSet
  Malformed = {}
  Immutable = {}
  IsNamespaced = FALSE
  PodSpecs <- OnNodes
  IdSpecs <- TwoMSIs
  BindSpecs <- Bindings
  InitBindings <- AllBindings
  InitIds <- AllRidA
  InitCloud <- EmptyCloud
  Edits = {"pod"}
  MaxEdits = 1
  Faults = {}
  MaxFaults = 0
  MaxLag = 2
  Settles = TRUE
