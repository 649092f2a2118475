\* Two namespaces, all kinds of identity, two instances of a scale set and a VM whose provider ID does not parse.
SPECIFICATION Spec
INVARIANTS TypeOK AssignedBacked
PROPERTIES InUseKept
\* MIC rests when nothing is left to do.
CHECK_DEADLOCK FALSE
CONSTANTS
  p1 = p1
  p2 = p2
  i1 = i1
  i2 = i2
  n1 = n1
  n2 = n2
  n3 = n3
  v = v
  ridA = ridA
  ridB = ridB
  badRid = badRid
  app = app
  None = None
  Pod <- MCPod
  PodName <- DistinctNames
  PodNamespace <- TwoNamespaces
  Namespace = {1, 2}
  IdName = {i1}
  BindName = {1}
  Label = {app}
  Rid = {ridA, ridB, badRid}
  InvalidRid = {badRid}
  Cid = {ridA, ridB, badRid}
  Node = {n1, n2, n3}
  VMSS = {v}
  VMSSOf <- ScaleSet
  Malformed = {n3}
  Immutable = {ridB}
  IsNamespaced = FALSE
  PodSpecs <- AnyPodSpec
  IdSpecs <- MixedIds
  BindSpecs <- Bindings
  InitBindings <- AllBindings
  InitIds <- MixedInit
  InitCloud <- EmptyCloud
  Edits = {"pod", "identity"}
  MaxEdits = 2
  Faults = {"cloud", "create"}
  MaxFaults = 2
  MaxLag = 2
  Settles = TRUE
