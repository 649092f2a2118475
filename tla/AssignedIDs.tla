---------------------------- MODULE AssignedIDs ----------------------------
(***************************************************************************)
(* What one sync cycle of MIC computes from the objects it listed: the     *)
(* desired AzureAssignedIdentities, their difference with the existing     *)
(* ones, and which identities the difference adds to and removes from each *)
(* VM and VMSS.  Every operator here is a function of its arguments; the   *)
(* state machine that calls them is in module MIC.                         *)
(*                                                                         *)
(* An AzureAssignedIdentity's name (pod name, pod namespace, identity      *)
(* name joined by "-") is the pair <<pod, identity name>>, where a member  *)
(* of Pod stands for a pod's name and namespace.  A map from names to      *)
(* objects is a function on Name whose value None means "no such key".     *)
(***************************************************************************)
EXTENDS Integers, Sequences

CONSTANTS
  Pod,           \* pods, each a namespace and a name
  PodName,       \* PodName[p]: the name part of pod p
  PodNamespace,  \* PodNamespace[p]: the namespace part of pod p
  Namespace,     \* namespaces: numbers, so that they can be sorted
  IdName,        \* names of AzureIdentities
  BindName,      \* names of AzureIdentityBindings: numbers as well
  Label,         \* values of the pod label aadpodidbinding
  Rid,           \* resource IDs of user-assigned identities
  InvalidRid,    \* the resource IDs that ValidateResourceID rejects
  Cid,           \* client IDs
  Node,          \* Kubernetes nodes; a VM has the name of its node
  VMSS,          \* virtual machine scale sets
  VMSSOf,        \* VMSSOf[n]: the scale set of node n, or None for a VM
  Malformed,     \* nodes whose provider ID does not parse
  Immutable,     \* client IDs on MIC's immutable-user-msis list
  IsNamespaced,  \* MIC's forceNamespaced flag
  None

ASSUME ConstantsAssumption ==
  /\ DOMAIN PodName = Pod
  /\ PodNamespace \in [Pod -> Namespace]
  /\ Namespace \subseteq Nat /\ BindName \subseteq Nat
  /\ InvalidRid \subseteq Rid /\ Immutable \subseteq Cid
  /\ VMSSOf \in [Node -> VMSS \cup {None}]
  /\ Malformed \subseteq Node
  /\ Node \cap VMSS = {}
  /\ IsNamespaced \in BOOLEAN
  /\ None \notin Node \cup VMSS

-----------------------------------------------------------------------------
\* The objects.

NoLabel == "no label"
NoNode == "no node"
NoStatus == "no status"

IDTypes == {"UserAssignedMSI", "ServicePrincipal"}
Status == {NoStatus, "Created", "Assigned", "Unassigned"}

Name == Pod \X IdName
PodSpec == [node : Node \cup {NoNode}, label : Label \cup {NoLabel}]
AzureIdentity == [type : IDTypes, rid : Rid, cid : Cid, namespaced : BOOLEAN, rv : Nat]
Binding == [selector : Label, azureIdentity : IdName, rv : Nat]
AssignedID == [node : Node, id : AzureIdentity, bind : BindName, bindrv : Nat, status : Status]

Target == Node \cup VMSS

PodOf(n) == n[1]
IdOf(n) == n[2]

\* The keys of a map.
Keys(m) == {n \in Name : m[n] # None}

checkIfUserAssignedMSI(id) == id.type = "UserAssignedMSI"

-----------------------------------------------------------------------------
\* The desired AzureAssignedIdentities.

\* An MSI with a malformed resource ID is ignored.
convertIDListToMap(ids) ==
  [ns \in Namespace |-> [i \in IdName |->
    IF /\ ids[ns][i] # None
       /\ checkIfUserAssignedMSI(ids[ns][i])
       /\ ids[ns][i].rid \in InvalidRid
    THEN None ELSE ids[ns][i]]]

\* Mutant: pods that are not scheduled yet are not skipped.
BindingMatchesUnscheduled(pods, bindings, p, ns, b) ==
  pods[p] # None /\ bindings[ns][b] # None /\ bindings[ns][b].selector = pods[p].label

\* Pod p is on a node, carries the label, and binding b of namespace ns selects it.
BindingMatches(pods, bindings, p, ns, b) ==
  /\ pods[p] # None
  /\ pods[p].node # NoNode
  /\ pods[p].label # NoLabel
  /\ bindings[ns][b] # None
  /\ bindings[ns][b].selector = pods[p].label

\* The matching bindings that give pod p the identity named i.
Candidates(pods, bindings, ids, p, i) ==
  LET idMap == convertIDListToMap(ids)
  IN {c \in Namespace \X BindName :
        LET ns == c[1]  b == c[2]
        IN /\ BindingMatches(pods, bindings, p, ns, b)
           /\ bindings[ns][b].azureIdentity = i
           /\ idMap[ns][i] # None
           /\ IsNamespaced \/ idMap[ns][i].namespaced => ns = PodNamespace[p]}

\* The sort order of AzureIdentityBindings: namespace, then name.
Less(c, d) == c[1] < d[1] \/ (c[1] = d[1] /\ c[2] < d[2])

FirstBinding(S) == CHOOSE c \in S : \A d \in S \ {c} : Less(c, d)

makeAssignedIDs(id, b, bindrv, node) ==
  [node |-> node, id |-> id, bind |-> b, bindrv |-> bindrv, status |-> NoStatus]

createDesiredAssignedIdentityList(pods, bindings, ids) ==
  [n \in Name |->
     LET p == PodOf(n)
         i == IdOf(n)
         S == Candidates(pods, bindings, ids, p, i)
         c == FirstBinding(S)
     IN IF S = {} THEN None
        ELSE makeAssignedIDs(ids[c[1]][i], c[2], bindings[c[1]][c[2]].rv, pods[p].node)]

\* The nodes of the pods that some binding selects, identity found or not.
NodeRefs(pods, bindings) ==
  {pods[p].node : p \in {q \in Pod : \E ns \in Namespace, b \in BindName :
                                       BindingMatches(pods, bindings, q, ns, b)}}

-----------------------------------------------------------------------------
\* The difference between the existing objects (old) and the desired ones (new).

matchAssignedID(x, y) ==
  /\ x.bind = y.bind /\ x.bindrv = y.bindrv
  /\ x.id.rv = y.id.rv
  /\ x.node = y.node

SameID(old, new, n) == old[n] # None /\ new[n] # None /\ matchAssignedID(old[n], new[n])

\* Mutant: an object that stayed in Created is not retried.
CreateWithoutRetry(old, new) == [n \in Name |-> IF SameID(old, new, n) THEN None ELSE new[n]]

\* New names, changed ones, and those whose assignment is still to be retried.
getAzureAssignedIDsToCreate(old, new) ==
  [n \in Name |->
     CASE new[n] = None -> None
       [] new[n] # None /\ ~SameID(old, new, n) -> new[n]
       [] new[n] # None /\ SameID(old, new, n) /\ old[n].status = "Created" -> old[n]
       [] OTHER -> None]

\* Mutant: only Assigned objects are deleted.
DeleteAssignedOnly(old, new) ==
  [n \in Name |-> IF SameID(old, new, n) \/ (old[n] # None /\ old[n].status # "Assigned") THEN None ELSE old[n]]

getAzureAssignedIDsToDelete(old, new) ==
  [n \in Name |-> IF SameID(old, new, n) THEN None ELSE old[n]]

\* The names in both lists; they leave the two lists and become updates.
ToUpdate(add, del) == Keys(add) \cap Keys(del)

-----------------------------------------------------------------------------
\* Where an identity lives, and whether it is still in use there.

\* isVMSS: the scale set of a node.
isVMSS(n) == n \notin Malformed /\ VMSSOf[n] # None

\* The key of node n in the node map after consolidateVMSSNodes.
TargetOf(n) == IF isVMSS(n) THEN VMSSOf[n] ELSE n

\* getVMSSGroups fails when the provider ID of a referenced node does not parse.
VMSSGroupsError(nodes, nodeRefs) == nodeRefs \cap nodes \cap Malformed # {}

\* Some other pod of the desired list uses the client ID: a candidate for "in use".
Shares(n, o, new, m) ==
  /\ new[m] # None
  /\ checkIfUserAssignedMSI(o.id)
  /\ PodName[PodOf(n)] # PodName[PodOf(m)]
  /\ o.id.cid = new[m].id.cid

\* Nodes x and y are instances of one scale set, both known to the node cache.
SameVMSS(nodes, x, y) == {x, y} \subseteq nodes /\ isVMSS(x) /\ isVMSS(y) /\ VMSSOf[x] = VMSSOf[y]

\* Mutant: the other instances of the scale set are not looked at.
InUseOnNodeOnly(n, o, new, nodes) == \E m \in Name : Shares(n, o, new, m) /\ o.node = new[m].node

checkIfInUse(n, o, new, nodes) ==
  \E m \in Name : /\ Shares(n, o, new, m)
                  /\ o.node = new[m].node \/ SameVMSS(nodes, o.node, new[m].node)

\* The scale set of o's own node is looked up for a candidate on another node.
checkIfInUseError(n, o, new, nodes) ==
  /\ o.node \in nodes \cap Malformed
  /\ \E m \in Name : Shares(n, o, new, m) /\ o.node # new[m].node

checkIfIdentityImmutable(id) == id.cid \in Immutable

shouldRemoveID(n, o, new, nodes) ==
  /\ ~checkIfInUseError(n, o, new, nodes)
  /\ o.status \in {"Assigned", NoStatus}
  /\ ~checkIfInUse(n, o, new, nodes)
  /\ checkIfUserAssignedMSI(o.id)
  /\ ~checkIfIdentityImmutable(o.id)

\* Mutant: an object that stayed in Created is not assigned.
AssignNewOnly(o) == o.status = NoStatus /\ checkIfUserAssignedMSI(o.id)

shouldAssignID(o) == o.status \in {NoStatus, "Created"} /\ checkIfUserAssignedMSI(o.id)

\* The worker for o is that of t; a node that is gone has none.
consolidateVMSSNodes(o, nodes, t) == o.node \in nodes /\ TargetOf(o.node) = t

\* Per VM/VMSS, the identities to take off and to put on.
getListOfIdsToDelete(del, new, nodes, nodeRefs, t) ==
  {del[n].id.rid : n \in {m \in Keys(del) : /\ ~VMSSGroupsError(nodes, nodeRefs)
                                           /\ shouldRemoveID(m, del[m], new, nodes)
                                           /\ consolidateVMSSNodes(del[m], nodes, t)}}

getListOfIdsToAssign(add, nodes, t) ==
  {add[n].id.rid : n \in {m \in Keys(add) : shouldAssignID(add[m]) /\ consolidateVMSSNodes(add[m], nodes, t)}}
=============================================================================
