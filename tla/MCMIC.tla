------------------------------- MODULE MCMIC -------------------------------
(***************************************************************************)
(* Small instances of module MIC for TLC: two pods, two or three nodes,    *)
(* and the identities and bindings each configuration picks.               *)
(***************************************************************************)
EXTENDS MIC

CONSTANTS p1, p2, i1, i2, n1, n2, n3, v, ridA, ridB, badRid, app

MCPod == {p1, p2}

\* Two pods of one namespace, or the same pod name in two namespaces.
DistinctNames == [p \in MCPod |-> p]
SameNames == [p \in MCPod |-> "web"]
OneNamespace == [p \in MCPod |-> 1]
TwoNamespaces == [p \in MCPod |-> IF p = p1 THEN 1 ELSE 2]

\* The nodes are instances of one scale set, or VMs.
ScaleSet == [n \in Node |-> v]
VMs == [n \in Node |-> None]

MSI(r) == [type |-> "UserAssignedMSI", rid |-> r, cid |-> r, namespaced |-> FALSE]
SP(r) == [type |-> "ServicePrincipal", rid |-> r, cid |-> r, namespaced |-> FALSE]
NamespacedMSI(r) == [type |-> "UserAssignedMSI", rid |-> r, cid |-> r, namespaced |-> TRUE]

OnNodes == [p \in MCPod |-> [node : Node, label : Label]]
OneMoves == [p \in MCPod |-> [node : IF p = p1 THEN Node ELSE {n2}, label : Label]]
AnyPodSpec == [p \in MCPod |-> [node : Node \cup {NoNode}, label : Label] \cup {[node |-> n1, label |-> NoLabel]}]

OneMSI == [ns \in Namespace |-> [i \in IdName |-> {MSI(ridA)}]]
TwoMSIs == [ns \in Namespace |-> [i \in IdName |-> {MSI(ridA), MSI(ridB)}]]
\* Namespace 1 turns to ridB, namespace 2 to a service principal or a malformed identity.
MixedIds == [ns \in Namespace |-> [i \in IdName |-> IF ns = 1 THEN {MSI(ridB)} ELSE {SP(ridB), MSI(badRid)}]]

\* Binding 1 names identity i1, binding 2 identity i2.
Bind(b) == [selector |-> app, azureIdentity |-> IF b = 1 THEN i1 ELSE i2]
Bindings == [ns \in Namespace |-> [b \in BindName |-> {Bind(b)}]]
AllBindings == {[ns \in Namespace |-> [b \in BindName |-> BindRV(Bind(b), 0)]]}

\* Every identity is the MSI ridA to begin with; or one of a few kinds.
AllRidA == {[ns \in Namespace |-> [i \in IdName |-> WithRV(MSI(ridA), 0)]]}
MixedInit == {[ns \in Namespace |-> [i \in IdName |-> IF ns = 1 THEN x ELSE None]] :
                x \in {WithRV(NamespacedMSI(ridA), 0), WithRV(MSI(ridA), 0), WithRV(SP(ridA), 0)}}

EmptyCloud == [t \in Target |-> {}]
=============================================================================
