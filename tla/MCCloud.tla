------------------------------ MODULE MCCloud ------------------------------
(***************************************************************************)
(* Small instances of CloudProvider.                                       *)
(***************************************************************************)
EXTENDS CloudProvider

CONSTANTS vm1, vm2, a, b, c

OneVM == {vm1}
TwoVMs == {vm1, vm2}
Kinds == [r \in Resource |-> "vm"]

\* Lists that overlap or not and fit in one PATCH or not, each identity in lower case;
\* b is on the resource at the start and a is not.
LowerCase(S) == {<<x, "lower">> : x \in S}
Lists == {[add |-> LowerCase(A), remove |-> LowerCase(D)] : A \in SUBSET Rid, D \in {{}, {b}, {a, b}}}

\* Every call assigns a.
OneList == {[add |-> LowerCase({a}), remove |-> {}]}

BothKinds == [r \in Resource |-> [ids |-> {b}, type |-> "SystemAssignedUserAssigned"]]
Bare == [r \in Resource |-> [ids |-> {}, type |-> "None"]]
=============================================================================
