--------------------------- MODULE MCTypeUpgrade ---------------------------
(***************************************************************************)
(* Small instances of TypeUpgrade.                                         *)
(***************************************************************************)
EXTENDS TypeUpgrade

CONSTANTS m1, m2, i1, b1, e1, a1

MCRefOf == [a \in AzureAssignedIdentity |-> {i1, b1}]
=============================================================================
