----------------------------- MODULE MCSyncLoop -----------------------------
(***************************************************************************)
(* A small instance of SyncLoop: more pods than the channel holds events.  *)
(***************************************************************************)
EXTENDS SyncLoop

MCInitialObjects ==
  [i \in Informer |-> CASE i = "pod" -> 2 [] i \in {"binding", "node"} -> 1 [] OTHER -> 0]

MCChange ==
  [i \in Informer |-> CASE i = "pod" -> {"delete", "node", "label", "other"}
                        [] i = "binding" -> {"spec", "resync"}
                        [] i = "identity" -> {"add"}
                        [] i = "node" -> {"add"}
                        [] OTHER -> {}]
=============================================================================
