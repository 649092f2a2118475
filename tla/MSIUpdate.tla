----------------------------- MODULE MSIUpdate -----------------------------
(***************************************************************************)
(* What the cloud provider promises of UpdateUserMSI, and all that module  *)
(* MIC relies on: while a call runs, identities of its add list come and   *)
(* identities of its remove list go, those in both lists only come; a call *)
(* that returns without an error has done all of it.                       *)
(***************************************************************************)
CONSTANTS
  Resource,  \* VMs and scale sets
  Rid,       \* user-assigned identities
  Requests,  \* the add and remove lists of the calls
  InitIds,   \* InitIds[r]: the identities that r starts with
  None

VARIABLES
  ids,     \* ids[r]: the user-assigned identities of r
  req,     \* req[r]: the lists of the running call, or None
  result   \* result[r]: what the last call returned

vars == <<ids, req, result>>

Init ==
  /\ ids = InitIds
  /\ req = [r \in Resource |-> None]
  /\ result = [r \in Resource |-> "ok"]

Start(r) ==
  /\ req[r] = None
  /\ \E q \in Requests : req' = [req EXCEPT ![r] = q]
  /\ UNCHANGED <<ids, result>>

\* The identities of r change while the call runs.
Change(r) ==
  /\ req[r] # None
  /\ \E A \in SUBSET req[r].add, D \in SUBSET (req[r].remove \ req[r].add) :
       ids' = [ids EXCEPT ![r] = (@ \ D) \cup A]
  /\ UNCHANGED <<req, result>>

\* Nothing is left to do.
Complete(r) == req[r].add \subseteq ids[r] /\ (req[r].remove \ req[r].add) \cap ids[r] = {}

\* The call returns.
Finish(r, res) ==
  /\ req[r] # None
  /\ res = "ok" => Complete(r)
  /\ req' = [req EXCEPT ![r] = None]
  /\ result' = [result EXCEPT ![r] = res]
  /\ UNCHANGED ids

Next == \E r \in Resource : Start(r) \/ Change(r) \/ Finish(r, "ok") \/ Finish(r, "error")

Spec == Init /\ [][Next]_vars
=============================================================================
