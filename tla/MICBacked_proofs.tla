-------------------------- MODULE MICBacked_proofs --------------------------
(***************************************************************************)
(* What MIC's running cycle keeps true: its tasks and its lists agree with *)
(* the API server.  The theorem: an AzureAssignedIdentity that says        *)
(* Assigned is backed by its identity on the VM/VMSS, for any number of    *)
(* pods, nodes, identities, edits and failures, under hypotheses on which  *)
(* calls may fail.  MIC names them, and README says why each is needed.    *)
(***************************************************************************)
EXTENDS MIC_proofs

-----------------------------------------------------------------------------
\* What a cycle sets out to do, given that the cache is up to date and every node
\* is there.

NewTaskFor(op, o, step) == [op |-> op, obj |-> o, fresh |-> TRUE, step |-> step]

Planned(n) ==
  IF Desired[n] = None THEN IF api[n] = None THEN None ELSE NewTaskFor("delete", api[n], "cloud")
  ELSE IF api[n] = None THEN NewTaskFor("create", Desired[n], "write")
  ELSE IF ~matchAssignedID(api[n], Desired[n]) THEN NewTaskFor("update", Desired[n], "write")
  ELSE IF api[n].status = "Created" THEN NewTaskFor("create", api[n], "cloud")
  ELSE None

\* A cycle starts from what is stored, with every node there.
LEMMA AtRest ==
  ASSUME TypeOK, Rest, cycle = "idle"
  PROVE  cache = api /\ nodes = Node /\ \A n \in Name : Current(n)
BY Zenon, CaughtUp DEF Rest

\* What is desired is a map of new objects.
LEMMA DesiredMap ==
  ASSUME TypeOK
  PROVE  Desired \in Maps /\ \A n \in Name : Desired[n] # None => Desired[n] \in AssignedID /\ Desired[n].status = NoStatus
<1>1. Views(pods, bindings, ids)
  BY Zenon DEF TypeOK, Views
<1>2. Desired \in Maps
  BY Zenon, <1>1, DesiredType DEF Desired
<1>3. \A n \in Name : Desired[n] # None => Desired[n].status = NoStatus
  BY <1>1, DesiredNode DEF Desired
<1> QED BY Zenon, <1>2, <1>3 DEF Maps

\* The parts of the difference, name by name.
LEMMA Difference ==
  ASSUME NEW old, NEW new, NEW n \in Name
  PROVE  LET add == getAzureAssignedIDsToCreate(old, new)[n]
             del == getAzureAssignedIDsToDelete(old, new)[n]
         IN /\ new[n] = None => add = None /\ del = old[n]
            /\ new[n] # None /\ old[n] = None => add = new[n] /\ del = None
            /\ new[n] # None /\ old[n] # None /\ ~matchAssignedID(old[n], new[n]) => add = new[n] /\ del = old[n]
            /\ new[n] # None /\ old[n] # None /\ matchAssignedID(old[n], new[n])
               => del = None /\ add = IF old[n].status = "Created" THEN old[n] ELSE None
<1>1. getAzureAssignedIDsToDelete(old, new)[n] = IF SameID(old, new, n) THEN None ELSE old[n]
  BY Zenon DEF getAzureAssignedIDsToDelete
<1>2. /\ new[n] = None => getAzureAssignedIDsToCreate(old, new)[n] = None
      /\ new[n] # None /\ ~SameID(old, new, n) => getAzureAssignedIDsToCreate(old, new)[n] = new[n]
      /\ new[n] # None /\ SameID(old, new, n) =>
           getAzureAssignedIDsToCreate(old, new)[n] = IF old[n].status = "Created" THEN old[n] ELSE None
  BY Zenon DEF getAzureAssignedIDsToCreate
<1> QED BY Zenon, <1>1, <1>2 DEF SameID

\* The tasks of a cycle.
LEMMA SyncTask ==
  ASSUME TypeOK, Rest, Sync
  PROVE  /\ \A n \in Name : task'[n] = Planned(n)
         /\ snap' \in Snap /\ snap'.want = Desired /\ snap'.nodeRefs = NodeRefs(pods, bindings) /\ snap'.nodes = nodes
<1> DEFINE new == Desired
           add == getAzureAssignedIDsToCreate(api, new)
           del == getAzureAssignedIDsToDelete(api, new)
<1>1. cache = api /\ nodes = Node /\ \A n \in Name : Current(n)
  BY Zenon, AtRest DEF Sync
<1>2. /\ task' = [n \in Name |-> NewTask(add, del, n)]
      /\ snap' = [want |-> new, nodeRefs |-> NodeRefs(pods, bindings), nodes |-> nodes]
  BY Zenon, <1>1 DEF Sync, Desired
<1>3. snap' \in Snap
  <2>1. NodeRefs(pods, bindings) \in SUBSET Node
    BY Zenon DEF NodeRefs, BindingMatches, TypeOK, PodSpec
  <2>2. new \in [Name -> AssignedID \cup {None}]
    BY Zenon, DesiredMap DEF Maps
  <2> QED BY Zenon, <1>1, <1>2, <2>1, <2>2 DEF Snap
<1>4. snap'.want = Desired /\ snap'.nodeRefs = NodeRefs(pods, bindings) /\ snap'.nodes = nodes
  BY Zenon, <1>2
<1>5. ASSUME NEW n \in Name PROVE NewTask(add, del, n) = Planned(n)
  <2>0. /\ Desired[n] # None => Desired[n].status = NoStatus /\ Desired[n].node \in nodes
        /\ api[n] # None => api[n].node \in nodes
    <3>1. \A o \in AssignedID : o.node \in Node
      BY Zenon DEF AssignedID
    <3>2. api[n] # None => api[n] \in AssignedID
      BY Zenon DEF TypeOK
    <3> QED BY Zenon, <1>1, <3>1, <3>2, DesiredMap
  <2>1. Current(n) = TRUE
    BY Zenon, <1>1 DEF Current
  <2>2. /\ n \in Keys(add) <=> add[n] # None
        /\ n \in Keys(del) <=> del[n] # None
        /\ n \in ToUpdate(add, del) <=> add[n] # None /\ del[n] # None
    BY Zenon DEF Keys, ToUpdate
  <2>3. /\ Desired[n] = None => add[n] = None /\ del[n] = api[n]
        /\ Desired[n] # None /\ api[n] = None => add[n] = Desired[n] /\ del[n] = None
        /\ Desired[n] # None /\ api[n] # None /\ ~matchAssignedID(api[n], Desired[n]) => add[n] = Desired[n] /\ del[n] = api[n]
        /\ Desired[n] # None /\ api[n] # None /\ matchAssignedID(api[n], Desired[n])
           => del[n] = None /\ add[n] = IF api[n].status = "Created" THEN api[n] ELSE None
    BY Zenon, Difference
  <2> HIDE DEF add, del, new
  <2>4. CASE Desired[n] = None
    BY Zenon, <2>0, <2>1, <2>2, <2>3, <2>4 DEF NewTask, Planned, NewTaskFor
  <2>5. CASE Desired[n] # None /\ api[n] = None
    BY Zenon, <2>0, <2>1, <2>2, <2>3, <2>5 DEF NewTask, Planned, NewTaskFor
  <2>6. CASE Desired[n] # None /\ api[n] # None /\ ~matchAssignedID(api[n], Desired[n])
    BY Zenon, <2>0, <2>1, <2>2, <2>3, <2>6 DEF NewTask, Planned, NewTaskFor
  <2>7. CASE Desired[n] # None /\ api[n] # None /\ matchAssignedID(api[n], Desired[n])
    BY Zenon, <2>0, <2>1, <2>2, <2>3, <2>7 DEF NewTask, Planned, NewTaskFor, NoStatus
  <2> QED BY Zenon, <2>4, <2>5, <2>6, <2>7
<1>6. \A n \in Name : task'[n] = Planned(n)
  BY Zenon, <1>2, <1>5
<1> QED BY Zenon, <1>3, <1>4, <1>6

\* The task of n puts the identity x on the VM/VMSS t; or takes it off.
Assigns(n, x, t) == task[n] # None /\ task[n].op # "delete" /\ Uses(task[n].obj, x, t)
Deletes(n, x, t) == task[n] # None /\ task[n].op = "delete" /\ Uses(task[n].obj, x, t)

\* The lists of the UpdateUserMSI call of t are those of its tasks.
ListInv(t) ==
  plan[t] # None =>
    /\ \A x \in Rid : x \in plan[t].add <=> \E n \in Name : Assigns(n, x, t)
    /\ \A n \in Name, x \in Rid :
         /\ Deletes(n, x, t) /\ ~VMSSGroupsError(nodes, snap.nodeRefs)
         /\ shouldRemoveID(n, task[n].obj, snap.want, nodes)
         => x \in plan[t].remove
    /\ VMSSGroupsError(nodes, snap.nodeRefs) => plan[t].remove = {}

\* The calls of a cycle.
LEMMA SyncPlan ==
  ASSUME TypeOK, Rest, Sync, NEW t \in Target
  PROVE  /\ ListInv(t)'
         /\ \A n \in Name : task'[n] # None /\ TargetOf(task'[n].obj.node) = t => plan'[t] # None
<1> DEFINE new == Desired
           refs == NodeRefs(pods, bindings)
           add == getAzureAssignedIDsToCreate(api, new)
           del == getAzureAssignedIDsToDelete(api, new)
           addIDs == getListOfIdsToAssign(add, nodes, t)
           removeIDs == getListOfIdsToDelete(del, new, nodes, refs, t)
<1>1. cache = api /\ nodes = Node
  BY Zenon, AtRest DEF Sync
<1>2. /\ task' = [n \in Name |-> NewTask(add, del, n)]
      /\ plan' = [u \in Target |-> NewPlan(add, del, new, refs, u)]
      /\ nodes' = nodes
  BY Zenon, <1>1 DEF Sync, Desired, env
<1>3. snap'.want = new /\ snap'.nodeRefs = refs
  BY Zenon, SyncTask
<1>4. ASSUME NEW n \in Name
      PROVE  /\ add[n] # None <=> task'[n] # None /\ task'[n].op # "delete"
             /\ add[n] # None => add[n] \in AssignedID /\ task'[n].obj = add[n] /\ add[n].status \in {NoStatus, "Created"}
             /\ task'[n] # None /\ task'[n].op = "delete" => del[n] # None /\ del[n] = task'[n].obj
             /\ del[n] # None => del[n] \in AssignedID
  <2>1. /\ Desired[n] = None => add[n] = None /\ del[n] = api[n]
        /\ Desired[n] # None /\ api[n] = None => add[n] = Desired[n] /\ del[n] = None
        /\ Desired[n] # None /\ api[n] # None /\ ~matchAssignedID(api[n], Desired[n]) => add[n] = Desired[n] /\ del[n] = api[n]
        /\ Desired[n] # None /\ api[n] # None /\ matchAssignedID(api[n], Desired[n])
           => del[n] = None /\ add[n] = IF api[n].status = "Created" THEN api[n] ELSE None
    BY Zenon, Difference
  <2>2. /\ Desired[n] # None => Desired[n] \in AssignedID /\ Desired[n].status = NoStatus
        /\ api[n] # None => api[n] \in AssignedID
    BY Zenon, DesiredMap DEF TypeOK
  <2>3. \A op \in {"create", "update", "delete"}, o \in AssignedID, step \in Step :
          /\ NewTaskFor(op, o, step) # None
          /\ NewTaskFor(op, o, step).op = op /\ NewTaskFor(op, o, step).obj = o
    <3> SUFFICES ASSUME NEW op \in {"create", "update", "delete"}, NEW o \in AssignedID, NEW step \in Step
                 PROVE  NewTaskFor(op, o, step) # None /\ NewTaskFor(op, o, step).op = op /\ NewTaskFor(op, o, step).obj = o
      OBVIOUS
    <3>1. NewTaskFor(op, o, step) \in Task
      BY Zenon DEF NewTaskFor, Task
    <3>2. NewTaskFor(op, o, step) # None
      BY Zenon, <3>1, NoneAssumption
    <3>3. NewTaskFor(op, o, step).op = op /\ NewTaskFor(op, o, step).obj = o
      BY Zenon DEF NewTaskFor
    <3> QED BY Zenon, <3>2, <3>3
  <2>4. task'[n] = Planned(n)
    BY Zenon, SyncTask
  <2>5. "write" \in Step /\ "cloud" \in Step
    BY Zenon DEF Step
  <2> HIDE DEF add, del, new
  <2> QED BY <2>1, <2>2, <2>3, <2>4, <2>5 DEF Planned
<1>5. plan'[t] = IF addIDs \cup removeIDs = {} /\ {n \in Name : task'[n] # None /\ consolidateVMSSNodes(task'[n].obj, nodes, t)} = {}
                 THEN None ELSE [add |-> addIDs, remove |-> removeIDs]
  BY Zenon, <1>2 DEF NewPlan
<1> HIDE DEF add, del, new, refs
<1>6. \A x : x \in addIDs <=> \E n \in Name : Assigns(n, x, t)'
  <2>1. \A n \in Name : add[n] # None => add[n].node \in nodes
    BY Zenon, <1>1, <1>4 DEF AssignedID
  <2>2. \A n \in Name : \A x : Assigns(n, x, t)' <=> add[n] # None /\ checkIfUserAssignedMSI(add[n].id) /\ add[n].id.rid = x /\ TargetOf(add[n].node) = t
    BY Zenon, <1>4, NoneAssumption DEF Assigns, Uses
  <2>3. \A n \in Name : add[n] # None => shouldAssignID(add[n]) = checkIfUserAssignedMSI(add[n].id)
    BY Zenon, <1>4 DEF shouldAssignID, checkIfUserAssignedMSI
  <2>4. addIDs = {add[n].id.rid : n \in {m \in Name : /\ add[m] # None /\ checkIfUserAssignedMSI(add[m].id)
                                                     /\ TargetOf(add[m].node) = t}}
    BY Zenon, <2>1, <2>3 DEF getListOfIdsToAssign, consolidateVMSSNodes, Keys
  <2> QED BY Zenon, <2>2, <2>4
<1>7. \A n \in Name : \A x : /\ Deletes(n, x, t)' /\ ~VMSSGroupsError(nodes, refs)
                               /\ shouldRemoveID(n, task'[n].obj, new, nodes) => x \in removeIDs
  <2>1. \A n \in Name : del[n] # None => del[n].node \in nodes
    BY Zenon, <1>1, <1>4 DEF AssignedID
  <2>2. \A n \in Name : \A x : Deletes(n, x, t)' => del[n] # None /\ del[n] = task'[n].obj /\ del[n].id.rid = x /\ TargetOf(del[n].node) = t
    BY Zenon, <1>4 DEF Deletes, Uses
  <2> SUFFICES ASSUME NEW n \in Name, NEW x, Deletes(n, x, t)', ~VMSSGroupsError(nodes, refs),
                      shouldRemoveID(n, task'[n].obj, new, nodes)
               PROVE  x \in removeIDs
    BY Zenon
  <2>3. del[n] # None /\ del[n].id.rid = x /\ shouldRemoveID(n, del[n], new, nodes) /\ consolidateVMSSNodes(del[n], nodes, t)
    BY Zenon, <2>1, <2>2 DEF consolidateVMSSNodes
  <2> QED BY Zenon, <2>3 DEF getListOfIdsToDelete, Keys
<1>8. VMSSGroupsError(nodes, refs) => removeIDs = {}
  BY Zenon DEF getListOfIdsToDelete
<1>9. [add |-> addIDs, remove |-> removeIDs] # None
  <2>1. \A n \in Name : /\ add[n] # None => add[n].id.rid \in Rid
                        /\ del[n] # None => del[n].id.rid \in Rid
    BY Zenon, <1>4 DEF AssignedID, AzureIdentity
  <2>2. addIDs \subseteq Rid /\ removeIDs \subseteq Rid
    BY Zenon, <2>1 DEF getListOfIdsToAssign, getListOfIdsToDelete, Keys
  <2>3. [add |-> addIDs, remove |-> removeIDs] \in Plan
    BY Zenon, <2>2 DEF Plan
  <2> QED BY Zenon, <2>3, NoneAssumption
<1> HIDE DEF addIDs, removeIDs
<1>10. ASSUME NEW n \in Name, task'[n] # None, TargetOf(task'[n].obj.node) = t PROVE plan'[t] # None
  <2>1. task'[n].obj \in AssignedID
    BY Zenon, <1>4, <1>10
  <2>2. consolidateVMSSNodes(task'[n].obj, nodes, t)
    BY Zenon, <1>1, <1>10, <2>1 DEF consolidateVMSSNodes, AssignedID
  <2> QED BY Zenon, <1>5, <1>9, <1>10, <2>2
<1>11. plan'[t] # None => plan'[t].add = addIDs /\ plan'[t].remove = removeIDs
  BY <1>5
<1>12. ListInv(t)'
  BY Zenon, <1>2, <1>3, <1>6, <1>7, <1>8, <1>11 DEF ListInv
<1> QED BY Zenon, <1>10, <1>12

-----------------------------------------------------------------------------
\* The steps of the workers, as the invariants see them.

WriteEffect(n) ==
  /\ task[n].step = "write" /\ task'[n] = WithStep(task[n], "cloud")
  /\ LET accepted == IF task[n].op = "create" THEN api[n] = None ELSE task[n].fresh
     IN \/ accepted /\ api'[n] = SetStatus(task[n].obj, "Created")
        \/ ~accepted /\ api'[n] = api[n]
        \/ task[n].op \in Faults /\ api'[n] = api[n]

AssignedEffect(n) ==
  /\ task[n].step = "patch" /\ task'[n] = None
  /\ api'[n] = IF api[n] = None THEN None ELSE SetStatus(api[n], "Assigned")

UnassignedEffect(n) ==
  /\ task[n].step = "unassign"
  /\ \/ api[n] # None /\ api'[n] = SetStatus(api[n], "Unassigned") /\ task'[n] = WithStep(task[n], "remove")
     \/ api[n] = None /\ api'[n] = None /\ task'[n] = None

RemoveEffect(n) ==
  /\ task[n].step = "remove" /\ task'[n] = None
  /\ api'[n] = None \/ ("remove" \in Faults /\ api'[n] = api[n])

AfterErrorEffect(n) ==
  LET o == task[n].obj
      inUse == checkIfInUse(n, o, snap.want, nodes)
      checkErr == checkIfInUseError(n, o, snap.want, nodes)
      getErr == VMSSGroupsError(nodes, snap.nodeRefs)
  IN /\ task[n].step \in {"held", "gone"} /\ api'[n] = api[n]
     /\ \/ /\ getErr \/ checkErr \/ (task[n].step = "held" /\ ~inUse)
           /\ task'[n] = None
        \/ /\ task[n].step = "gone" \/ inUse
           /\ task'[n] = WithStep(task[n], "remove")

\* A write changes the object under its name only.
LEMMA PutEffect ==
  ASSUME TypeOK, NEW n \in Name, NEW o, Put(n, o)
  PROVE  api'[n] = o /\ \A m \in Name \ {n} : api'[m] = api[m]
<1>1. CASE o = api[n] /\ UNCHANGED store
  BY Zenon, <1>1 DEF store
<1>2. CASE api' = [api EXCEPT ![n] = o]
  BY Zenon, <1>2 DEF TypeOK
<1> QED BY Zenon, <1>1, <1>2 DEF Put

\* A worker's call for one object.
LEMMA TaskEffect ==
  ASSUME TypeOK, Steady, NEW n \in Name, TaskStep(n)
  PROVE  /\ task[n] \in Task /\ task[n] # None
         /\ \A m \in Name \ {n} : task'[m] = task[m] /\ api'[m] = api[m]
         /\ WriteEffect(n) \/ AssignedEffect(n) \/ UnassignedEffect(n) \/ RemoveEffect(n) \/ AfterErrorEffect(n)
<1>0. "status" \notin Faults
  BY Zenon DEF Steady
<1>1. task[n] \in Task /\ task[n] # None
  BY Zenon, TaskKept
<1>2. \A s : Goto(n, s) => task'[n] = WithStep(task[n], s) /\ \A m \in Name \ {n} : task'[m] = task[m]
  BY Zenon DEF TypeOK, Goto, WithStep
<1>3. Done(n) => task'[n] = None /\ \A m \in Name \ {n} : task'[m] = task[m]
  BY Zenon DEF TypeOK, Done
<1>4. \A m \in Name \ {n} : task'[m] = task[m]
  BY Zenon, <1>2, <1>3 DEF TaskStep, Write, PatchAssigned, PatchUnassigned, RemoveAssignedIdentity, DeleteAfterError
<1>5. UNCHANGED store => \A m \in Name : api'[m] = api[m]
  BY Zenon DEF store
<1>6. \A m \in Name \ {n} : api'[m] = api[m]
  BY Zenon, <1>5, PutEffect, TaskStepFrame
<1>7. CASE Write(n)
  <2>1. WriteEffect(n)
    BY Zenon, <1>2, <1>5, <1>7, PutEffect DEF Write, WriteEffect, Fault
  <2> QED BY Zenon, <1>1, <1>4, <1>6, <2>1
<1>8. CASE PatchAssigned(n)
  <2>1. AssignedEffect(n)
    BY Zenon, <1>0, <1>3, <1>5, <1>8, PutEffect DEF PatchAssigned, AssignedEffect, Fault
  <2> QED BY Zenon, <1>1, <1>4, <1>6, <2>1
<1>9. CASE PatchUnassigned(n)
  <2>1. UnassignedEffect(n)
    BY Zenon, <1>0, <1>2, <1>3, <1>5, <1>9, PutEffect DEF PatchUnassigned, UnassignedEffect, Fault
  <2> QED BY Zenon, <1>1, <1>4, <1>6, <2>1
<1>10. CASE RemoveAssignedIdentity(n)
  <2>1. RemoveEffect(n)
    BY Zenon, <1>3, <1>5, <1>10, PutEffect DEF RemoveAssignedIdentity, RemoveEffect, Fault
  <2> QED BY Zenon, <1>1, <1>4, <1>6, <2>1
<1>11. CASE DeleteAfterError(n)
  <2>1. AfterErrorEffect(n)
    BY Zenon, <1>2, <1>3, <1>5, <1>11 DEF DeleteAfterError, AfterErrorEffect
  <2> QED BY Zenon, <1>1, <1>4, <1>6, <2>1
<1> QED BY Zenon, <1>7, <1>8, <1>9, <1>10, <1>11 DEF TaskStep

\* UpdateUserMSI succeeds: the lists are applied, and the objects go on.
UpdateEffect(t) ==
  /\ cloud'[t] = (cloud[t] \ plan[t].remove) \cup plan[t].add
  /\ \A n \in Name : At(n, t) /\ task[n].step = "cloud" =>
       task'[n] = WithStep(task[n], IF task[n].op = "delete" THEN "unassign" ELSE "patch")

\* It fails, and the GET after it says what is on the VM/VMSS.
UpdateErrorEffect(t) ==
  /\ "cloud" \in Faults
  /\ \A x : x \in cloud'[t] => x \in cloud[t] \cup plan[t].add
  /\ \A x : x \in cloud[t] \ cloud'[t] => x \in plan[t].remove \ plan[t].add
  /\ \A n \in Name : At(n, t) /\ task[n].step = "cloud" =>
       LET exists == checkIfUserAssignedMSI(task[n].obj.id) /\ task[n].obj.id.rid \in cloud'[t]
       IN task'[n] = IF task[n].op = "delete" THEN WithStep(task[n], IF exists THEN "held" ELSE "gone")
                     ELSE IF checkIfUserAssignedMSI(task[n].obj.id) /\ ~exists THEN None
                     ELSE WithStep(task[n], "patch")

\* A worker's call to Azure in a sync cycle.
LEMMA WorkerEffect ==
  ASSUME TypeOK, Steady, Rest, NEW t \in Target, Worker(t), cycle = "sync"
  PROVE  /\ plan[t] # None /\ plan'[t] = None
         /\ \A u \in Target \ {t} : plan'[u] = plan[u] /\ cloud'[u] = cloud[u]
         /\ UNCHANGED <<api, nodes, cycle, snap>>
         /\ \A n \in Name : At(n, t) => task[n].step # "write"
         /\ \A n \in Name : ~(At(n, t) /\ task[n].step = "cloud") => task'[n] = task[n]
         /\ UpdateEffect(t) \/ UpdateErrorEffect(t)
<1>0. Reachable(t) /\ "get" \notin Faults
  BY Zenon DEF Rest, Settled, Reachable, Steady, Target
<1>1. /\ plan[t] # None /\ plan' = [plan EXCEPT ![t] = None] /\ UNCHANGED <<api, nodes, cycle, snap>> /\ Written(t)
  BY Zenon DEF Worker, UpdateUserMSI, UpdateUserMSIError, ReconcileNode, env, store
<1>2. plan'[t] = None /\ \A u \in Target \ {t} : plan'[u] = plan[u]
  BY Zenon, <1>1 DEF TypeOK
<1>3. \A n \in Name : At(n, t) => task[n].step # "write"
  BY Zenon, <1>1 DEF Written
<1>4. CASE UpdateUserMSI(t)
  <2>1. /\ cloud' = [cloud EXCEPT ![t] = (cloud[t] \ plan[t].remove) \cup plan[t].add]
        /\ task' = [n \in Name |-> IF At(n, t) /\ task[n].step = "cloud"
                                   THEN WithStep(task[n], IF task[n].op = "delete" THEN "unassign" ELSE "patch")
                                   ELSE task[n]]
    BY Zenon, <1>4 DEF UpdateUserMSI, WithStep
  <2>2. UpdateEffect(t) /\ \A u \in Target \ {t} : cloud'[u] = cloud[u]
    BY Zenon, <2>1 DEF UpdateEffect, TypeOK
  <2>3. \A n \in Name : ~(At(n, t) /\ task[n].step = "cloud") => task'[n] = task[n]
    BY Zenon, <2>1
  <2> QED BY Zenon, <1>1, <1>2, <1>3, <2>2, <2>3
<1>5. CASE UpdateUserMSIError(t)
  <2>1. "cloud" \in Faults /\ PartialUpdate(t)
    BY Zenon, <1>0, <1>5 DEF UpdateUserMSIError, UpdateFails, Fault
  <2>2. PICK A \in SUBSET plan[t].add, D \in SUBSET (plan[t].remove \ plan[t].add) :
          cloud' = [cloud EXCEPT ![t] = (cloud[t] \ D) \cup A]
    BY Zenon, <2>1 DEF PartialUpdate
  <2>3. cloud'[t] = (cloud[t] \ D) \cup A /\ \A u \in Target \ {t} : cloud'[u] = cloud[u]
    BY Zenon, <2>2 DEF TypeOK
  <2>4. task' = [n \in Name |-> IF At(n, t) /\ task[n].step = "cloud" THEN AfterError(n, cloud'[t]) ELSE task[n]]
    BY Zenon, <1>0, <1>5 DEF UpdateUserMSIError
  <2>5. \A n \in Name : ~(At(n, t) /\ task[n].step = "cloud") => task'[n] = task[n]
    BY Zenon, <2>4
  <2>6. UpdateErrorEffect(t)
    <3>1. \A x : (x \in cloud'[t] => x \in cloud[t] \cup plan[t].add) /\ (x \in cloud[t] \ cloud'[t] => x \in plan[t].remove \ plan[t].add)
      BY Zenon, <2>2, <2>3
    <3>2. \A n \in Name : At(n, t) /\ task[n].step = "cloud" => task'[n] = AfterError(n, cloud'[t])
      BY Zenon, <2>4
    <3> QED BY Zenon, <2>1, <3>1, <3>2 DEF UpdateErrorEffect, AfterError, WithStep
  <2> QED BY Zenon, <1>1, <1>2, <1>3, <2>3, <2>5, <2>6
<1> QED BY Zenon, <1>4, <1>5 DEF Worker, ReconcileNode

-----------------------------------------------------------------------------
\* The running cycle.

\* n is being created or updated.
CreateInv(n) ==
  /\ task[n].step \in {"write", "cloud", "patch"}
  /\ snap.want[n] # None /\ matchAssignedID(task[n].obj, snap.want[n])
  /\ task[n].step = "write" => IF task[n].op = "create" THEN api[n] = None ELSE task[n].fresh /\ api[n] # None
  /\ task[n].step # "write" =>
       /\ "create" \notin Faults => api[n] # None
       /\ "update" \notin Faults /\ api[n] # None => api[n] = SetStatus(task[n].obj, "Created")

\* n is being deleted.
DeleteInv(n) ==
  /\ task[n].step \in {"cloud", "unassign", "remove", "held", "gone"}
  /\ snap.want[n] = None
  /\ api[n] # None /\ api[n].id = task[n].obj.id /\ api[n].node = task[n].obj.node
  /\ task[n].step \in {"cloud", "held", "gone"} => api[n].status = task[n].obj.status

TaskInv(n) ==
  task[n] # None =>
    /\ plan[TargetOf(task[n].obj.node)] # None <=> task[n].step \in {"write", "cloud"}
    /\ IF task[n].op = "delete" THEN DeleteInv(n) ELSE CreateInv(n)

\* A worker that has not made its call yet has a task for every object of its
\* VM/VMSS but the ones that are as desired.
IdleInv(n, t) ==
  /\ task[n] = None /\ plan[t] # None
  /\ \/ snap.want[n] # None /\ TargetOf(snap.want[n].node) = t
     \/ api[n] # None /\ TargetOf(api[n].node) = t
  => api[n] # None /\ snap.want[n] # None /\ matchAssignedID(api[n], snap.want[n]) /\ api[n].status # "Created"

CycleInv ==
  cycle = "sync" =>
    /\ snap # None /\ snap.nodes = nodes
    /\ \A n \in Name : TaskInv(n)
    /\ \A n \in Name, t \in Target : IdleInv(n, t)
    /\ \A t \in Target : ListInv(t)

\* Every node is on a VM or a scale set.
LEMMA TargetType == ASSUME NEW n \in Node PROVE TargetOf(n) \in Target
BY Zenon, ConstantsAssumption DEF ConstantsAssumption, TargetOf, isVMSS, Target

\* A task's VM/VMSS.
LEMMA TaskTarget ==
  ASSUME TypeOK, NEW n \in Name, task[n] # None
  PROVE  task[n] \in Task /\ task[n].obj \in AssignedID /\ TargetOf(task[n].obj.node) \in Target
<1>1. task[n] \in Task
  BY Zenon DEF TypeOK
<1>2. task[n].obj \in AssignedID
  BY Zenon, <1>1 DEF Task
<1>3. task[n].obj.node \in Node
  BY Zenon, <1>2 DEF AssignedID
<1> QED BY Zenon, <1>1, <1>2, <1>3, TargetType

\* A cycle starts this way.
LEMMA CycleSync == ASSUME TypeOK, TypeOK', Rest, Sync PROVE CycleInv'
<1>1. /\ \A n \in Name : task'[n] = Planned(n)
      /\ snap' \in Snap /\ snap'.want = Desired /\ snap'.nodes = nodes
  BY Zenon, SyncTask
<1>2. api' = api /\ nodes' = nodes
  BY Zenon DEF Sync, store, env
<1>3. snap' # None
  BY Zenon, <1>1, NoneAssumption
<1>4. \A t \in Target : ListInv(t)' /\ \A n \in Name : task'[n] # None /\ TargetOf(task'[n].obj.node) = t => plan'[t] # None
  BY Zenon, SyncPlan
<1>5. ASSUME NEW n \in Name
      PROVE  /\ Desired[n] # None => Desired[n] \in AssignedID /\ Desired[n].status = NoStatus
             /\ api[n] # None => api[n] \in AssignedID
             /\ Desired[n] # None => matchAssignedID(Desired[n], Desired[n])
  BY Zenon, DesiredMap DEF TypeOK, matchAssignedID
<1>6. ASSUME NEW n \in Name, task'[n] # None
      PROVE  TaskInv(n)'
  <2>1. plan'[TargetOf(task'[n].obj.node)] # None
    <3>1. TargetOf(task'[n].obj.node) \in Target
      <4>1. task'[n].obj \in AssignedID
        BY Zenon, <1>6 DEF TypeOK, Task
      <4> QED BY Zenon, <4>1, TargetType DEF AssignedID
    <3> QED BY Zenon, <1>4, <1>6, <3>1
  <2>2. CASE Desired[n] = None
    <3>1. api[n] # None /\ task'[n] = NewTaskFor("delete", api[n], "cloud")
      BY Zenon, <1>1, <1>6, <2>2 DEF Planned
    <3>2. DeleteInv(n)'
      BY <1>1, <1>2, <2>2, <3>1 DEF DeleteInv, NewTaskFor
    <3> QED BY <2>1, <3>1, <3>2 DEF TaskInv, NewTaskFor
  <2>3. CASE Desired[n] # None /\ api[n] = None
    <3>1. task'[n] = NewTaskFor("create", Desired[n], "write")
      BY Zenon, <1>1, <1>6, <2>3 DEF Planned
    <3>2. CreateInv(n)'
      BY <1>1, <1>2, <1>5, <2>3, <3>1 DEF CreateInv, NewTaskFor
    <3> QED BY <2>1, <3>1, <3>2 DEF TaskInv, NewTaskFor
  <2>4. CASE Desired[n] # None /\ api[n] # None /\ ~matchAssignedID(api[n], Desired[n])
    <3>1. task'[n] = NewTaskFor("update", Desired[n], "write")
      BY Zenon, <1>1, <1>6, <2>4 DEF Planned
    <3>2. CreateInv(n)'
      BY <1>1, <1>2, <1>5, <2>4, <3>1 DEF CreateInv, NewTaskFor
    <3> QED BY <2>1, <3>1, <3>2 DEF TaskInv, NewTaskFor
  <2>5. CASE Desired[n] # None /\ api[n] # None /\ matchAssignedID(api[n], Desired[n])
    <3>1. api[n].status = "Created" /\ task'[n] = NewTaskFor("create", api[n], "cloud")
      BY Zenon, <1>1, <1>6, <2>5 DEF Planned
    <3>2. SetStatus(api[n], "Created") = api[n]
      BY Zenon, <1>5, <2>5, <3>1, SetStatusFields
    <3>3. CreateInv(n)'
      BY <1>1, <1>2, <2>5, <3>1, <3>2 DEF CreateInv, NewTaskFor
    <3> QED BY <2>1, <3>1, <3>3 DEF TaskInv, NewTaskFor
  <2> QED BY Zenon, <2>2, <2>3, <2>4, <2>5
<1>7. ASSUME NEW n \in Name, NEW t \in Target PROVE IdleInv(n, t)'
  <2> SUFFICES ASSUME task'[n] = None, Desired[n] # None \/ api[n] # None
               PROVE  api[n] # None /\ Desired[n] # None /\ matchAssignedID(api[n], Desired[n]) /\ api[n].status # "Created"
    BY Zenon, <1>1, <1>2 DEF IdleInv
  <2>1. \A op \in {"create", "update", "delete"}, o \in AssignedID, step \in Step : NewTaskFor(op, o, step) # None
    <3>1. \A op \in {"create", "update", "delete"}, o \in AssignedID, step \in Step : NewTaskFor(op, o, step) \in Task
      BY Zenon DEF NewTaskFor, Task
    <3> QED BY Zenon, <3>1, NoneAssumption
  <2>2. "write" \in Step /\ "cloud" \in Step
    BY Zenon DEF Step
  <2> QED BY Zenon, <1>1, <1>5, <2>1, <2>2 DEF Planned
<1> QED BY Zenon, <1>1, <1>2, <1>3, <1>4, <1>6, <1>7 DEF CycleInv, TaskInv

\* Where no update fails, or no pod moves, a stored object and its task are about
\* one VM/VMSS.
Anchored == "update" \notin Faults \/ OneTargetPerPod

\* After its write, or if there was none to make, a task is about the stored object.
LEMMA SameTask ==
  ASSUME Anchored, TypeOK, PlaceInv, NEW n \in Name, TaskInv(n), task[n] # None, api[n] # None, task[n].step # "write"
  PROVE  TargetOf(api[n].node) = TargetOf(task[n].obj.node)
<1>1. CASE OneTargetPerPod
  <2>1. Around(n, api[n]) /\ Around(n, task[n].obj)
    BY Zenon DEF Around
  <2> QED BY Zenon, <1>1, <2>1, SamePlace
<1>2. CASE "update" \notin Faults
  <2>1. CASE task[n].op = "delete"
    BY Zenon, <2>1 DEF TaskInv, DeleteInv
  <2>2. CASE task[n].op # "delete"
    <3>1. api[n] = SetStatus(task[n].obj, "Created")
      BY Zenon, <1>2, <2>2 DEF TaskInv, CreateInv
    <3>2. api[n].node = task[n].obj.node
      BY <3>1, TaskTarget, SetStatusFields
    <3> QED BY Zenon, <3>2
  <2> QED BY Zenon, <2>1, <2>2
<1> QED BY Zenon, <1>1, <1>2 DEF Anchored

\* A call keeps its lists and the tasks they were made from as long as it is to be made.
LEMMA ListKept ==
  ASSUME NEW t \in Target, ListInv(t), plan'[t] # None => plan'[t] = plan[t], UNCHANGED <<snap, nodes>>,
         \A m \in Name : task'[m] # None => task[m] # None /\ task'[m].op = task[m].op /\ task'[m].obj = task[m].obj,
         \A m \in Name : plan'[t] # None /\ task[m] # None /\ TargetOf(task[m].obj.node) = t => task'[m] # None
  PROVE  ListInv(t)'
<1> SUFFICES ASSUME plan'[t] # None PROVE ListInv(t)'
  BY Zenon DEF ListInv
<1>1. plan'[t] = plan[t]
  BY Zenon
<1>2. \A m \in Name, x \in Rid : Assigns(m, x, t)' <=> Assigns(m, x, t)
  BY Zenon DEF Assigns, Uses
<1>3. \A m \in Name, x \in Rid : Deletes(m, x, t)' => Deletes(m, x, t) /\ task'[m].obj = task[m].obj
  BY Zenon DEF Deletes, Uses
<1> QED BY Zenon, <1>1, <1>2, <1>3 DEF ListInv

\* A worker's call for one object takes its task one step on.
LEMMA TaskInvTask ==
  ASSUME TypeOK, Steady, NEW n \in Name, TaskStep(n), TaskInv(n)
  PROVE  TaskInv(n)'
<1>0. UNCHANGED <<nodes, snap, plan>>
  BY Zenon, TaskStepFrame
<1>1. task[n] \in Task /\ task[n] # None /\ task[n].obj \in AssignedID
  BY Zenon, TaskEffect, TaskTarget
<1>2. \A s \in Step : /\ WithStep(task[n], s).op = task[n].op /\ WithStep(task[n], s).obj = task[n].obj
                      /\ WithStep(task[n], s).fresh = task[n].fresh /\ WithStep(task[n], s).step = s
  BY Zenon, <1>1, WithStepFields
<1>3. "cloud" \in Step /\ "remove" \in Step
  BY Zenon DEF Step
<1>4. CASE WriteEffect(n)
  <2>1. task[n].step = "write" /\ task'[n] = WithStep(task[n], "cloud")
    BY Zenon, <1>4 DEF WriteEffect
  <2>2. task[n].op # "delete" /\ CreateInv(n) /\ plan[TargetOf(task[n].obj.node)] # None
    BY Zenon, <1>1, <2>1 DEF TaskInv, DeleteInv
  <2>3. IF task[n].op = "create" THEN api[n] = None ELSE task[n].fresh /\ api[n] # None
    BY Zenon, <2>1, <2>2 DEF CreateInv
  <2>4. api'[n] = SetStatus(task[n].obj, "Created") \/ (task[n].op \in Faults /\ api'[n] = api[n])
    BY Zenon, <1>4, <2>3 DEF WriteEffect
  <2>5. SetStatus(task[n].obj, "Created") # None
    <3>1. SetStatus(task[n].obj, "Created") \in AssignedID
      BY Zenon, <1>1, SetStatusType DEF Status
    <3> QED BY Zenon, <3>1, NoneAssumption
  <2>6. task[n].op \in {"create", "update"}
    BY Zenon, <1>1, <2>2 DEF Task
  <2>7. ("create" \notin Faults => api'[n] # None) /\ ("update" \notin Faults /\ api'[n] # None => api'[n] = SetStatus(task[n].obj, "Created"))
    BY Zenon, <2>3, <2>4, <2>5, <2>6
  <2>8. CreateInv(n)'
    BY Zenon, <1>0, <1>2, <1>3, <2>1, <2>2, <2>7 DEF CreateInv
  <2> QED BY Zenon, <1>0, <1>2, <1>3, <2>1, <2>2, <2>8 DEF TaskInv
<1>5. CASE task'[n] = None
  BY Zenon, <1>5 DEF TaskInv
<1>6. CASE UnassignedEffect(n)
  <2>1. task[n].step = "unassign" /\ task[n].op = "delete" /\ DeleteInv(n)
    BY Zenon, <1>1, <1>6 DEF TaskInv, CreateInv, UnassignedEffect
  <2>2. task'[n] = WithStep(task[n], "remove") /\ api'[n] = SetStatus(api[n], "Unassigned") /\ api[n] # None
    BY Zenon, <1>6, <2>1 DEF UnassignedEffect, DeleteInv
  <2>3. api[n] \in AssignedID
    BY Zenon, <2>2 DEF TypeOK
  <2>4. api'[n] \in AssignedID /\ api'[n].id = api[n].id /\ api'[n].node = api[n].node
    <3>1. SetStatus(api[n], "Unassigned") \in AssignedID
      BY Zenon, <2>3, SetStatusType DEF Status
    <3> QED BY <2>2, <2>3, <3>1, SetStatusFields
  <2>5. api'[n] # None
    BY Zenon, <2>4, NoneAssumption
  <2>6. DeleteInv(n)'
    BY Zenon, <1>0, <1>2, <1>3, <2>1, <2>2, <2>4, <2>5 DEF DeleteInv
  <2> QED BY Zenon, <1>0, <1>1, <1>2, <1>3, <2>1, <2>2, <2>6 DEF TaskInv
<1>7. CASE AfterErrorEffect(n) /\ task'[n] # None
  <2>1. task[n].step \in {"held", "gone"} /\ task'[n] = WithStep(task[n], "remove") /\ api'[n] = api[n]
    BY Zenon, <1>7 DEF AfterErrorEffect
  <2>2. task[n].op = "delete" /\ DeleteInv(n)
    BY Zenon, <1>1, <2>1 DEF TaskInv, CreateInv
  <2>3. DeleteInv(n)'
    BY Zenon, <1>0, <1>2, <1>3, <2>1, <2>2 DEF DeleteInv
  <2> QED BY Zenon, <1>0, <1>1, <1>2, <1>3, <2>1, <2>2, <2>3 DEF TaskInv
<1> QED BY Zenon, <1>4, <1>5, <1>6, <1>7, TaskEffect DEF AssignedEffect, RemoveEffect

\* A task that ends leaves nothing to its worker's call, which was made before.
LEMMA TaskEnds ==
  ASSUME Anchored, TypeOK, Steady, PlaceInv, NEW n \in Name, TaskStep(n), TaskInv(n), task'[n] = None
  PROVE  /\ plan[TargetOf(task[n].obj.node)] = None
         /\ snap.want[n] # None => TargetOf(snap.want[n].node) = TargetOf(task[n].obj.node)
         /\ api'[n] # None => TargetOf(api'[n].node) = TargetOf(task[n].obj.node)
<1>1. task[n] \in Task /\ task[n] # None
  BY Zenon, TaskEffect
<1>2. \A s \in Step : WithStep(task[n], s) # None
  BY Zenon, <1>1, WithStepFields, NoneAssumption
<1>3. task[n].step \notin {"write", "cloud"} /\ (api'[n] # None => api[n] # None /\ api'[n].node = api[n].node)
  <2>1. ~WriteEffect(n)
    BY Zenon, <1>2 DEF WriteEffect, Step
  <2>2. api[n] # None => api[n] \in AssignedID
    BY Zenon DEF TypeOK
  <2>3. CASE AssignedEffect(n)
    BY <2>2, <2>3, SetStatusFields DEF AssignedEffect
  <2>4. CASE UnassignedEffect(n)
    <3>1. "remove" \in Step
      BY Zenon DEF Step
    <3>2. WithStep(task[n], "remove") # None
      BY Zenon, <1>2, <3>1
    <3> QED BY Zenon, <2>4, <3>2 DEF UnassignedEffect
  <2>5. CASE RemoveEffect(n)
    BY Zenon, <2>5 DEF RemoveEffect
  <2>6. CASE AfterErrorEffect(n)
    BY Zenon, <2>6 DEF AfterErrorEffect
  <2> QED BY Zenon, <2>1, <2>3, <2>4, <2>5, <2>6, TaskEffect
<1>4. plan[TargetOf(task[n].obj.node)] = None
  BY Zenon, <1>1, <1>3 DEF TaskInv
<1>5. snap.want[n] # None => TargetOf(snap.want[n].node) = TargetOf(task[n].obj.node)
  BY Zenon, <1>1 DEF TaskInv, CreateInv, DeleteInv, matchAssignedID
<1>6. api'[n] # None => TargetOf(api'[n].node) = TargetOf(task[n].obj.node)
  BY Zenon, <1>1, <1>3, SameTask
<1> QED BY Zenon, <1>4, <1>5, <1>6

\* CycleInv under a worker's call for one object.
LEMMA CycleTask ==
  ASSUME Anchored, TypeOK, Steady, PlaceInv, CycleInv, cycle = "sync", NEW n \in Name, TaskStep(n)
  PROVE  CycleInv'
<1>0. UNCHANGED <<nodes, cycle, snap, plan>>
  BY Zenon, TaskStepFrame
<1>1. snap # None /\ snap.nodes = nodes /\ (\A m \in Name : TaskInv(m)) /\ (\A m \in Name, t \in Target : IdleInv(m, t)) /\ \A t \in Target : ListInv(t)
  BY Zenon DEF CycleInv
<1>2. \A m \in Name \ {n} : task'[m] = task[m] /\ api'[m] = api[m]
  BY Zenon, TaskEffect
<1>3. task[n] \in Task /\ task[n] # None
  BY Zenon, TaskEffect
<1>4. \A m \in Name : TaskInv(m)'
  <2>1. ASSUME NEW m \in Name \ {n} PROVE TaskInv(m)'
    BY <1>0, <1>1, <1>2 DEF TaskInv, DeleteInv, CreateInv
  <2> QED BY Zenon, <1>1, <2>1, TaskInvTask
<1>5. \A m \in Name, t \in Target : IdleInv(m, t)'
  <2>1. ASSUME NEW m \in Name \ {n}, NEW t \in Target PROVE IdleInv(m, t)'
    BY Zenon, <1>0, <1>1, <1>2 DEF IdleInv
  <2>2. ASSUME NEW t \in Target PROVE IdleInv(n, t)'
    BY Zenon, <1>0, <1>1, TaskEnds DEF IdleInv
  <2> QED BY Zenon, <2>1, <2>2
<1>6. \A m \in Name : task'[m] # None => task[m] # None /\ task'[m].op = task[m].op /\ task'[m].obj = task[m].obj
  <2>1. \A s \in Step : WithStep(task[n], s).op = task[n].op /\ WithStep(task[n], s).obj = task[n].obj
    BY Zenon, <1>3, WithStepFields
  <2>2. task'[n] # None => \E s \in Step : task'[n] = WithStep(task[n], s)
    BY Zenon, TaskEffect DEF WriteEffect, AssignedEffect, UnassignedEffect, RemoveEffect, AfterErrorEffect, Step
  <2> QED BY Zenon, <1>2, <1>3, <2>1, <2>2
<1>7. \A t \in Target : ListInv(t)'
  <2>1. \A t \in Target, m \in Name : plan'[t] # None /\ task[m] # None /\ TargetOf(task[m].obj.node) = t => task'[m] # None
    BY Zenon, <1>0, <1>1, <1>2, TaskEnds
  <2>2. \A t \in Target : plan'[t] # None => plan'[t] = plan[t]
    BY Zenon, <1>0
  <2> QED BY Zenon, <1>0, <1>1, <1>6, <2>1, <2>2, ListKept
<1> QED BY Zenon, <1>0, <1>1, <1>4, <1>5, <1>7 DEF CycleInv

\* CycleInv under a worker's call to Azure.
LEMMA CycleWorker ==
  ASSUME Anchored, TypeOK, Steady, Rest, PlaceInv, CycleInv, cycle = "sync", NEW t \in Target, Worker(t)
  PROVE  CycleInv'
<1>0. /\ plan[t] # None /\ plan'[t] = None
      /\ \A u \in Target \ {t} : plan'[u] = plan[u]
      /\ UNCHANGED <<api, nodes, cycle, snap>>
      /\ \A n \in Name : ~(At(n, t) /\ task[n].step = "cloud") => task'[n] = task[n]
  BY Zenon, WorkerEffect
<1>1. snap # None /\ snap.nodes = nodes /\ (\A m \in Name : TaskInv(m)) /\ (\A m \in Name, u \in Target : IdleInv(m, u)) /\ \A u \in Target : ListInv(u)
  BY Zenon DEF CycleInv
<1>2. \A n \in Name : task[n] # None => task[n] \in Task /\ task[n].obj \in AssignedID /\ TargetOf(task[n].obj.node) \in Target
  BY Zenon, TaskTarget
<1>3. \A n \in Name : At(n, t) => task[n] # None /\ TargetOf(task[n].obj.node) = t /\ task[n].step = "cloud"
  <2>1. \A n \in Name : At(n, t) => task[n].step # "write"
    BY Zenon, WorkerEffect
  <2> QED BY Zenon, <1>0, <1>1, <2>1 DEF At, TaskInv
<1>4. ASSUME NEW n \in Name, At(n, t)
      PROVE  /\ task[n].op = "delete" => \E s \in {"unassign", "held", "gone"} : task'[n] = WithStep(task[n], s)
             /\ task[n].op # "delete" => task'[n] \in {None, WithStep(task[n], "patch")}
  BY <1>3, <1>4, WorkerEffect DEF UpdateEffect, UpdateErrorEffect
<1>5. ASSUME NEW n \in Name, At(n, t), NEW s \in Step
      PROVE  WithStep(task[n], s).op = task[n].op /\ WithStep(task[n], s).obj = task[n].obj /\ WithStep(task[n], s).step = s
  BY Zenon, <1>2, <1>3, <1>5, WithStepFields
<1>6. {"unassign", "held", "gone", "patch"} \subseteq Step
  BY Zenon DEF Step
<1>7. ASSUME NEW n \in Name PROVE TaskInv(n)'
  <2>1. CASE At(n, t) /\ task[n].op = "delete"
    <3>1. DeleteInv(n) /\ task[n].step = "cloud" /\ task[n] # None
      BY Zenon, <1>1, <1>3, <2>1 DEF TaskInv
    <3>2. PICK s \in {"unassign", "held", "gone"} : task'[n] = WithStep(task[n], s)
      BY Zenon, <1>4, <2>1
    <3>3. task'[n].op = task[n].op /\ task'[n].obj = task[n].obj /\ task'[n].step = s
      BY <1>5, <1>6, <2>1, <3>2
    <3>4. DeleteInv(n)'
      BY Zenon, <1>0, <3>1, <3>3 DEF DeleteInv
    <3> QED BY Zenon, <1>0, <1>3, <2>1, <3>3, <3>4 DEF TaskInv
  <2>2. CASE At(n, t) /\ task[n].op # "delete" /\ task'[n] # None
    <3>1. CreateInv(n) /\ task[n].step = "cloud" /\ task[n] # None
      BY Zenon, <1>1, <1>3, <2>2 DEF TaskInv
    <3>2. task'[n] = WithStep(task[n], "patch")
      BY Zenon, <1>4, <2>2
    <3>3. task'[n].op = task[n].op /\ task'[n].obj = task[n].obj /\ task'[n].step = "patch"
      BY <1>5, <1>6, <2>2, <3>2
    <3>4. CreateInv(n)'
      BY Zenon, <1>0, <3>1, <3>3 DEF CreateInv
    <3> QED BY Zenon, <1>0, <1>3, <2>2, <3>3, <3>4 DEF TaskInv
  <2>3. CASE ~At(n, t) /\ task[n] # None
    <3>1. task'[n] = task[n] /\ TargetOf(task[n].obj.node) \in Target \ {t}
      BY Zenon, <1>0, <1>2, <2>3 DEF At
    <3>2. plan'[TargetOf(task[n].obj.node)] = plan[TargetOf(task[n].obj.node)]
      BY Zenon, <1>0, <3>1
    <3> QED BY <1>0, <1>1, <3>1, <3>2 DEF TaskInv, DeleteInv, CreateInv
  <2>4. CASE task'[n] = None
    BY Zenon, <2>4 DEF TaskInv
  <2>5. ~At(n, t) /\ task[n] = None => task'[n] = None
    BY Zenon, <1>0
  <2> QED BY Zenon, <2>1, <2>2, <2>3, <2>4, <2>5
<1>8. ASSUME NEW n \in Name, NEW u \in Target PROVE IdleInv(n, u)'
  <2> SUFFICES ASSUME task'[n] = None, plan'[u] # None PROVE IdleInv(n, u)'
    BY Zenon DEF IdleInv
  <2>1. u # t /\ plan[u] # None
    BY Zenon, <1>0
  <2>2. CASE task[n] = None
    BY Zenon, <1>0, <1>1, <2>1, <2>2 DEF IdleInv
  <2>3. CASE task[n] # None
    <3>1. At(n, t)
      BY Zenon, <1>0, <2>3
    <3>2. task[n].op # "delete" /\ CreateInv(n)
      <4>1. \A s \in Step : WithStep(task[n], s) # None
        BY Zenon, <1>2, <2>3, WithStepFields, NoneAssumption
      <4>2. task[n].op # "delete"
        BY Zenon, <1>4, <1>6, <3>1, <4>1
      <4> QED BY Zenon, <1>1, <2>3, <4>2 DEF TaskInv
    <3>3. TargetOf(snap.want[n].node) = t
      BY Zenon, <1>3, <3>1, <3>2 DEF CreateInv, matchAssignedID
    <3>4. api[n] # None => TargetOf(api[n].node) = t
      BY Zenon, <1>1, <1>3, <2>3, <3>1, SameTask
    <3> QED BY Zenon, <1>0, <2>1, <3>3, <3>4 DEF IdleInv
  <2> QED BY Zenon, <2>2, <2>3
<1>9. \A u \in Target : ListInv(u)'
  <2>1. \A n \in Name : task'[n] # None => task[n] # None /\ task'[n].op = task[n].op /\ task'[n].obj = task[n].obj
    BY <1>0, <1>3, <1>4, <1>5, <1>6
  <2>2. \A u \in Target, n \in Name : plan'[u] # None /\ task[n] # None /\ TargetOf(task[n].obj.node) = u => task'[n] # None
    BY Zenon, <1>0 DEF At
  <2>3. \A u \in Target : plan'[u] # None => plan'[u] = plan[u]
    BY Zenon, <1>0
  <2> QED BY Zenon, <1>0, <1>1, <2>1, <2>2, <2>3, ListKept
<1> QED BY Zenon, <1>0, <1>1, <1>7, <1>8, <1>9 DEF CycleInv

\* CycleInv is inductive.
LEMMA CycleStep ==
  ASSUME Anchored, Steady, TypeOK, TypeOK', Rest, PlaceInv, CycleInv, [Next]_vars
  PROVE  CycleInv'
<1>1. CASE Quiet
  <2>0. api' = api /\ nodes' = nodes /\ cycle' = cycle /\ snap' = snap /\ plan' = plan /\ task' = task
    BY Zenon, <1>1 DEF Quiet
  <2>1. \A n \in Name : TaskInv(n) => TaskInv(n)'
    BY Zenon, <2>0 DEF TaskInv, DeleteInv, CreateInv
  <2>2. \A n \in Name, t \in Target : IdleInv(n, t) => IdleInv(n, t)'
    BY Zenon, <2>0 DEF IdleInv
  <2>3. \A t \in Target : ListInv(t) => ListInv(t)'
    BY Zenon, <2>0, ListKept
  <2> QED BY Zenon, <2>0, <2>1, <2>2, <2>3 DEF CycleInv
<1>2. CASE Sync
  BY Zenon, <1>2, CycleSync
<1>3. CASE CycleEnd
  BY Zenon, <1>3 DEF CycleEnd, CycleInv
<1>4. CASE Reconcile
  BY Zenon, <1>4 DEF Reconcile, CycleInv
<1>5. CASE \E n \in Name : TaskStep(n)
  <2> PICK n \in Name : TaskStep(n)
    BY Zenon, <1>5
  <2>1. cycle = "sync"
    BY Zenon, TaskStepFrame DEF Rest, Settled
  <2> QED BY Zenon, <2>1, CycleTask
<1>6. CASE \E t \in Target : Worker(t)
  <2> PICK t \in Target : Worker(t)
    BY Zenon, <1>6
  <2>1. CASE cycle = "sync"
    BY Zenon, <2>1, CycleWorker
  <2>2. CASE cycle # "sync"
    <3>1. cycle' = cycle
      BY Zenon DEF Worker, UpdateUserMSI, UpdateUserMSIError, ReconcileNode
    <3> QED BY Zenon, <2>2, <3>1 DEF CycleInv
  <2> QED BY Zenon, <2>1, <2>2
<1> QED BY Zenon, <1>1, <1>2, <1>3, <1>4, <1>5, <1>6, Steps

-----------------------------------------------------------------------------
\* An object that says Assigned tells the truth.

\* No step of the running cycle may have made the object's status untrue.
Sure(n) == task[n] = None \/ (task[n].op = "delete" /\ task[n].step \in {"cloud", "held"})

\* An object that says Assigned is backed, or about to be removed: after a failed
\* call, a delete that finds the identity gone goes through.
BackInv(n) ==
  /\ api[n] # None /\ api[n].status = "Assigned" /\ api[n].node \notin Malformed /\ Sure(n) => Backed(api[n])
  /\ task[n] # None =>
       /\ task[n].step = "patch" => Backed(task[n].obj)
       /\ /\ task[n].step = "gone" /\ checkIfUserAssignedMSI(task[n].obj.id)
          /\ task[n].obj.status = "Assigned" /\ task[n].obj.node \notin Malformed
          => ~VMSSGroupsError(nodes, snap.nodeRefs)
       /\ "cloud" \notin Faults =>
            task[n].step \notin {"held", "gone"} /\ (task[n].step = "remove" => api[n].status = "Unassigned")

Backing == \A n \in Name : BackInv(n)

\* Where a call to Azure finds a task, the task has waited for it.
LEMMA WorkerTasks ==
  ASSUME TypeOK, Steady, Rest, CycleInv, cycle = "sync", NEW t \in Target, Worker(t), NEW n \in Name, At(n, t)
  PROVE  task[n] # None /\ TargetOf(task[n].obj.node) = t /\ task[n].step = "cloud"
<1>1. task[n].step # "write" /\ plan[t] # None
  BY Zenon, WorkerEffect
<1> QED BY Zenon, <1>1 DEF At, CycleInv, TaskInv

\* A call to Azure leaves what an object that is as desired says is there.
LEMMA IdleKept ==
  ASSUME TypeOK, Steady, Rest, PlanInv, VersionInv, CycleInv, cycle = "sync", NEW t \in Target, Worker(t),
         NEW n \in Name, task[n] = None, api[n] # None, checkIfUserAssignedMSI(api[n].id),
         TargetOf(api[n].node) = t, api[n].id.rid \in cloud[t]
  PROVE  api[n].id.rid \in cloud'[t]
<1>1. plan[t] # None /\ snap # None /\ snap.nodes = nodes /\ nodes = Node
  BY Zenon, WorkerEffect DEF CycleInv, Rest, Settled
<1>2. snap.want[n] # None /\ matchAssignedID(api[n], snap.want[n])
  BY Zenon, <1>1 DEF CycleInv, IdleInv
<1>3. Around(n, api[n]) /\ Around(n, snap.want[n])
  BY Zenon, <1>1, <1>2 DEF Around
<1>4. snap.want[n].node = api[n].node /\ snap.want[n].id.type = api[n].id.type /\ snap.want[n].id.rid = api[n].id.rid
  BY <1>2, <1>3, SameVersion
<1>5. snap.want[n].node \in snap.nodes
  <2>1. api[n] \in AssignedID
    BY Zenon DEF TypeOK
  <2> QED BY Zenon, <1>1, <1>4, <2>1 DEF AssignedID
<1>6. Uses(snap.want[n], snap.want[n].id.rid, t)
  BY Zenon, <1>2, <1>4 DEF Uses, checkIfUserAssignedMSI
<1>7. api[n].id.rid \in plan[t].remove => api[n].id.rid \in plan[t].add
  BY Zenon, <1>1, <1>2, <1>4, <1>5, <1>6 DEF PlanInv
<1> QED BY <1>7, WorkerEffect DEF UpdateEffect, UpdateErrorEffect

\* Backing under a call to Azure.
LEMMA BackingWorker ==
  ASSUME BackedFaults, TypeOK, Steady, Rest, PlanInv, VersionInv, CycleInv, Backing, cycle = "sync", NEW t \in Target, Worker(t)
  PROVE  Backing'
<1> SUFFICES ASSUME NEW n \in Name PROVE BackInv(n)'
  BY Zenon DEF Backing
<1>0. /\ plan[t] # None /\ UNCHANGED <<api, nodes, cycle, snap>>
      /\ \A u \in Target \ {t} : cloud'[u] = cloud[u]
      /\ ~(At(n, t) /\ task[n].step = "cloud") => task'[n] = task[n]
  BY Zenon, WorkerEffect
<1>1. BackInv(n) /\ TaskInv(n) /\ ListInv(t)
  BY Zenon DEF Backing, CycleInv
<1>2. api[n] # None => api[n] \in AssignedID /\ TargetOf(api[n].node) \in Target
  BY Zenon, TargetType DEF TypeOK, AssignedID
<1>3. CASE ~At(n, t)
  <2>1. task'[n] = task[n]
    BY Zenon, <1>0, <1>3
  <2>2. task[n] # None => TargetOf(task[n].obj.node) \in Target \ {t}
    BY Zenon, <1>3, TaskTarget DEF At
  <2>3. task[n] # None /\ Backed(task[n].obj) => Backed(task[n].obj)'
    BY Zenon, <1>0, <2>1, <2>2 DEF Backed
  <2>4. ASSUME api[n] # None, Sure(n), Backed(api[n]) PROVE Backed(api[n])'
    <3>1. CASE TargetOf(api[n].node) # t
      BY Zenon, <1>0, <1>2, <2>4, <3>1 DEF Backed
    <3>2. CASE TargetOf(api[n].node) = t
      <4>1. task[n] = None
        BY Zenon, <1>1, <2>2, <2>4, <3>2 DEF Sure, TaskInv, DeleteInv
      <4> QED BY Zenon, <1>0, <2>4, <3>2, <4>1, IdleKept DEF Backed
    <3> QED BY Zenon, <3>1, <3>2
  <2> QED BY Zenon, <1>0, <1>1, <2>1, <2>3, <2>4 DEF BackInv, Sure
<1>4. CASE At(n, t)
  <2>1. task[n] # None /\ TargetOf(task[n].obj.node) = t /\ task[n].step = "cloud"
    BY Zenon, <1>4, WorkerTasks
  <2>2. task[n] \in Task /\ task[n].obj \in AssignedID /\ task[n].obj.id.rid \in Rid
    BY Zenon, <2>1, TaskTarget DEF AssignedID, AzureIdentity
  <2>3. \A s \in Step : /\ WithStep(task[n], s) # None
                        /\ WithStep(task[n], s).op = task[n].op /\ WithStep(task[n], s).obj = task[n].obj /\ WithStep(task[n], s).step = s
    BY Zenon, <2>2, WithStepFields, NoneAssumption
  <2>4. {"unassign", "held", "gone", "patch"} \subseteq Step
    BY Zenon DEF Step
  <2>5. CASE task[n].op = "delete"
    <3>1. api[n] # None /\ api[n].id = task[n].obj.id /\ api[n].node = task[n].obj.node /\ api[n].status = task[n].obj.status
      BY Zenon, <1>1, <2>1, <2>5 DEF TaskInv, DeleteInv
    <3>2. CASE UpdateEffect(t)
      <4>1. task'[n] = WithStep(task[n], "unassign")
        BY Zenon, <1>4, <2>1, <2>5, <3>2 DEF UpdateEffect
      <4> QED BY Zenon, <2>3, <2>4, <4>1 DEF BackInv, Sure
    <3>3. CASE UpdateErrorEffect(t) /\ checkIfUserAssignedMSI(task[n].obj.id) /\ task[n].obj.id.rid \in cloud'[t]
      <4>1. task'[n] = WithStep(task[n], "held") /\ "cloud" \in Faults
        BY Zenon, <1>4, <2>1, <2>5, <3>3 DEF UpdateErrorEffect
      <4>2. Backed(api[n])'
        BY Zenon, <1>0, <2>1, <3>1, <3>3 DEF Backed
      <4> QED BY Zenon, <2>3, <2>4, <4>1, <4>2 DEF BackInv
    <3>4. CASE UpdateErrorEffect(t) /\ ~(checkIfUserAssignedMSI(task[n].obj.id) /\ task[n].obj.id.rid \in cloud'[t])
      <4>1. task'[n] = WithStep(task[n], "gone") /\ "cloud" \in Faults
        BY Zenon, <1>4, <2>1, <2>5, <3>4 DEF UpdateErrorEffect
      <4>2. ASSUME checkIfUserAssignedMSI(task[n].obj.id), task[n].obj.status = "Assigned", task[n].obj.node \notin Malformed
            PROVE  ~VMSSGroupsError(nodes, snap.nodeRefs)
        <5>1. Backed(api[n])
          BY Zenon, <1>1, <2>1, <2>5, <3>1, <4>2 DEF BackInv, Sure
        <5>2. task[n].obj.id.rid \in cloud[t] \ cloud'[t]
          BY Zenon, <2>1, <3>1, <3>4, <4>2, <5>1 DEF Backed
        <5>3. plan[t].remove # {}
          BY Zenon, <3>4, <5>2 DEF UpdateErrorEffect
        <5> QED BY Zenon, <1>0, <1>1, <5>3 DEF ListInv
      <4>3. task'[n].op = "delete" /\ task'[n].obj = task[n].obj /\ task'[n].step = "gone"
        BY Zenon, <2>3, <2>4, <2>5, <4>1
      <4> QED BY Zenon, <1>0, <2>3, <2>4, <4>1, <4>2, <4>3 DEF BackInv, Sure
    <3> QED BY Zenon, <3>2, <3>3, <3>4, WorkerEffect
  <2>6. CASE task[n].op # "delete"
    <3>1. api[n] # None => api[n].status # "Assigned"
      <4>1. api[n] # None => api[n] = SetStatus(task[n].obj, "Created")
        BY Zenon, <1>1, <2>1, <2>6 DEF TaskInv, CreateInv, BackedFaults
      <4> QED BY <2>2, <4>1, SetStatusFields
    <3>2. task'[n] = None \/ (task'[n] = WithStep(task[n], "patch") /\ Backed(task[n].obj)')
      <4>1. CASE UpdateEffect(t)
        <5>1. task'[n] = WithStep(task[n], "patch")
          BY Zenon, <1>4, <2>1, <2>6, <4>1 DEF UpdateEffect
        <5>2. checkIfUserAssignedMSI(task[n].obj.id) => task[n].obj.id.rid \in plan[t].add
          <6>1. task[n].obj # None
            BY Zenon, <2>2, NoneAssumption
          <6> QED BY Zenon, <1>0, <1>1, <2>1, <2>2, <2>6, <6>1 DEF ListInv, Assigns, Uses
        <5>3. task'[n].obj = task[n].obj
          BY Zenon, <2>3, <2>4, <5>1
        <5> QED BY Zenon, <2>1, <4>1, <5>1, <5>2, <5>3 DEF UpdateEffect, Backed
      <4>2. CASE UpdateErrorEffect(t)
        <5>1. \/ task'[n] = None
              \/ /\ task'[n] = WithStep(task[n], "patch")
                 /\ checkIfUserAssignedMSI(task[n].obj.id) => task[n].obj.id.rid \in cloud'[t]
          BY Zenon, <1>4, <2>1, <2>6, <4>2 DEF UpdateErrorEffect
        <5> QED BY Zenon, <2>1, <2>3, <2>4, <5>1 DEF Backed
      <4> QED BY Zenon, <4>1, <4>2, WorkerEffect
    <3> QED BY Zenon, <1>0, <2>3, <2>4, <3>1, <3>2 DEF BackInv
  <2> QED BY Zenon, <2>5, <2>6
<1> QED BY Zenon, <1>3, <1>4

\* Backing under a worker's call for one object.
LEMMA BackingTask ==
  ASSUME BackedFaults, TypeOK, Steady, CycleInv, Backing, cycle = "sync", NEW n \in Name, TaskStep(n)
  PROVE  Backing'
<1>0. UNCHANGED <<nodes, cloud, cycle, snap, plan>>
  BY Zenon, TaskStepFrame
<1>1. BackInv(n) /\ TaskInv(n)
  BY Zenon DEF Backing, CycleInv
<1>2. ASSUME NEW m \in Name \ {n} PROVE BackInv(m)'
  <2>1. task'[m] = task[m] /\ api'[m] = api[m] /\ BackInv(m)
    BY Zenon, TaskEffect DEF Backing
  <2> QED BY Zenon, <1>0, <2>1 DEF BackInv, Sure, Backed
<1> SUFFICES BackInv(n)'
  BY Zenon, <1>2 DEF Backing
<1>3. task[n] \in Task /\ task[n] # None /\ task[n].obj \in AssignedID
  BY Zenon, TaskEffect, TaskTarget
<1>4. \A s \in Step : /\ WithStep(task[n], s) # None
                      /\ WithStep(task[n], s).op = task[n].op /\ WithStep(task[n], s).obj = task[n].obj /\ WithStep(task[n], s).step = s
  BY Zenon, <1>3, WithStepFields, NoneAssumption
<1>5. "cloud" \in Step /\ "remove" \in Step
  BY Zenon DEF Step
<1>6. CASE WriteEffect(n)
  <2>1. task[n].op # "delete" /\ task'[n] = WithStep(task[n], "cloud")
    BY Zenon, <1>1, <1>3, <1>6 DEF WriteEffect, TaskInv, DeleteInv
  <2> QED BY Zenon, <1>4, <1>5, <2>1 DEF BackInv, Sure
<1>7. CASE AssignedEffect(n)
  <2>1. task[n].step = "patch" /\ task[n].op # "delete" /\ task'[n] = None
    BY Zenon, <1>1, <1>3, <1>7 DEF AssignedEffect, TaskInv, DeleteInv
  <2>2. ASSUME api[n] # None PROVE api'[n].id = task[n].obj.id /\ api'[n].node = task[n].obj.node
    <3>1. api[n] = SetStatus(task[n].obj, "Created")
      BY Zenon, <1>1, <1>3, <2>1, <2>2 DEF TaskInv, CreateInv, BackedFaults
    <3>2. api'[n] = SetStatus(task[n].obj, "Assigned")
      BY <1>3, <1>7, <2>2, <3>1, SetStatusTwice DEF AssignedEffect
    <3> QED BY <1>3, <3>2, SetStatusFields
  <2>3. Backed(task[n].obj)
    BY Zenon, <1>1, <1>3, <2>1 DEF BackInv
  <2> QED BY Zenon, <1>0, <1>7, <2>1, <2>2, <2>3 DEF BackInv, Backed, AssignedEffect
<1>8. CASE UnassignedEffect(n)
  <2>1. api[n] # None => SetStatus(api[n], "Unassigned").status = "Unassigned"
    BY SetStatusFields DEF TypeOK
  <2> QED BY Zenon, <1>4, <1>5, <1>8, <2>1 DEF BackInv, UnassignedEffect
<1>9. CASE RemoveEffect(n)
  <2>1. task'[n] = None /\ (api'[n] = None \/ ("cloud" \notin Faults /\ api'[n] = api[n] /\ task[n].step = "remove"))
    BY Zenon, <1>9 DEF RemoveEffect, BackedFaults
  <2> QED BY Zenon, <1>1, <1>3, <2>1 DEF BackInv
<1>10. CASE AfterErrorEffect(n)
  <2>1. task[n].step \in {"held", "gone"} /\ task[n].op = "delete" /\ DeleteInv(n) /\ api'[n] = api[n]
    BY Zenon, <1>1, <1>3, <1>10 DEF AfterErrorEffect, TaskInv, CreateInv
  <2>2. "cloud" \in Faults
    BY Zenon, <1>1, <1>3, <2>1 DEF BackInv
  <2>3. CASE task'[n] = WithStep(task[n], "remove")
    BY Zenon, <1>4, <1>5, <2>2, <2>3 DEF BackInv, Sure
  <2>4. CASE task'[n] = None
    <3>1. ASSUME api[n].status = "Assigned", api[n].node \notin Malformed PROVE Backed(api[n])
      <4>1. CASE task[n].step = "held"
        BY Zenon, <1>1, <2>1, <3>1, <4>1 DEF BackInv, Sure, DeleteInv
      <4>2. CASE task[n].step = "gone" /\ checkIfUserAssignedMSI(task[n].obj.id)
        <5>1. ~VMSSGroupsError(nodes, snap.nodeRefs)
          BY Zenon, <1>1, <1>3, <2>1, <3>1, <4>2 DEF BackInv, DeleteInv
        <5>2. ~checkIfInUseError(n, task[n].obj, snap.want, nodes)
          BY Zenon, <2>1, <3>1 DEF checkIfInUseError, DeleteInv
        <5> QED BY Zenon, <1>4, <1>5, <1>10, <2>4, <4>2, <5>1, <5>2 DEF AfterErrorEffect
      <4>3. CASE ~checkIfUserAssignedMSI(task[n].obj.id)
        BY Zenon, <2>1, <4>3 DEF Backed, DeleteInv
      <4> QED BY Zenon, <2>1, <4>1, <4>2, <4>3
    <3> QED BY Zenon, <1>0, <2>1, <2>4, <3>1 DEF BackInv, Backed
  <2> QED BY Zenon, <1>10, <2>3, <2>4 DEF AfterErrorEffect
<1> QED BY Zenon, <1>6, <1>7, <1>8, <1>9, <1>10, TaskEffect

\* Backing is inductive.
LEMMA BackingStep ==
  ASSUME BackedFaults, Steady, TypeOK, Rest, PlanInv, VersionInv, CycleInv, ReconcileInv, Backing, [Next]_vars
  PROVE  Backing'
<1>1. CASE Quiet
  <2>1. UNCHANGED <<api, nodes, snap, task, cloud>>
    BY Zenon, <1>1 DEF Quiet, BackedFaults
  <2> QED BY Zenon, <2>1 DEF Backing, BackInv, Sure, Backed
<1>2. CASE Sync
  <2>1. UNCHANGED <<api, cloud, nodes>> /\ \A n \in Name : task[n] = None /\ task'[n] = Planned(n)
    BY Zenon, <1>2, SyncTask DEF Sync, store, env, Rest, Settled
  <2>2. \A n \in Name : task'[n] # None => task'[n].step \in {"write", "cloud"}
    <3>1. \A op, o : NewTaskFor(op, o, "write").step = "write" /\ NewTaskFor(op, o, "cloud").step = "cloud"
      BY Zenon DEF NewTaskFor
    <3> QED BY Zenon, <2>1, <3>1 DEF Planned
  <2> QED BY Zenon, <2>1, <2>2 DEF Backing, BackInv, Sure, Backed
<1>3. CASE CycleEnd \/ Reconcile
  <2>1. UNCHANGED <<api, cloud, nodes, task>> /\ \A n \in Name : task[n] = None
    BY Zenon, <1>3 DEF CycleEnd, Reconcile, store, env, Rest, Settled, NoTasks
  <2> QED BY Zenon, <2>1 DEF Backing, BackInv, Sure, Backed
<1>4. CASE \E n \in Name : TaskStep(n)
  <2> PICK n \in Name : TaskStep(n)
    BY Zenon, <1>4
  <2>1. cycle = "sync"
    BY Zenon, TaskStepFrame DEF Rest, Settled
  <2> QED BY Zenon, <2>1, BackingTask
<1>5. CASE \E t \in Target : Worker(t)
  <2> PICK t \in Target : Worker(t)
    BY Zenon, <1>5
  <2>1. CASE cycle = "sync"
    BY Zenon, <2>1, BackingWorker
  <2>2. CASE cycle # "sync"
    <3>1. UNCHANGED <<api, task>> /\ (\A n \in Name : task[n] = None) /\ \A u \in Target : cloud[u] \subseteq cloud'[u]
      BY Zenon, <2>2, ReconcileEffect DEF Rest
    <3>2. \A n \in Name : api[n] # None => TargetOf(api[n].node) \in Target
      BY Zenon, TargetType DEF TypeOK, AssignedID
    <3> QED BY Zenon, <3>1, <3>2 DEF Backing, BackInv, Sure, Backed
  <2> QED BY Zenon, <2>1, <2>2
<1> QED BY Zenon, <1>1, <1>2, <1>3, <1>4, <1>5, Steps

\* At first there are no objects, and nothing is under way.
LEMMA RecordsInit == ASSUME Init PROVE Rest /\ PlaceInv /\ CycleInv /\ ReconcileInv /\ Backing
<1>1. Rest
  BY Zenon, RestInit
<1>2. \A p \in Pod : pods[p] # None => pods[p] \in PodSpecs[p]
  BY Zenon DEF Init
<1>3. PlaceInv
  BY Zenon, <1>2, NothingAround DEF PlaceInv
<1>4. cycle = "idle" /\ \A n \in Name : api[n] = None /\ task[n] = None
  BY Zenon DEF Init, NoTasks
<1> QED BY Zenon, <1>1, <1>3, <1>4 DEF CycleInv, ReconcileInv, Backing, BackInv

\* AssignedBacked holds of every behaviour: of any number of pods, identities, nodes
\* and edits, with creates that fail, and UpdateUserMSI calls or removals that fail,
\* if nobody takes identities off behind MIC's back, pods have different names, an
\* MSI is known under one identity name, and versions are not reused.
THEOREM BackedAlways ==
  ASSUME Steady, BackedFaults, OnePodPerName, OneIdentityPerMSI, DistinctVersions
  PROVE  Spec => []AssignedBacked
<1> DEFINE Base == TypeOK /\ KnownInv /\ PlanInv /\ VersionInv /\ PlaceInv
           Inv == Rest /\ CycleInv /\ ReconcileInv /\ Backing
<1>1. Init => KnownInv /\ PlanInv /\ VersionInv /\ PlaceInv /\ Inv
  BY Zenon, KnownInit, VersionInit, RecordsInit
<1>2. Base /\ TypeOK' /\ Inv /\ [Next]_vars => Inv'
  <2> SUFFICES ASSUME Base, TypeOK', Inv, [Next]_vars PROVE Inv'
    BY Zenon
  <2>1. Anchored
    BY Zenon DEF Anchored, BackedFaults
  <2>2. Rest' /\ ReconcileInv'
    BY Zenon, RestStep, ReconcileStep DEF Rest
  <2>3. CycleInv'
    BY Zenon, <2>1, CycleStep
  <2>4. Backing'
    BY Zenon, BackingStep
  <2> QED BY Zenon, <2>2, <2>3, <2>4
<1>3. Backing => AssignedBacked
  BY Zenon DEF Backing, BackInv, Sure, AssignedBacked, Keys
<1> QED BY <1>1, <1>2, <1>3, TypeCorrect, KnownStep, PlanStep, VersionStep, PlaceStep, PTL DEF Spec
=============================================================================
