-------------------------------- MODULE MIC --------------------------------
(***************************************************************************)
(* The Managed Identity Controller: the sync loop, the per VM/VMSS workers *)
(* it starts, and the periodic reconciliation, against the Kubernetes API  *)
(* server and Azure.                                                       *)
(*                                                                         *)
(* A cycle reads its informer caches at once (Sync), and then talks to the *)
(* API server and Azure one call per action, so that the calls of          *)
(* different workers interleave and a crash can fall between any two.      *)
(*                                                                         *)
(* pods, bindings, ids and nodes are what MIC's informers show of objects  *)
(* that MIC only reads: an informer that lags is an edit that comes later. *)
(* AzureAssignedIdentities are written by MIC itself, so their store (api) *)
(* and the informer's copy of it (cache) are kept apart, with the events   *)
(* that are on their way in watch.                                         *)
(***************************************************************************)
EXTENDS AssignedIDs

CONSTANTS
  PodSpecs,   \* PodSpecs[p]: the node and label the environment may give pod p
  IdSpecs,    \* IdSpecs[ns][i]: the specs the environment may give an AzureIdentity
  BindSpecs,  \* BindSpecs[ns][b]: likewise for an AzureIdentityBinding
  InitBindings, InitIds,  \* the bindings and identities a cluster may start with
  InitCloud,  \* identities already on a VM/VMSS before MIC first runs
  Edits,      \* what the environment may edit
  MaxEdits,   \* bound: edits of the environment in a behaviour
  Faults,     \* the calls that may fail, and "crash"
  MaxFaults,  \* bound: failures in a behaviour
  MaxLag,     \* bound: watch events the informer may lag behind
  Settles     \* the sleep at the end of a cycle is enough for the informer to catch up

EditKind == {"pod", "identity", "binding", "node", "detach"}
FaultKind == {"create", "update", "status", "remove", "cloud", "get", "crash"}

ASSUME EnvironmentAssumption ==
  /\ \A p \in Pod : PodSpecs[p] \subseteq PodSpec
  /\ \A ns \in Namespace, i \in IdName :
       IdSpecs[ns][i] \subseteq [type : IDTypes, rid : Rid, cid : Cid, namespaced : BOOLEAN]
  /\ \A ns \in Namespace, b \in BindName :
       BindSpecs[ns][b] \subseteq [selector : Label, azureIdentity : IdName]
  /\ InitBindings \subseteq [Namespace -> [BindName -> Binding \cup {None}]]
  /\ InitIds \subseteq [Namespace -> [IdName -> AzureIdentity \cup {None}]]
  /\ InitCloud \in [Target -> SUBSET Rid]
  /\ Edits \subseteq EditKind /\ Faults \subseteq FaultKind
  /\ MaxEdits \in Nat /\ MaxFaults \in Nat /\ MaxLag \in Nat \ {0}
  /\ Settles \in BOOLEAN

VARIABLES
  pods, bindings, ids, nodes,  \* the informers' view of what MIC only reads
  api,     \* the AzureAssignedIdentities in the API server
  cache,   \* the AssignedIDInformer's store
  watch,   \* the events between the two, in order
  cloud,   \* the user-assigned identities of every VM and VMSS
  cycle,   \* what the sync goroutine is doing
  snap,    \* what the running cycle was computed from
  plan,    \* per VM/VMSS, the UpdateUserMSI call that is still to be made
  task,    \* per name, the rest of its create, update or delete
  edits, faults

env == <<pods, bindings, ids, nodes, edits>>
store == <<api, cache, watch>>
vars == <<pods, bindings, ids, nodes, api, cache, watch, cloud, cycle, snap, plan, task, edits, faults>>

NoTasks == [n \in Name |-> None]
NoPlans == [t \in Target |-> None]

Step == {"write", "cloud", "patch", "unassign", "remove", "held", "gone"}
Task == [op : {"create", "update", "delete"}, obj : AssignedID, fresh : BOOLEAN, step : Step]
Plan == [add : SUBSET Rid, remove : SUBSET Rid]
Snap == [want : [Name -> AssignedID \cup {None}], nodeRefs : SUBSET Node, nodes : SUBSET Node]

\* None is no object: a missing key, no call to be made, no running cycle.
ASSUME NoneAssumption == None \notin AssignedID \cup Task \cup Plan \cup Snap

TypeOK ==
  /\ pods \in [Pod -> PodSpec \cup {None}]
  /\ bindings \in [Namespace -> [BindName -> Binding \cup {None}]]
  /\ ids \in [Namespace -> [IdName -> AzureIdentity \cup {None}]]
  /\ nodes \in SUBSET Node
  /\ api \in [Name -> AssignedID \cup {None}]
  /\ cache \in [Name -> AssignedID \cup {None}]
  /\ watch \in Seq([name : Name, obj : AssignedID \cup {None}])
  /\ cloud \in [Target -> SUBSET Rid]
  /\ cycle \in {"idle", "sync", "reconcile"}
  /\ snap \in Snap \cup {None}
  /\ plan \in [Target -> Plan \cup {None}]
  /\ task \in [Name -> Task \cup {None}]
  /\ edits \in Nat /\ faults \in Nat

WithRV(s, rv) == [type |-> s.type, rid |-> s.rid, cid |-> s.cid, namespaced |-> s.namespaced, rv |-> rv]
BindRV(s, rv) == [selector |-> s.selector, azureIdentity |-> s.azureIdentity, rv |-> rv]

\* MIC first starts in a cluster without AzureAssignedIdentities.
Init ==
  /\ pods \in {f \in [Pod -> PodSpec \cup {None}] : \A p \in Pod : f[p] \in PodSpecs[p] \cup {None}}
  /\ bindings \in InitBindings
  /\ ids \in InitIds
  /\ nodes = Node
  /\ api = [n \in Name |-> None]
  /\ cache = api
  /\ watch = <<>>
  /\ cloud = InitCloud
  /\ cycle = "idle"
  /\ snap = None
  /\ plan = NoPlans
  /\ task = NoTasks
  /\ edits = 0 /\ faults = 0

-----------------------------------------------------------------------------
\* The environment.  Resource versions come from one counter, as in etcd.

Edit(kind) ==
  /\ kind \in Edits /\ edits < MaxEdits
  /\ edits' = edits + 1
  /\ UNCHANGED <<store, cycle, snap, plan, task, faults>>

SetPod(p) ==
  /\ Edit("pod")
  /\ \E s \in (PodSpecs[p] \cup {None}) \ {pods[p]} : pods' = [pods EXCEPT ![p] = s]
  /\ UNCHANGED <<bindings, ids, nodes, cloud>>

SetIdentity(ns, i) ==
  /\ Edit("identity")
  /\ \E s \in {WithRV(x, edits') : x \in IdSpecs[ns][i]} \cup ({None} \ {ids[ns][i]}) :
       ids' = [ids EXCEPT ![ns][i] = s]
  /\ UNCHANGED <<pods, bindings, nodes, cloud>>

SetBinding(ns, b) ==
  /\ Edit("binding")
  /\ \E s \in {BindRV(x, edits') : x \in BindSpecs[ns][b]} \cup ({None} \ {bindings[ns][b]}) :
       bindings' = [bindings EXCEPT ![ns][b] = s]
  /\ UNCHANGED <<pods, ids, nodes, cloud>>

\* A VM goes with its identities; a scale set outlives its instances.
RemoveNode(n) ==
  /\ Edit("node")
  /\ n \in nodes
  /\ nodes' = nodes \ {n}
  /\ cloud' = [cloud EXCEPT ![TargetOf(n)] = IF isVMSS(n) THEN @ ELSE {}]
  /\ UNCHANGED <<pods, bindings, ids>>

AddNode(n) ==
  /\ Edit("node")
  /\ n \notin nodes
  /\ nodes' = nodes \cup {n}
  /\ UNCHANGED <<pods, bindings, ids, cloud>>

\* Somebody takes an identity off a VM/VMSS behind MIC's back.
Detach(t) ==
  /\ Edit("detach")
  /\ \E x \in cloud[t] : cloud' = [cloud EXCEPT ![t] = @ \ {x}]
  /\ UNCHANGED <<pods, bindings, ids, nodes>>

Environment ==
  \/ \E p \in Pod : SetPod(p)
  \/ \E ns \in Namespace, i \in IdName : SetIdentity(ns, i)
  \/ \E ns \in Namespace, b \in BindName : SetBinding(ns, b)
  \/ \E n \in Node : RemoveNode(n) \/ AddNode(n)
  \/ \E t \in Target : Detach(t)

-----------------------------------------------------------------------------
\* The API server and Azure, as MIC's calls see them.

Fault(kind) == kind \in Faults /\ faults < MaxFaults /\ faults' = faults + 1
NoFault == UNCHANGED faults

\* A write of the object under name n, and its watch event.  The API server
\* makes nothing of a write that changes nothing.
Put(n, o) ==
  \/ o = api[n] /\ UNCHANGED store
  \/ /\ o # api[n] /\ Len(watch) < MaxLag
     /\ api' = [api EXCEPT ![n] = o]
     /\ watch' = Append(watch, [name |-> n, obj |-> o])
     /\ UNCHANGED cache

Deliver ==
  /\ watch # <<>>
  /\ cache' = [cache EXCEPT ![Head(watch).name] = Head(watch).obj]
  /\ watch' = Tail(watch)
  /\ UNCHANGED <<env, api, cloud, cycle, snap, plan, task, faults>>

\* The cached object under n is the current one: a PUT of it does not conflict.
Current(n) == \A k \in 1..Len(watch) : watch[k].name # n

SetStatus(o, s) == [o EXCEPT !.status = s]

\* A VM that is gone answers every call with an error.
Reachable(t) == t \in VMSS \cup nodes

-----------------------------------------------------------------------------
\* One iteration of Sync up to updateNodeAndDeps.

\* What is to be done about the object under n (convertAssignedIDListToMap): of a
\* node that is gone only the deletes are left, cleanUpAllAssignedIdentitiesOnNode.
NewTask(add, del, n) ==
  LET op == IF n \in ToUpdate(add, del) THEN "update" ELSE IF n \in Keys(add) THEN "create" ELSE "delete"
      o == IF n \in Keys(add) THEN add[n] ELSE del[n]
      step == IF o.node \notin nodes THEN "remove"
              ELSE IF op # "delete" /\ o.status = NoStatus THEN "write" ELSE "cloud"
  IN IF n \notin Keys(add) \cup Keys(del) \/ (o.node \notin nodes /\ op # "delete") THEN None
     ELSE [op |-> op, obj |-> o, fresh |-> Current(n), step |-> step]

\* The worker of t: its UpdateUserMSI, if t has any entry in the node map.
NewPlan(add, del, new, nodeRefs, t) ==
  LET addIDs == getListOfIdsToAssign(add, nodes, t)
      removeIDs == getListOfIdsToDelete(del, new, nodes, nodeRefs, t)
      work == {n \in Name : NewTask(add, del, n) # None /\ consolidateVMSSNodes(NewTask(add, del, n).obj, nodes, t)}
  IN IF addIDs \cup removeIDs = {} /\ work = {} THEN None ELSE [add |-> addIDs, remove |-> removeIDs]

Sync ==
  /\ cycle = "idle"
  /\ LET new == createDesiredAssignedIdentityList(pods, bindings, ids)
         refs == NodeRefs(pods, bindings)
         add == getAzureAssignedIDsToCreate(cache, new)
         del == getAzureAssignedIDsToDelete(cache, new)
     IN /\ Keys(add) \cup Keys(del) # {}
        /\ plan' = [t \in Target |-> NewPlan(add, del, new, refs, t)]
        /\ task' = [n \in Name |-> NewTask(add, del, n)]
        /\ snap' = [want |-> new, nodeRefs |-> refs, nodes |-> nodes]
  /\ cycle' = "sync"
  /\ UNCHANGED <<env, store, cloud, faults>>

\* wg.Wait: every worker is done; then the sleep that lets the cache catch up.
CycleEnd ==
  /\ cycle # "idle"
  /\ Settles => watch = <<>>
  /\ plan = NoPlans /\ task = NoTasks
  /\ cycle' = "idle" /\ snap' = None
  /\ UNCHANGED <<env, store, cloud, plan, task, faults>>

-----------------------------------------------------------------------------
\* updateUserMSI, a worker per VM/VMSS.

At(n, t) == task[n] # None /\ TargetOf(task[n].obj.node) = t

Goto(n, s) == task' = [task EXCEPT ![n].step = s]
Done(n) == task' = [task EXCEPT ![n] = None]

\* createAssignedIdentity (POST) or updateAssignedIdentity (PUT); an error is only logged.
Write(n) ==
  /\ task[n] # None /\ task[n].step = "write"
  /\ LET o == SetStatus(task[n].obj, "Created")
         accepted == IF task[n].op = "create" THEN api[n] = None ELSE task[n].fresh
     IN \/ accepted /\ Put(n, o) /\ NoFault
        \/ ~accepted /\ UNCHANGED store /\ NoFault
        \/ Fault(task[n].op) /\ UNCHANGED store
  /\ Goto(n, "cloud")
  /\ UNCHANGED <<env, cloud, cycle, snap, plan>>

\* Mutant: the worker does not wait.
NoBarrier(t) == TRUE

\* The worker of t has waited for its creates and updates.
Written(t) == \A n \in Name : At(n, t) => task[n].step # "write"

UpdateUserMSI(t) ==
  /\ cycle = "sync" /\ plan[t] # None
  /\ Written(t)
  /\ plan[t].add \cup plan[t].remove = {} \/ Reachable(t)
  /\ cloud' = [cloud EXCEPT ![t] = (@ \ plan[t].remove) \cup plan[t].add]
  /\ task' = [n \in Name |->
                IF At(n, t) /\ task[n].step = "cloud"
                THEN [task[n] EXCEPT !.step = IF task[n].op = "delete" THEN "unassign" ELSE "patch"]
                ELSE task[n]]
  /\ plan' = [plan EXCEPT ![t] = None]
  /\ UNCHANGED <<env, store, cycle, snap, faults>>

\* What UpdateUserMSI may have done to t by the time it returns an error.
PartialUpdate(t) ==
  \E A \in SUBSET plan[t].add, D \in SUBSET (plan[t].remove \ plan[t].add) :
    cloud' = [cloud EXCEPT ![t] = (@ \ D) \cup A]

UpdateFails(t) ==
  \/ Reachable(t) /\ Fault("cloud") /\ PartialUpdate(t)
  \/ ~Reachable(t) /\ NoFault /\ UNCHANGED cloud

\* Mutant: a delete goes on whether or not the identity is still there.
AfterErrorBlind(n, idList) == [task[n] EXCEPT !.step = IF task[n].op = "delete" THEN "gone" ELSE "patch"]

\* GetUserMSIs after the error tells which of the node's objects are done.
AfterError(n, idList) ==
  LET o == task[n].obj
      exists == checkIfUserAssignedMSI(o.id) /\ o.id.rid \in idList
  IN IF task[n].op = "delete" THEN [task[n] EXCEPT !.step = IF exists THEN "held" ELSE "gone"]
     ELSE IF checkIfUserAssignedMSI(o.id) /\ ~exists THEN None
     ELSE [task[n] EXCEPT !.step = "patch"]

UpdateUserMSIError(t) ==
  /\ cycle = "sync" /\ plan[t] # None
  /\ Written(t)
  /\ plan[t].add \cup plan[t].remove # {}
  /\ UpdateFails(t)
  /\ \/ /\ Reachable(t)
        /\ task' = [n \in Name |-> IF At(n, t) /\ task[n].step = "cloud" THEN AfterError(n, cloud'[t]) ELSE task[n]]
     \/ /\ ~Reachable(t) \/ "get" \in Faults
        /\ task' = [n \in Name |-> IF At(n, t) /\ task[n].step = "cloud" THEN None ELSE task[n]]
  /\ plan' = [plan EXCEPT ![t] = None]
  /\ UNCHANGED <<env, store, cycle, snap>>

\* Status Assigned, by a JSON patch that only names the object.
PatchAssigned(n) ==
  /\ task[n] # None /\ task[n].step = "patch"
  /\ \/ api[n] # None /\ Put(n, SetStatus(api[n], "Assigned")) /\ NoFault
     \/ api[n] = None /\ UNCHANGED store /\ NoFault
     \/ Fault("status") /\ UNCHANGED store
  /\ Done(n)
  /\ UNCHANGED <<env, cloud, cycle, snap, plan>>

\* The worker of n's node has waited for its status updates.
Patched(n) == \A m \in Name : At(m, TargetOf(task[n].obj.node)) => task[m].step # "patch"

PatchUnassigned(n) ==
  /\ task[n] # None /\ task[n].step = "unassign" /\ Patched(n)
  /\ \/ api[n] # None /\ Put(n, SetStatus(api[n], "Unassigned")) /\ Goto(n, "remove") /\ NoFault
     \/ api[n] = None /\ UNCHANGED store /\ Done(n) /\ NoFault
     \* an error, even one that hides that the patch went through, ends the delete
     \/ Fault("status") /\ UNCHANGED store /\ Done(n)
     \/ Fault("status") /\ api[n] # None /\ Put(n, SetStatus(api[n], "Unassigned")) /\ Done(n)
  /\ UNCHANGED <<env, cloud, cycle, snap, plan>>

RemoveAssignedIdentity(n) ==
  /\ task[n] # None /\ task[n].step = "remove"
  /\ \/ api[n] # None /\ Put(n, None) /\ NoFault
     \/ api[n] = None /\ UNCHANGED store /\ NoFault
     \/ Fault("remove") /\ UNCHANGED store
  /\ Done(n)
  /\ UNCHANGED <<env, cloud, cycle, snap, plan>>

\* After a failed UpdateUserMSI an object is removed if its identity is off the
\* node, or stays there because it is in use.  The order in which checkIfInUse
\* meets a user of the identity and a node it cannot parse is not determined.
DeleteAfterError(n) ==
  /\ task[n] # None /\ task[n].step \in {"held", "gone"} /\ Patched(n)
  /\ LET o == task[n].obj
         inUse == checkIfInUse(n, o, snap.want, nodes)
         checkErr == checkIfInUseError(n, o, snap.want, nodes)
         getErr == VMSSGroupsError(nodes, snap.nodeRefs)
     IN \/ /\ getErr \/ checkErr \/ (task[n].step = "held" /\ ~inUse)
           /\ Done(n)
        \/ /\ ~getErr /\ (checkErr => inUse) /\ (task[n].step = "gone" \/ inUse)
           /\ Goto(n, "remove")
  /\ UNCHANGED <<env, store, cloud, cycle, snap, plan, faults>>

TaskStep(n) ==
  Write(n) \/ PatchAssigned(n) \/ PatchUnassigned(n) \/ RemoveAssignedIdentity(n) \/ DeleteAfterError(n)

-----------------------------------------------------------------------------
\* reconcileIdentityAssignment, on the sync goroutine.

generateIdentityAssignmentState(t) ==
  {cache[n].id.rid : n \in {m \in Keys(cache) : /\ TargetOf(cache[m].node) = t
                                              /\ cache[m].status = "Assigned"
                                              /\ checkIfUserAssignedMSI(cache[m].id)}}

\* Mutant: the difference the other way round.
DiffSwapped(t) == cloud[t] \ generateIdentityAssignmentState(t)

generateIdentityAssignmentDiff(t) == generateIdentityAssignmentState(t) \ cloud[t]

\* One object on a node that is unknown, or whose provider ID does not parse,
\* ends the reconciliation of all.
Reconcile ==
  /\ cycle = "idle"
  /\ \A n \in Keys(cache) : cache[n].node \in nodes \ Malformed
  /\ LET diff == [t \in Target |-> generateIdentityAssignmentDiff(t)]
     IN /\ \E t \in Target : diff[t] # {}
        /\ plan' = [t \in Target |-> IF diff[t] = {} THEN None ELSE [add |-> diff[t], remove |-> {}]]
  /\ cycle' = "reconcile"
  /\ UNCHANGED <<env, store, cloud, snap, task, faults>>

ReconcileNode(t) ==
  /\ cycle = "reconcile" /\ plan[t] # None
  /\ \/ Reachable(t) /\ NoFault /\ cloud' = [cloud EXCEPT ![t] = @ \cup plan[t].add]
     \/ UpdateFails(t)
  /\ plan' = [plan EXCEPT ![t] = None]
  /\ UNCHANGED <<env, store, cycle, snap, task>>

\* The process dies, or loses the lease and exits; the next leader lists afresh.
Crash ==
  /\ Fault("crash")
  /\ cycle' = "idle" /\ snap' = None
  /\ plan' = NoPlans /\ task' = NoTasks
  /\ cache' = api /\ watch' = <<>>
  /\ UNCHANGED <<env, api, cloud>>

Worker(t) == UpdateUserMSI(t) \/ UpdateUserMSIError(t) \/ ReconcileNode(t)

Next ==
  \/ Environment
  \/ Deliver
  \/ Sync
  \/ CycleEnd
  \/ \E n \in Name : TaskStep(n)
  \/ \E t \in Target : Worker(t)
  \/ Reconcile
  \/ Crash

Spec == Init /\ [][Next]_vars

\* A cycle has something to do: Sync is enabled.
SyncPending ==
  LET new == createDesiredAssignedIdentityList(pods, bindings, ids)
  IN cycle = "idle" /\ Keys(getAzureAssignedIDsToCreate(cache, new)) \cup Keys(getAzureAssignedIDsToDelete(cache, new)) # {}

\* Goroutines run, both tickers keep firing, and the watch delivers.  The second
\* conjunct is WF_vars(Sync) with its ENABLED spelled out, which TLC finds easier.
Fairness ==
  /\ WF_vars(Deliver)
  /\ []<>~SyncPending \/ []<><<Sync>>_vars
  /\ WF_vars(CycleEnd)
  /\ WF_vars(Reconcile)
  /\ \A n \in Name : WF_vars(TaskStep(n))
  /\ \A t \in Target : WF_vars(Worker(t))

FairSpec == Spec /\ Fairness

-----------------------------------------------------------------------------
\* The properties.

\* What the objects that MIC reads ask for now.
Desired == createDesiredAssignedIdentityList(pods, bindings, ids)

\* The identity of o is on the VM/VMSS of its node.
Backed(o) == checkIfUserAssignedMSI(o.id) => o.id.rid \in cloud[TargetOf(o.node)]

\* o needs the identity x on the VM/VMSS t.
Uses(o, x, t) ==
  /\ o # None
  /\ checkIfUserAssignedMSI(o.id) /\ o.id.rid = x
  /\ TargetOf(o.node) = t

\* What InUseKept rests on: checkIfInUse tells pods apart by name, without their
\* namespace, and identities by client ID.
OnePodPerName == \A p, q \in Pod : PodName[p] = PodName[q] => p = q

KnownIDs(ns, i) == IdSpecs[ns][i] \cup ({f[ns][i] : f \in InitIds} \ {None})

OneIdentityPerMSI ==
  \A ns1, ns2 \in Namespace, i, j \in IdName :
    \A x \in KnownIDs(ns1, i), y \in KnownIDs(ns2, j) :
      checkIfUserAssignedMSI(x) /\ checkIfUserAssignedMSI(y) /\ x.rid = y.rid => x.cid = y.cid /\ i = j

\* What the records of what is where rest on.  The sleep after a cycle is long
\* enough, nodes stay, MIC does not restart, and its status patches and its GETs
\* of a VM/VMSS get through.
Steady == Settles /\ "node" \notin Edits /\ Faults \cap {"status", "get", "crash"} = {}

\* The failures that AssignedBacked withstands: a creation that fails, and a failed
\* UpdateUserMSI or a failed removal, but not both.  After the one an object that
\* still says Assigned is removed, which the other would keep.
BackedFaults == "detach" \notin Edits /\ "update" \notin Faults /\ ~({"cloud", "remove"} \subseteq Faults)

\* The failures that Recorded withstands: a failed UpdateUserMSI and a failed
\* update.  After a failed creation nothing names the identity that is assigned all
\* the same.  A failed removal leaves an object that says Unassigned: it counts as
\* a use of the identity, and is removed without it later.
RecordedFaults == Faults \cap {"create", "remove"} = {} /\ Malformed = {}

\* Objects under one name with one resource version are one object: its edits are
\* numbered from 1, after whatever the cluster starts with.
DistinctVersions ==
  \A f \in InitIds, ns1, ns2 \in Namespace, i \in IdName :
    f[ns1][i] # None =>
      /\ f[ns1][i].rv \notin 1..MaxEdits
      /\ f[ns2][i] # None /\ f[ns1][i].rv = f[ns2][i].rv => f[ns1][i].type = f[ns2][i].type /\ f[ns1][i].rid = f[ns2][i].rid

\* A pod that comes back under its name is on the VM/VMSS it was on.
OneTargetPerPod ==
  \A p \in Pod : \A r, s \in PodSpecs[p] : r.node # NoNode /\ s.node # NoNode => TargetOf(r.node) = TargetOf(s.node)

\* An identity name stands for one identity of Azure AD for good.
OneMSIPerIdentity ==
  \A ns1, ns2 \in Namespace, i \in IdName :
    \A x \in KnownIDs(ns1, i), y \in KnownIDs(ns2, i) : x.type = y.type /\ x.rid = y.rid /\ x.cid = y.cid

\* Client IDs and resource IDs of MSIs tell the same ones apart.
OneClientIDPerMSI ==
  \A ns1, ns2 \in Namespace, i, j \in IdName :
    \A x \in KnownIDs(ns1, i), y \in KnownIDs(ns2, j) :
      checkIfUserAssignedMSI(x) =>
        /\ checkIfUserAssignedMSI(y) /\ x.rid = y.rid => x.cid = y.cid
        /\ x.cid = y.cid => checkIfUserAssignedMSI(y) /\ x.rid = y.rid

\* No client ID under which the MSI x is known is on the immutable list.
Mutable(x) ==
  \A ns \in Namespace, i \in IdName : \A s \in KnownIDs(ns, i) :
    checkIfUserAssignedMSI(s) /\ s.rid = x => ~checkIfIdentityImmutable(s)

\* An UpdateUserMSI of a sync cycle, failed or not, never takes an identity off a
\* VM/VMSS on which a pod of that cycle's desired list needs it: what checkIfInUse,
\* the merge of the nodes of a scale set and "add wins over remove" are for.
InUseKept ==
  [][\A t \in Target, n \in Name :
       /\ cycle = "sync" /\ plan[t] # None /\ plan'[t] = None
       /\ snap.want[n] # None /\ snap.want[n].node \in snap.nodes
       /\ Uses(snap.want[n], snap.want[n].id.rid, t)
       /\ snap.want[n].id.rid \in cloud[t]
       => snap.want[n].id.rid \in cloud'[t]]_vars

\* An object that is up to date and says Assigned tells the truth, unless its
\* update or delete is under way: NMI hands out tokens on its word.  A node whose
\* provider ID does not parse is left out: a delete there may stop half way.
AssignedBacked ==
  \A n \in Keys(api) :
    /\ api[n].status = "Assigned"
    /\ task[n] = None
    /\ api[n].node \in nodes \ Malformed
    /\ Desired[n] # None /\ matchAssignedID(api[n], Desired[n])
    => Backed(api[n])

\* Every pod is on a known node: pods of a node that is gone go too in the end.
PodsOnNodes == \A p \in Pod : pods[p] # None => pods[p].node \in nodes \cup {NoNode}

\* Whatever call failed, and across restarts, the reconciliation makes the
\* up-to-date objects tell the truth again once the environment rests, if no pod is
\* left on a node that is gone: its object would end every reconciliation.
EventuallyBacked == <>[]PodsOnNodes => <>[]AssignedBacked

\* An AzureAssignedIdentity of a live node is removed only after its identity is
\* off the VM/VMSS, or while another object or desired pod still needs it there.
DeletedAfterCleanup ==
  [][\A n \in Keys(api) :
       LET x == api[n].id.rid
           t == TargetOf(api[n].node)
       IN /\ api'[n] = None
          /\ api[n].node \in nodes
          /\ checkIfUserAssignedMSI(api[n].id) /\ ~checkIfIdentityImmutable(api[n].id)
          => \/ x \notin cloud[t]
             \/ \E m \in Name \ {n} : Uses(api[m], x, t) \/ Uses(snap.want[m], x, t)]_vars

\* The same of the object as the cycle read it, whatever fails and whenever MIC dies:
\* an object that said Assigned, on a node the cycle knew, is removed only after its
\* identity is off the VM/VMSS, or while another pod of the cycle's desired list needs
\* it there.  A delete whose UpdateUserMSI failed half way must not go on blindly.
AssignedCleanedUp ==
  [][\A n \in Keys(api) :
       api'[n] = None =>
         LET o == task[n].obj
             t == TargetOf(o.node)
         IN /\ o.status = "Assigned" /\ o.node \in snap.nodes
            /\ checkIfUserAssignedMSI(o.id) /\ ~checkIfIdentityImmutable(o.id)
            => \/ o.id.rid \notin cloud[t]
               \/ \E m \in Name \ {n} : Uses(snap.want[m], o.id.rid, t)]_vars

\* Every identity that MIC put on a VM/VMSS, and may take off again, is on record:
\* some object names it, or the running cycle still has it on its remove list.  A
\* new leader has only the objects to go by.
Recorded ==
  \A t \in Target : \A x \in cloud[t] \ InitCloud[t] :
    \/ ~Mutable(x)
    \/ \E n \in Name : Uses(api[n], x, t)
    \/ plan[t] # None /\ x \in plan[t].remove

\* An identity is put on a VM/VMSS, by a cycle or by the reconciliation, only when
\* an object names it there: updateUserMSI calls Azure after its creates and updates
\* are through.  A leader that takes over at any moment finds what there is to undo.
RecordedAhead ==
  [][\A t \in Target : \A x \in cloud'[t] \ cloud[t] : \E n \in Name : Uses(api[n], x, t)]_vars

Ready(n) ==
  /\ api[n] # None
  /\ matchAssignedID(api[n], Desired[n])
  /\ api[n].status = "Assigned" /\ Backed(api[n])

\* Once the environment rests, every desired assignment is made for good: the
\* object is there, up to date and Assigned, and its identity on the VM/VMSS.
EventuallyAssigned ==
  <>[](\A n \in Name : Desired[n] # None /\ Desired[n].node \in nodes => Ready(n))

\* Once the environment rests, the objects that no pod wants are gone for good.
EventuallyDeleted == <>[](\A n \in Name : Desired[n] = None => api[n] = None)

\* Once the environment rests, in a cluster whose nodes stay, the identities that no
\* pod needs are off every VM/VMSS for good.
EventuallyRemoved ==
  <>[](\A t \in Target : \A x \in cloud[t] \ InitCloud[t] : \E n \in Name : Uses(Desired[n], x, t))
=============================================================================
