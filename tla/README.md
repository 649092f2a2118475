# A TLA+ model of AAD Pod Identity

AAD Pod Identity gives pods of a Kubernetes cluster managed identities of Azure. This
directory holds TLA+ modules translated from its Go code, TLC configurations that check
them on small instances, and TLAPS proofs of the properties that matter most for every
value of the constants. `PROJECT.json` maps every definition to the lines it models and
lists the runs, mutants, findings, hazards and theorems.

    tlc -config mic_safety.cfg MCMIC       # any run of PROJECT.json: its cfg and module
    tlapm MIC_proofs.tla                   # any *_proofs module

## 1. The system

| Part | State | Operations | Interacts with | What makes it hard |
|---|---|---|---|---|
| MIC sync loop (`pkg/mic`) | informer caches; `AzureAssignedIdentity` objects (the only record across restarts) | `Sync`: list, compute the desired objects, the create/update/delete lists and the identities to add to and remove from each VM/VMSS; one worker per VM/VMSS (`updateUserMSI`) | API server, cloud provider | workers interleave; every call can fail; the cache lags behind MIC's own writes; a scale set is shared by nodes |
| MIC reconciliation | the same | `reconcileIdentityAssignment`: put back what is recorded as Assigned and is missing on Azure | cloud provider | runs on the sync goroutine; one unknown node ends it |
| Leader election, restart | the lease | `Run`, `os.Exit` on a lost lease | all of MIC | a new leader has only the objects |
| Type upgrade (`UpgradeTypeIfRequired`) | a ConfigMap key, all CRD objects | rewrite every object once, record it | API server | a crash between two writes, an old leader beside the new one, users who edit meanwhile |
| Event loop (`Start`, `Sync`, informers) | caches, the event channel, two tickers | start the informers, wait for their caches, one cycle per event or tick | informers' handlers, which block on the channel | a full channel, changes between the reads of a cycle, changes without an event |
| Cloud provider (`pkg/cloudprovider`, `pkg/retry`) | Retry-After deadlines shared by all calls of a kind; a local copy of the resource; the configuration and the two clients made from it | `UpdateUserMSI`: GET, PATCH in batches, retry without erroneous identities; `Init` on a write of the file | Azure Resource Manager | batches, partial failure, throttling, retries, the identity type, clients replaced under a call |
| NMI requests (`pkg/nmi`, `pkg/k8s`, `pkg/auth`) | informer caches, per-request locals | the routes, `msiHandler`, `hostHandler`, lookup of pod and identity (standard and managed client) with two retry budgets | MIC through the objects; the kubelet through pod IPs | reused IPs, stale caches, objects that change between attempts |
| NMI iptables (`pkg/nmi/iptables`) | a NAT chain and the jumps to it, tracked connections | `AddCustomChain` at start and every tick, `DeleteCustomChain` on SIGTERM, `deleteConntrackEntries` at start | the kernel; whoever else edits the table | a sequence of commands that is not atomic, crashes in between |
| CRD and pod clients (`pkg/crd`, `pkg/pod`) | informers | list, create, update, patch, remove | API server | finalizer removal in two calls, conflicts |
| Metrics, statistics, probes, conversions, commands | – | – | – | not modelled, section 8 |

## 2. The modules

| Module | Models | Lines of code it stands for |
|---|---|---|
| `AssignedIDs` | what a sync cycle computes from what it listed, as operators: desired objects, differences, in-use checks, lists per VM/VMSS | `mic.go` 545-1011, `vmss.go`, `sort.go` |
| `MIC` (extends `AssignedIDs`) | the sync goroutine, the workers, the reconciliation, crash and restart, the API server with the watch, Azure as seen through `UpdateUserMSI` | `mic.go` 388-543, 1013-1471, `crd.go` |
| `MSIUpdate` | abstract specification: what `UpdateUserMSI` promises, and all that `MIC` assumes of it | `cloudprovider.go` |
| `CloudProvider` | `UpdateUserMSI` in detail and the reload of its configuration; refines `MSIUpdate` | `pkg/cloudprovider`, `pkg/retry`, `pkg/filewatcher` |
| `TypeUpgrade` | the upgrade of the stored objects at the start of a leader | `mic.go` 240-378, `crd.go` 303-425 |
| `SyncLoop` | informers, handlers, the event channel and the select of the sync goroutine | `mic.go` 337-458, `crd.go` 178-240, `pod.go`, `node.go` |
| `NMI` | one request, from its route to its answer, with the caches changing under it | `pkg/nmi`, `k8s/client.go`, `crd.go`, `pkg/auth` |
| `IPTables` | the NAT rules, the tracked connections and NMI's commands | `iptables.go`, `conntrack.go`, `server.go` |
| `MCMIC`, `MCCloud`, `MCTypeUpgrade`, `MCSyncLoop`, `MCNMI`, `MCIPTables` | small instances for TLC | – |
| `MIC_proofs`, `MICBacked_proofs`, `MICRecords_proofs`, `CloudProvider_proofs`, `TypeUpgrade_proofs`, `SyncLoop_proofs`, `NMI_proofs`, `IPTables_proofs` | theorems and proofs | – |

`MIC` composes with `CloudProvider` through `MSIUpdate`: the actions `UpdateUserMSI` and
`UpdateUserMSIError` of `MIC` do to a VM/VMSS what `MSIUpdate` allows between `Start` and
`Finish` (everything on success, any part on an error, add wins over remove), and
`PromiseKept` shows that the code of the cloud provider allows no more.

### MIC: state and actions

- `pods`, `bindings`, `ids`, `nodes` are the informers' view of objects MIC only reads. A lagging
  informer is an edit that comes later, so no second copy is kept.
- `api`, `cache`, `watch`: the `AzureAssignedIdentity` objects in the API server, in the
  informer, and the events on their way. `MaxLag` bounds the events under way. Objects are
  keyed by `<<pod, identity>>` (`getAssignedIDName`). A PUT carries the resource version of
  the cached object, so it is refused if the cache was behind when the cycle started
  (`fresh`); the status is set by JSON patches, which never conflict.
- `cloud`: the user-assigned identities of every VM and scale set. A VM loses them with
  its node; a scale set outlives its instances.
- `cycle`, `snap`, `plan`, `task`: what the sync goroutine is doing, the desired list the cycle
  was computed from, the `UpdateUserMSI` call that each worker still has to make, and the rest
  of each object's create, update or delete. `snap.nodes` only serves
  `InUseKept` and `AssignedCleanedUp`.

`Sync` reads everything at once and computes lists and plans (`mic.go` 388-511). Then
each call is an action: `Write` (POST or PUT), `UpdateUserMSI`/`UpdateUserMSIError` (with
the GET that follows an error), `PatchAssigned`, `PatchUnassigned`, `DeleteAfterError`,
`RemoveAssignedIdentity`. The two barriers of `updateUserMSI` are `Written` and `Patched`.
The semaphores that bound the number of parallel calls are abstracted to "in any order".
A removal is a DELETE and a PUT without the finalizer: until both are done the object is
there, so a failure of either is the fault `remove`. `Crash` is a crash or a lost lease:
all but `api` and `cloud` is forgotten and the informer lists anew. An object keeps the
namespace it was created in: updates copy its `ObjectMeta` (`mic.go` 828-852), so one object
per name is exact as long as the cache shows what the last cycle created.

`Settles` says that the sleep at the end of a cycle (`mic.go` 535-539) is enough for
the cache to catch up; all runs assume it, section 7 says what happens without.

### CloudProvider

`Call` starts a call with any lists; `Begin`, `Get`, `GetFails`, `UpdateIdentities`, `Update`,
`UpdateFails`, `Return` are its steps, a request being sent in one and answered in the
next. `vm` is the caller's copy of the resource, which the retry closure shares with the
batches: after a failed batch the retry carries only that batch, and the rest is lost
(`rest` is set again from `vm`). `Do` returns the first error even if a retry succeeds. A
Retry-After deadline is a flag that `Expire` (time) clears. `window` is a history variable:
Azure has asked not to be called. `failed` keeps which kind of error there was. External
and assumed: the semantics of a PATCH (`Patched`), ARM refusing erroneous identities, and
that a failed wait leaves the PATCH done or not done. Not modelled: a PATCH that is applied
after the call has returned, and others changing the resource between GET and PATCH.

The watcher of the configuration file is a second process: `WriteFile` (external) makes an
event, `Reload` empties the configuration, `ReadConfig` reads the file (some versions of it
cannot be read), `NewClient` replaces one client, then the other. The code takes no lock.
A request takes the configuration and an attempt the client of the moment; `sent` notes
what a replacement does to a request that is under way: `"lost"`, sent without a resource
group, it can only fail; `"old"`, its client has been replaced, and its deadlines are
nobody's any more. Every configuration names the same resource group.

### TypeUpgrade

Two replicas of MIC, of which the old leader may go on after it has lost the lease, until
`OnStoppedLeading` ends it. Each read and write of the ConfigMap and each list and PUT of
the four kinds of objects is an action; a PUT carries the resource version that was listed,
so it is refused if a user edited the object meanwhile, and the replica exits (`Exit`). An
object has a resource version, a format and a counter of edits; an `AzureAssignedIdentity`
also has the copies of its identity and binding (`ref`). `Sync` is one cycle on one object,
which brings these copies up to date. Objects are not created during an upgrade, and an
edit keeps the format of the object.

### SyncLoop

Each informer lists, then receives changes; a cache is the number of changes that matter to
a cycle, and so is what a cycle has read (`seen`). Handlers run one event at a time per
informer and block while the channel is full. The loop's locations are the select, the
reads of a cycle in their order, and the reconciliation. Work on Azure is left to `MIC`.

### NMI

Requests share no state, so there is one. Its locals are the record `rq`; all else is
an informer cache that changes between two reads: `StartPod`, `StopPod` (the IP is free at
once), `CachePod` (the informer learns of it later), `MIC`, `EditBinding`, `EditIdentity`.
Lists are sets and "the first" is any member, as they come from Go maps. IDs are pairs of
what they name and a spelling, because the code compares them in two ways. `known` is a
history field: the informer knew the sender when its IP was looked up. An object in state
Unassigned is `absent`, as no lookup reads that state. A path is the set of route patterns
that it matches, and `handler` is the first route that takes it; `defaultPathHandler` is the
proxy to IMDS. `GetTokens` tells the three kinds of identity apart and `Authenticate` is the
answer of Azure AD or IMDS as a status code. `panic` says where a handler panicked before
`ServeHTTP` recovered.

### IPTables

Every iptables command is an action, in the order of `AddCustomChain`, `LogCustomChain`
and `DeleteCustomChain`; any may fail, NMI may die between two, and others may delete rules.
An error of `Exists` counts as "no". Semantics of the go-iptables calls are external. A pod
may open a connection at any time (`Connect`): `direct` says that one is tracked that goes
past NMI, and `deleteConntrackEntries`, after the first round of commands, ends it or is fatal.

## 3. The runs

| Run | Checks | Result |
|---|---|---|
| `mic_safety` | `TypeOK`, `AssignedBacked`, `InUseKept` | 2.1 M states |
| `mic_cleanup` | `Recorded`, `DeletedAfterCleanup`, `EventuallyAssigned`, `EventuallyRemoved` | 326 k |
| `mic_restart` | `EventuallyBacked`, `EventuallyDeleted`, `AssignedCleanedUp` | 511 k |
| `cloud_promise` | `TypeOK`, `PromiseKept`, `ErroneousIsolated`, `Returns`, `Reloaded`, `SystemKeptWithUser` | 192 k |
| `upgrade` | `TypeOK`, `UpgradeRecorded`, `NoCycleTriggered`, `NoLostEdit`, `EventuallySyncing` | 628 k |
| `sync_loop` | `TypeOK`, `WakeupPending`, `EventuallyActive`, `EventuallyNoticed`, `NoticedByTicker` | 301 k |
| `nmi_standard` | `TypeOK`, `OwnIdentity`, `Unclaimed`, `LookupNeverPanics`, `Answered`, `ServedWhenAssigned` | 130 k |
| `nmi_managed` | `OwnIdentity` | 857 k |
| `iptables` | `TypeOK`, `NoBypass`, `NoGap`, `OrderlyExit`, `Repaired` | 321 k |
| `mic_inuse_namespaces` | `InUseKept` | violated, section 7 |
| `mic_stuck_unassigned` | `EventuallyAssigned` | violated |
| `cloud_throttle_lost` | `ThrottleHonoured` | violated |

What the properties say, and what could go wrong:

- `InUseKept`: a sync cycle never takes an identity off a VM/VMSS on which a pod of its
  desired list needs it. Rests on `checkIfInUse`, the merge of the nodes of a scale set, the
  consolidation of the lists, and add winning over remove, also when the call fails half way.
- `AssignedBacked`, `EventuallyBacked`: an up-to-date object in state Assigned tells the truth;
  NMI hands out tokens on its word. Under restarts and failed status updates it is the
  reconciliation that makes it true again, once no pod is left on a node that is gone.
- `Recorded`: whatever MIC put on Azure is named by an object or on the running cycle's
  remove list; otherwise a crash or failure would leave it there for ever.
- `DeletedAfterCleanup`, `AssignedCleanedUp`: the object goes only after the identity, unless
  another one needs it. The first speaks of the object as it is when it goes, and holds in a
  cluster whose nodes stay and under a MIC that runs on. The second speaks of the object as
  the cycle read it in state Assigned, and holds also when MIC dies, nodes go and any call
  fails. Both rest on what `updateUserMSI` does after a failed call: it asks Azure, and leaves
  the object if its identity is still there and needed nowhere else.
- `EventuallyAssigned`, `EventuallyDeleted`, `EventuallyRemoved`: the convergence of the loop.
- `PromiseKept`: `CloudProvider` implements `MSIUpdate` (refinement). `ErroneousIsolated`:
  identities that Azure refuses do not hold up the others. `Returns`: batches and retries end.
  `Reloaded`: the last version of the file is taken up whatever it interrupts, if it can be read.
- `UpgradeRecorded`: the record says "done" only when every object is rewritten, also if leaders
  died or overlapped. `NoCycleTriggered`: the upgrade itself makes no object look out of date,
  as the comment in `crd.go` promises. `NoLostEdit`: it overwrites no edit and revives no object.
  `EventuallySyncing`: a leader gets through to its sync loop.
- `WakeupPending`: a change that a handler has to report and no cycle has read is on its way to
  one. `EventuallyActive`: the handlers that block on a full channel do not keep `Start` from
  starting the loop that empties it. `EventuallyNoticed`, `NoticedByTicker`: what events alone,
  and events with the ticker, make MIC see. Changes are counted if a cycle computes from them: a
  pod edit that the handlers filter out is none. A cycle of the model reads all nodes,
  while the code looks up those that it has work for (`mic.go` 1291-1297).
- `OwnIdentity`: a sender whom the informer knew only gets a requested identity that is
  assigned to it at that moment, whatever starts, stops and changes meanwhile; in managed
  mode, one of its namespace that a binding of its namespace and label named when the bindings
  were read. The identities are read later, and the binding may be gone by then.
  `ServedWhenAssigned`: it does get there. `Answered`: both retry budgets end. `Unclaimed`: what
  is passed on to IMDS as it came is not a token request, whichever route patterns
  its path matches.
- `NoGap`, `Repaired`: the redirection is not interrupted by a healthy NMI, and comes back after
  whatever failed or was deleted. `OrderlyExit`: without a failing command, an NMI that is
  stopped can take everything off, wherever its predecessors died; a second jump to the chain
  would keep it from that. `NoBypass`: no connection from before the rules survives the start.
- `ThrottleHonoured`: no request before the Retry-After of an earlier answer is over.

### Bounds

All MIC runs have two pods: enough for one to need what the other gives up, and for
interleavings of two tasks of one or two workers.

| Run | Instance |
|---|---|
| `mic_safety` | two namespaces; two instances of a scale set and one node whose provider ID does not parse; MSIs, a service principal, a namespaced and a malformed identity, one immutable; 2 edits of pods or identities, 2 faults (Azure, create), lag 2 |
| `mic_cleanup` | a scale set of two nodes, a pod that moves between them and one that does not; 3 edits (pods, bindings, identities that keep their MSI, detached identities), 2 faults (Azure, update), lag 1 |
| `mic_restart` | two VMs; 3 edits (pods, nodes), 2 faults (crash, status, create, update, removal, Azure, GET), lag 1 |
| `cloud_throttle_lost` | two VMs, one identity, errors with and without Retry-After |
| `cloud_promise` | one VM, three identities, two of them erroneous, batches of 2, one retry, 24 pairs of lists (every add list with no, one or two removals), every fault, two writes of the configuration file of which the first cannot be read |
| `upgrade` | two replicas, one object of each kind, the AzureAssignedIdentity with copies of identity and binding, 2 edits, 2 faults |
| `sync_loop` | a channel of one event, two pods, a binding and a node at the start, 2 changes of any kind, one failing cycle |
| `nmi_standard` | a pod of one name in each of two namespaces, one of them excepted, one IP, two identities, one attempt of each budget, every kind of request, paths that match none, one or two of the routes |
| `nmi_managed` | the same names in two namespaces for pods, bindings and identities, two IPs |
| `iptables` | a chain left by another NMI, 3 edits, 3 faults, 3 stops, with deletion of connections |

Two edits and a fault are what it takes to delete a pod, fail, and bring the pod back; three
edits let a second pod come in between. A call of `UpdateUserMSI` is about one MSI in `mic_cleanup` and
`mic_restart`, so one that fails half way has done all or nothing; in `mic_safety` it may add one and
remove another, and the theorems are for any number. The code's batch size (150, `truncate.go` 8) and number of retries
(a flag, 2 by default) enter through comparisons only, so small numbers meet every case. `CHECK_DEADLOCK FALSE` is set
for the MIC runs and `upgrade` only: MIC rests when nothing is left to do.

### Fairness

- `MIC`: weak fairness of the watch, of `Sync` and `Reconcile` (tickers, and Go's `select`
  takes either), of the end of a cycle, and of every worker and task (goroutines run, calls
  return). Faults and edits are bounded and not fair: liveness holds once they rest. The
  fairness of `Sync` is written with its enabling condition spelled out (`SyncPending`).
- `CloudProvider`: a call's goroutine runs and its requests are answered; the watcher's
  goroutine runs. Nothing is assumed of writes to the file.
- `TypeUpgrade`: every replica's steps, the lease (somebody gets it, an old leader notices)
  and the cycles; faults and edits are bounded.
- `SyncLoop`: informers and the loop's goroutine run (weak). A blocked send gets its turn and a
  select that could take an event takes one in the end (strong): Go's channels are
  first-in-first-out for senders and `select` chooses at random. Tickers are not fair, except
  as the hypothesis of `NoticedByTicker`.
- `NMI`: the request's goroutine runs. Nothing is assumed of caches or pods.
- `IPTables`: the kubelet restarts NMI, commands return, the ticker fires.

## 4. The proofs

| Theorem | States | Assumes of the constants |
|---|---|---|
| `MIC_proofs!TypeCorrect` | `Spec => []TypeOK` | the named ASSUMEs |
| `MIC_proofs!InUse` | `Spec => InUseKept` | `OnePodPerName`, `OneIdentityPerMSI` |
| `MICBacked_proofs!BackedAlways` | `Spec => []AssignedBacked` | `Steady`, `BackedFaults`, `OnePodPerName`, `OneIdentityPerMSI`, `DistinctVersions` |
| `MICRecords_proofs!RecordedAlways` | `Spec => []Recorded` | `Steady`, `RecordedFaults`, `OneTargetPerPod`, `OneMSIPerIdentity`, `OneClientIDPerMSI` |
| `MICRecords_proofs!CleanupFirst` | `Spec => DeletedAfterCleanup` | the same |
| `MICRecords_proofs!CleanedUpAlways` | `Spec => AssignedCleanedUp` | `OneClientIDPerMSI`, `DistinctVersions`, `Malformed = {}` |
| `MICRecords_proofs!AheadAlways` | `Spec => RecordedAhead` | `Settles`, neither `"create"` nor `"update"` among `Faults` |
| `CloudProvider_proofs!CloudTypeCorrect` | `Spec => []TypeOK` | the ASSUME |
| `CloudProvider_proofs!PromiseIsKept` | `Spec => PromiseKept` (refinement) | `OneSpelling` |
| `CloudProvider_proofs!SystemIdentityKept` | `Spec => SystemKeptWithUser` | `UserTyped` |
| `CloudProvider_proofs!IsolatedAlways` | `Spec => []ErroneousIsolated` | `OneSpelling`, `FiniteLists` |
| `TypeUpgrade_proofs!UpgradeTypeCorrect` | `Spec => []TypeOK` | the ASSUME |
| `TypeUpgrade_proofs!UpgradeComplete` | `Spec => []UpgradeRecorded` | the ASSUME |
| `TypeUpgrade_proofs!NoCycle` | `Spec => []NoCycleTriggered` | the ASSUME |
| `TypeUpgrade_proofs!EditsKept` | `Spec => NoLostEdit` | the ASSUME |
| `SyncLoop_proofs!LoopTypeCorrect` | `Spec => []TypeOK` | the ASSUME |
| `SyncLoop_proofs!NoLostWakeup` | `Spec => []WakeupPending` | the ASSUME |
| `NMI_proofs!NMITypeCorrect` | `Spec => []TypeOK` | the ASSUME |
| `NMI_proofs!OwnIdentityOnly` | `Spec => OwnIdentity` | the ASSUME |
| `NMI_proofs!OnlyUnclaimed` | `Spec => []Unclaimed` | the ASSUME |
| `NMI_proofs!NoLookupPanic` | `Spec => []LookupNeverPanics` | `NamespacesKept` |
| `IPTables_proofs!IPTablesTypeCorrect` | `Spec => []TypeOK` | the ASSUME |
| `IPTables_proofs!NothingBypasses` | `Spec => []NoBypass` | the ASSUME |
| `IPTables_proofs!RedirectionKept` | `Spec => NoGap` | the ASSUME |
| `IPTables_proofs!ExitIsOrderly` | `Spec => []OrderlyExit` | the ASSUME |

- `InUse`. `OnePodPerName` (pod names are distinct across namespaces) and `OneIdentityPerMSI`
  (no two AzureIdentities name one MSI) are what the code takes for granted; section 7 shows
  that both are needed. `InUseKept` speaks of one step, but that step uses a plan made
  earlier. `PlanInv` says that a plan of a running cycle removes nothing that its
  `snap.want` needs without adding it as well. `KnownInv` says that every object, cached
  object, watch event and task carries an identity of the known ones: equal resource IDs
  then mean equal client IDs, which is what `checkIfInUse` compares. The inductive invariant
  is `TypeOK /\ KnownInv /\ PlanInv`; the lemma `InUseNotRemoved` is the step from the lists
  to the plan.
- `BackedAlways`, `RecordedAlways`, `CleanupFirst`. The hypotheses say which calls fail and
  what the names stand for; the constants of `mic_safety` and `mic_cleanup` satisfy them, and
  section 7 shows what goes wrong without each that is not a rule of Kubernetes or Azure AD.
  `Steady`: the sleep after a cycle is long enough, nodes stay, MIC does not restart, its status
  patches and its GETs get through.
  `BackedFaults`: creations, and calls to Azure or removals (not both), may fail.
  `RecordedFaults`: calls to Azure and updates may fail, and provider IDs parse.
  `DistinctVersions` is Kubernetes' rule that a resource version stands for one content of an
  object, and `OneClientIDPerMSI` Azure AD's that an MSI has one client ID. The
  argument has three layers:
  - What a cycle may rely on. `Settled`: the cache is the API server's state once the watch
    is empty, and it is empty outside a sync cycle (`Rest` adds that every node is there). `PlaceInv` and `VersionInv`: all that is
    around under a name, in the API server, the cache, the watch and the tasks, is on a node
    where its pod may be, and carries one content per resource version.
  - What a cycle is about. `CycleInv` says of each task what the object under its name is at each
    step, of each name without a task that its object is as desired and not in state Created,
    and of each plan that it adds what its tasks need and removes only what an object to be
    deleted names. `ReconcileInv`: a reconciliation only adds what an Assigned object names.
  - What the objects say. `Backing`: an object in state Assigned is backed unless a step of the
    running cycle has yet to correct it, and a task that is about to write Assigned is backed.
    `HeldInv`: each identity that MIC answers for is named by an object that *holds*, one that no
    step of the cycle removes before the identity is off or another object holds it. Without
    `Holds` the property is not inductive: a removal has to know that some other object
    accounts for what it leaves. `StatusInv`: an object says Unassigned only between its patch
    and its removal, so nothing desired is stuck there. `CleanupFirst` is the step from `HeldInv`.
- `CleanedUpAlways`. This holds across crashes, failures of every kind, nodes that come and go, and
  a cache that lags behind. `CleanInv` says of each delete of a cycle whose object said Assigned
  on a node that the cycle knew: another pod of the desired list needs its identity (`Needed`),
  or (`CleanOf`) the identity is on the remove list only, until the worker calls Azure, and
  off the VM/VMSS when the delete goes on after the call. The lists of a cycle, made from one
  reading, agree (`CleanSync`); what is on the add list is there because a desired object
  needs it (`AddNeeded`); and each worker calls Azure once per cycle, so nothing that is off
  comes back.
- `AheadAlways`. `RecordedAhead`: when an identity is put on a VM/VMSS, by a cycle or by the
  reconciliation, an object names it there, so whoever takes over at that moment can find it.
  Where the hypotheses of `RecordedAlways` hold as well, `Recorded` implies it, so no run checks it; the
  theorem is about crashes, failing status patches and GETs, and nodes that come and go, where
  `Recorded` fails. `Settled` survives a crash, since a new leader lists afresh. Nothing
  is written while a reconciliation runs, so its plan stays as true as the cache was
  (`ReconcileInv`). `AheadInv` says of every create and update that its write will be accepted or
  its object is there, and that a plan adds only what such tasks are for; `Written` then
  leaves only the second case.
- `PromiseIsKept`. `CallInv` ties the local copy to the lists: what a PATCH and the
  remaining batches carry is listed (an identity on both lists as one to add), and as long
  as no attempt failed, what is done plus what is pending is everything asked for. The
  reload changes neither the lists nor the copy.
- `SystemIdentityKept`. `UserTyped` is Azure's own rule that a resource with user-assigned
  identities has a type that says so. The invariant `SystemInv`: the type that a call is
  about to send agrees with the resource's on the system-assigned identity, or the resource
  has no user-assigned ones and is sent none.
- `IsolatedAlways`. `FiniteLists`: the lists are lists. `IsoInv` counts: the retries so far
  plus the erroneous identities that the PATCH still carries are no more than the call was
  given, so a retry is left whenever something can be refused; and all the rest is done or still on the one batch (`Missing`). That a refusal
  names at least one identity that was sent, and `shouldRetry` drops it, makes the sum go down.
- `UpgradeComplete`, `NoCycle`. A replica cannot know what another has done, so the invariant
  says per replica what it has behind it (`Progress`), what its list is worth (`ListedInv`:
  an older version, or the same object) and what the versions that it collected are worth
  (`GotInv`: only an edit makes them out of date). `EditsKept` follows from `ListedInv`.
- `NoLostWakeup`. `WakeupPending` excuses a failed cycle; the invariant excuses it only for
  kinds that the running cycle has not read yet (`Awaited`).
- `OnlyUnclaimed` and `NoLookupPanic` follow from `Where` (below), of which `Routed` is a part.
  `NamespacesKept`: MIC assigns namespaced identities to pods of their namespace only.
- `OwnIdentityOnly`. `Where` says, per program location, what the request has established:
  above all that a known sender is the pod the lookup is made for, because several pods
  listed under one IP are an error. The inductive invariant is `TypeOK /\ Where(rq)`.
- `NoGap` rests on the inductive invariant `Careful`: while nobody else has edited the
  table, NMI clears the chain only when it is not complete, and appends to what the clear
  and the first append have left; an initialized NMI has deleted the connections from before.
  `NoBypass` is its last conjunct. `OrderlyExit` rests on `Tidy`: while nothing has
  failed and nobody else edits, `DeleteCustomChain` finds exactly one jump, and none, but the
  chain, when it deletes that. That jumps do not pile up otherwise is a part of `Bounded`.

Every safety property of a passing run, invariant or action property, is proved. Only model-checked: all liveness, which is
out of the prover's reach (`EventuallyAssigned`, `EventuallyDeleted`, `EventuallyRemoved`,
`EventuallyBacked`, `Returns`, `Reloaded`, `EventuallySyncing`, `EventuallyActive`,
`EventuallyNoticed`, `NoticedByTicker`, `Answered`, `ServedWhenAssigned`, `Repaired`).

## 5. Mutants

For every property of a passing run `PROJECT.json` names a mutant, a plausible bug in a
definition mapped to code, that TLC shows to violate it. They stand before their
original in the module and are marked `Mutant`.

## 6. Plan

Done in this order: `AssignedIDs` and `MIC` (the heart: a wrong removal takes an identity
from running pods), `MSIUpdate` and `CloudProvider`, `NMI`, `IPTables`, `TypeUpgrade`,
`SyncLoop`, then routing and token acquisition in `NMI`, connections in `IPTables`, and the
reload in `CloudProvider`, with the safety properties proved.

Next:

1. Composition of `MIC` and `NMI` over `AzureAssignedIdentity` objects: NMI's view of the state
   during an update.
2. Others who change a resource during a call.
3. Sync cycles of two leaders at once.

## 7. Where the guarantees end

Disagreements between the code and what it says of itself, each a violation run with a
finding in `PROJECT.json`:

- `mic_inuse_namespaces`: `checkIfInUse` tells pods apart by name only. Of two pods with the same
  name in two namespaces on one node or scale set, deleting one un-assigns the other's identity.
- `mic_stuck_unassigned`: the removal of an object fails after its status went to Unassigned,
  and the pod comes back: the object matches, only state Created is retried, and the pod never
  gets its identity.
- `cloud_throttle_lost`: all VMs share a Retry-After deadline for reads and one for writes, and every
  error sets it anew, to the present time if the answer has no such header. Of two requests under
  way the one is throttled and the other fails otherwise: the next is sent at once.

Conditions of the passing runs and of the theorems that are necessary, with the change of
constants that shows it. The first four are the parts of `Steady`:

- `Settles = FALSE`: in `mic_cleanup`, a cycle that still sees state Created deletes the object
  and leaves the identity (`EventuallyRemoved`, `Recorded`). In `mic_safety`, a POST that a stale
  cache caused is refused and the status patch then marks the old object Assigned
  (`AssignedBacked`). In `mic_cleanup`, with no faults, the reconciliation puts back the
  identity of an object that is gone already (`RecordedAhead`).
- `"node"` among the edits: when an instance of a scale set is gone, its objects are deleted
  without un-assigning the identity from the scale set, which stays (`EventuallyRemoved`,
  `Recorded` and `DeletedAfterCleanup` in `mic_cleanup`). With VMs in `mic_safety`, a VM that is
  replaced under its name has no identities, whatever the objects say (`AssignedBacked`).
- `"status"` or `"crash"` among the faults, between `UpdateUserMSI` and the status patch. On a
  create, the object stays in state Created though its identity is on Azure, and is later
  deleted without it (`Recorded`, `DeletedAfterCleanup`). On a delete, the object still says
  Assigned though its identity is off, and the pod that comes back matches it
  (`AssignedBacked`).
- `"get"` with `"cloud"` among the faults: after a failed call MIC asks Azure what was done, and
  when this fails too the status is left as it is, with the same consequences.
- `mic_restart` without the hypothesis `PodsOnNodes` of `EventuallyBacked`: a VM is replaced under
  an object in state Assigned, and another node goes while its pod stays. The object of that
  pod ends every reconciliation (`mic.go` 1376-1378), and the sync cycle keeps the object because
  the pod is there; the new VM never gets the identity back. Kubernetes deletes pods of nodes
  that are gone, which is what the hypothesis says.
- `"create"` among the faults of `mic_cleanup`: the POST fails, the identity is assigned all the
  same and nothing names it (`Recorded`, `RecordedAhead`; the latter also with `"update"` and
  `IdSpecs <- TwoMSIs`, when the PUT to another MSI fails). `"remove"`, with 4 edits: an object
  that stays as Unassigned while its pod comes back keeps the other objects' deletes from
  un-assigning the identity, and is itself deleted without it in the end (`Recorded`).
- `"update"` among the faults of `mic_safety`: the PUT fails and the status patch marks the old
  object Assigned. `"cloud"` and `"remove"` together: the delete that follows a failed call fails
  too and the object keeps saying Assigned. The reconciliation repairs both (`AssignedBacked`;
  `EventuallyBacked` in `mic_restart`).
- `"detach"` among the edits of `mic_safety`: until the reconciliation, objects do not know
  (`AssignedBacked`).
- `IdSpecs <- TwoMSIs` in `mic_cleanup`, an identity edited to another MSI (`OneMSIPerIdentity`),
  or a pod that comes back on another VM or scale set (`OneTargetPerPod`), with Azure failing:
  the update has overwritten the only record of what is still there (`Recorded`,
  `EventuallyRemoved`).
- A malformed provider ID in `mic_cleanup`: `getVMSSGroups` fails, nothing is put on the remove
  lists, and the objects are deleted (`Recorded`, `DeletedAfterCleanup`; `AssignedCleanedUp` in
  `mic_restart`).
- Two AzureIdentities of one MSI bound to one pod (`OneIdentityPerMSI`): deleting one binding
  un-assigns the MSI (`InUseKept`, `AssignedBacked`; the comment at `mic.go` 985 excludes it). Two
  pods of one name (`OnePodPerName`, the finding above) break `AssignedBacked` as well.
- Two spellings of a resource ID in one call of `CloudProvider`: remove may win
  (`PromiseKept`).
- A client ID spelled in another case: found by `EqualFold`, turned down by `==`
  (`ServedWhenAssigned`). `IsNamespaced` with objects of a MIC that was not namespaced left
  over: the filtered list is empty and indexed (`LookupNeverPanics`); `ServeHTTP` recovers.

What the properties leave out on purpose, because the code does not give it:

- `AssignedBacked` leaves out nodes whose provider ID does not parse, where a delete may stop half
  way, and `Recorded` MSIs on the immutable list, which MIC never takes off again.
- `SystemKeptWithUser` speaks of resources with user-assigned identities. On one without, a
  call that only removes turns type SystemAssigned into None (`vm.go` 211-219).
- A certificate whose key is not RSA makes `auth.go` 193 panic, which `ServeHTTP` answers with 500.
- `NoBypass` stops at the first edit of the table by others: a tick repairs the rules but does
  not delete connections, so one that was opened in the gap stays past NMI. Deletion is
  off by default.
- The Retry-After deadlines are per client: the clients of a reload know nothing of them.
- A reload that fails leaves MIC with an empty configuration (`Init` empties it first), so
  every GET fails until the file is written again. The handler reacts to writes only.
- `NoLostEdit` and `NoCycleTriggered` speak of the stored objects. An identity edited before the
  upgrade lists it is copied, with its new version, into the AzureAssignedIdentity
  (`crd.go` 411): the next cycle sees equal versions, and the edit never gets to Azure.
- Outside the model, where edits by others are deletions: a chain with the two rules in the
  other order counts as complete, since `iptables.go` 100-110 compares them as a set, and
  is not repaired.

## 8. Not modelled

- The lease protocol, and sync cycles of two leaders at once.
- Conversions between the API types and generated code (copies of records), and the
  creation of objects during a type upgrade.
- Names that collide: objects are named by pairs, while `mic.go` 936 joins pod name, namespace
  and identity name by "-"; scale sets have distinct names, while the node map of `mic.go` 1337
  does not tell resource groups apart. The case of client IDs in the immutable list
  (`mic.go` 192, 1351).
- What adal, IMDS, Azure AD and Azure Resource Manager do, beyond their answers.
- Metrics and statistics, on which no decision depends; logging, probes, flags and commands.
