------------------------------ MODULE SyncLoop ------------------------------
(***************************************************************************)
(* How MIC hears of changes: informers fill caches and call handlers, the  *)
(* handlers send events to a bounded channel, and each event that the loop *)
(* in Sync receives starts a cycle, which reads the caches.  Module MIC    *)
(* has the cycle itself; here it is the reads.                             *)
(*                                                                         *)
(* An informer (client-go) lists its objects, then watches; it changes its *)
(* cache before it queues the notification, and its queue has no bound.    *)
(* A handler that sends to a full channel waits, during a cycle or before  *)
(* the loop has started.                                                   *)
(***************************************************************************)
EXTENDS Naturals, Sequences

CONSTANTS
  EventChannelSize,         \* 100 in the code
  InitialObjects,           \* InitialObjects[i]: objects of kind i in the informer's list
  Change,                   \* Change[i]: the changes that occur to objects of kind i
  MaxChanges, MaxAborts     \* bounds: changes of the cluster; cycles that end with an error

Informer == {"pod", "binding", "identity", "assignedID", "node"}
Kind == {"add", "delete", "node", "label", "spec", "other", "resync"}

ASSUME LoopAssumption ==
  /\ EventChannelSize \in Nat \ {0}
  /\ InitialObjects \in [Informer -> Nat]
  /\ Change \in [Informer -> SUBSET Kind]
  /\ MaxChanges \in Nat /\ MaxAborts \in Nat

VARIABLES
  api,      \* api[i]: how often objects of kind i have changed in a way that a cycle reads
  watch,    \* watch[i]: changes that the informer has not received
  synced,   \* the informers that have listed their objects
  cached,   \* cached[i]: the changes that are in the cache
  queue,    \* queue[i]: notifications that the handler has not taken
  channel,  \* the number of events in the channel
  loop,     \* where Start and Sync are
  seen,     \* seen[i]: the changes that a cycle has read
  aborted,  \* the last cycle has ended with an error
  changes, aborts

cluster == <<api, watch, changes>>
informers == <<synced, cached, queue>>
vars == <<cluster, informers, channel, loop, seen, aborted, aborts>>

TypeOK ==
  /\ api \in [Informer -> Nat] /\ cached \in [Informer -> Nat] /\ seen \in [Informer -> Nat]
  /\ watch \in [Informer -> Seq(Kind)]
  /\ queue \in [Informer -> Seq(Kind)]
  /\ synced \subseteq Informer
  /\ channel \in 0..EventChannelSize
  /\ loop \in {"start", "select", "reconcile"} \cup Informer \* i: before the read of kind i
  /\ aborted \in BOOLEAN
  /\ changes \in 0..MaxChanges /\ aborts \in 0..MaxAborts

\* The objects of the list count as one change each.
Init ==
  /\ api = InitialObjects
  /\ watch = [i \in Informer |-> <<>>] /\ synced = {}
  /\ cached = [i \in Informer |-> 0]
  /\ queue = [i \in Informer |-> <<>>]
  /\ channel = 0 /\ loop = "start"
  /\ seen = [i \in Informer |-> 0]
  /\ aborted = FALSE /\ changes = 0 /\ aborts = 0

-----------------------------------------------------------------------------
\* The cluster and the informers.

\* A cycle reads name, node and label of a pod, and all of a binding or identity.  A
\* resync repeats what is there.  What changes before the list is part of the list.
Matters(i, c) == c \in IF i = "pod" THEN {"add", "delete", "node", "label"} ELSE {"add", "delete", "spec"}

Occur(i, c) ==
  /\ i \in synced
  /\ changes < MaxChanges /\ changes' = changes + 1
  /\ watch' = [watch EXCEPT ![i] = Append(@, c)]
  /\ api' = [api EXCEPT ![i] = IF Matters(i, c) THEN @ + 1 ELSE @]
  /\ UNCHANGED <<informers, channel, loop, seen, aborted, aborts>>

\* Run: the list.  HasSynced is true once it is in the cache.
List(i) ==
  /\ i \notin synced /\ synced' = synced \cup {i}
  /\ cached' = [cached EXCEPT ![i] = api[i]]
  /\ queue' = [queue EXCEPT ![i] = [k \in 1..api[i] |-> "add"]]
  /\ UNCHANGED <<cluster, channel, loop, seen, aborted, aborts>>

\* Run: a change from the watch.
Receive(i) ==
  /\ i \in synced /\ watch[i] # <<>>
  /\ watch' = [watch EXCEPT ![i] = Tail(@)]
  /\ cached' = [cached EXCEPT ![i] = IF Matters(i, Head(watch[i])) THEN @ + 1 ELSE @]
  /\ queue' = [queue EXCEPT ![i] = Append(@, Head(watch[i]))]
  /\ UNCHANGED <<api, changes, synced, channel, loop, seen, aborted, aborts>>

-----------------------------------------------------------------------------
\* The handlers.

\* Mutant: a pod that moves to a node is not reported.
SendsLabelOnly(i, c) ==
  \/ i = "pod" /\ c \in {"add", "delete", "label"}
  \/ i \in {"binding", "identity"}

\* Does the handler send an event?  Of a pod that is updated only if node or label
\* change; of bindings and identities always, a resync included; the other informers
\* have no handler.
Sends(i, c) ==
  \/ i = "pod" /\ c \in {"add", "delete", "node", "label"}
  \/ i \in {"binding", "identity"}

\* Mutant: the send does not wait.
HandleUnbounded(i) ==
  /\ queue[i] # <<>>
  /\ channel' = IF Sends(i, Head(queue[i])) THEN channel + 1 ELSE channel
  /\ queue' = [queue EXCEPT ![i] = Tail(@)]
  /\ UNCHANGED <<cluster, synced, cached, loop, seen, aborted, aborts>>

\* Mutant: an event is dropped when the loop is not waiting for it.
HandleWhenIdle(i) ==
  /\ queue[i] # <<>>
  /\ IF Sends(i, Head(queue[i]))
     THEN channel' = IF loop = "select" /\ channel < EventChannelSize THEN channel + 1 ELSE channel
     ELSE UNCHANGED channel
  /\ queue' = [queue EXCEPT ![i] = Tail(@)]
  /\ UNCHANGED <<cluster, synced, cached, loop, seen, aborted, aborts>>

Handle(i) ==
  /\ queue[i] # <<>>
  /\ IF Sends(i, Head(queue[i]))
     THEN channel < EventChannelSize /\ channel' = channel + 1
     ELSE UNCHANGED channel
  /\ queue' = [queue EXCEPT ![i] = Tail(@)]
  /\ UNCHANGED <<cluster, synced, cached, loop, seen, aborted, aborts>>

-----------------------------------------------------------------------------
\* Start and Sync.

\* The Start of each client returns when its caches have synced.
PodClientStarted == "pod" \in synced
CRDClientStarted == {"binding", "identity", "assignedID"} \subseteq synced
NodeClientStarted == "node" \in synced

\* Mutant: Start polls until the handlers have seen the objects of the list.
StartHandled ==
  /\ loop = "start" /\ PodClientStarted /\ CRDClientStarted /\ NodeClientStarted
  /\ loop' = IF \A i \in Informer : queue[i] = <<>> THEN "select" ELSE "start"
  /\ UNCHANGED <<cluster, informers, channel, seen, aborted, aborts>>

\* wg.Wait, and the loop in a goroutine.
Start ==
  /\ loop = "start" /\ PodClientStarted /\ CRDClientStarted /\ NodeClientStarted
  /\ loop' = "select"
  /\ UNCHANGED <<cluster, informers, channel, seen, aborted, aborts>>

Event ==
  /\ loop = "select" /\ channel > 0
  /\ channel' = channel - 1 /\ loop' = "pod"
  /\ UNCHANGED <<cluster, informers, seen, aborted, aborts>>

\* Mutant: the ticks end in the wrong branch of the select.
TickReconcile ==
  /\ loop = "select" /\ loop' = "reconcile"
  /\ UNCHANGED <<cluster, informers, channel, seen, aborted, aborts>>

Tick ==
  /\ loop = "select" /\ loop' = "pod"
  /\ UNCHANGED <<cluster, informers, channel, seen, aborted, aborts>>

\* The other ticker: a reconciliation, and back to the select.
ReconcileTick ==
  /\ loop = "select" /\ loop' = "reconcile"
  /\ UNCHANGED <<cluster, informers, channel, seen, aborted, aborts>>

Reconciled ==
  /\ loop = "reconcile" /\ loop' = "select"
  /\ UNCHANGED <<cluster, informers, channel, seen, aborted, aborts>>

\* The order of the reads.  The nodes are looked up last, during the work.
After(i) ==
  IF i = "pod" THEN "binding" ELSE IF i = "binding" THEN "identity"
  ELSE IF i = "identity" THEN "assignedID" ELSE IF i = "assignedID" THEN "node" ELSE "select"

Read(i) ==
  /\ loop = i
  /\ seen' = [seen EXCEPT ![i] = cached[i]]
  /\ loop' = After(i)
  /\ aborted' = (aborted /\ i # "node")
  /\ UNCHANGED <<cluster, informers, channel, aborts>>

\* A list or a conversion fails: continue.
Abort(i) ==
  /\ loop = i /\ aborts < MaxAborts /\ aborts' = aborts + 1
  /\ loop' = "select" /\ aborted' = TRUE
  /\ UNCHANGED <<cluster, informers, channel, seen>>

-----------------------------------------------------------------------------

Next ==
  \/ \E i \in Informer : \E c \in Change[i] : Occur(i, c)
  \/ \E i \in Informer : List(i) \/ Receive(i) \/ Handle(i) \/ Read(i) \/ Abort(i)
  \/ Start \/ Event \/ Tick \/ ReconcileTick \/ Reconciled

Spec == Init /\ [][Next]_vars

\* Informers and handlers run, a send to the channel gets its turn, and a select takes
\* an event in the end if there is one whenever it runs.  Nothing is said of the
\* tickers.
Fairness ==
  /\ WF_vars(\E i \in Informer : List(i) \/ Receive(i))
  /\ SF_vars(\E i \in Informer : Handle(i))
  /\ WF_vars(Start \/ Reconciled \/ \E i \in Informer : Read(i))
  /\ SF_vars(Event)

FairSpec == Spec /\ Fairness

-----------------------------------------------------------------------------
\* The properties.

\* The informers that have a handler.
Notifying == {"pod", "binding", "identity"}

\* No lost wake-up: while a change is in a cache and no cycle has read it, an event is
\* in the channel or on its way, or the loop is before that read; unless a cycle has
\* failed.
WakeupPending ==
  \A i \in Notifying : cached[i] # seen[i] =>
    \/ channel > 0 \/ aborted
    \/ \E k \in 1..Len(queue[i]) : Sends(i, queue[i][k])
    \/ loop = "pod" \/ loop = i \/ (i = "identity" /\ loop = "binding")

\* MIC gets to its loop, also with more objects than the channel holds events.
EventuallyActive == <>(loop # "start")

\* Every change of a pod, binding or identity is read by a cycle that an event has
\* started: MIC does not need the ticker to hear of it, unless a cycle fails.
EventuallyNoticed == <>[](aborted \/ \A i \in Notifying : seen[i] = api[i])

\* With the ticker MIC hears of everything: of nodes, which have no handler, and of what
\* a failed cycle has missed.
NoticedByTicker == SF_vars(Tick) => <>[](\A i \in Informer : seen[i] = api[i])
=============================================================================
