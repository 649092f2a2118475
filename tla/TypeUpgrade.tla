---------------------------- MODULE TypeUpgrade ----------------------------
(***************************************************************************)
(* The start of MIC: a replica becomes the leader, rewrites every CRD      *)
(* object in the case-sensitive format unless a ConfigMap says that this   *)
(* is done (UpgradeTypeIfRequired, UpgradeAll), and starts its sync loop.  *)
(*                                                                         *)
(* Every call to the API server is a step.  Users edit and delete objects  *)
(* between two of them, a replica may die, and a leader that has lost its  *)
(* lease may still run when the next one starts.  A PUT carries the        *)
(* resource version of the list and is refused if the object has changed;  *)
(* one that changes nothing leaves the version alone.  An error ends the   *)
(* process, which starts again.                                            *)
(*                                                                         *)
(* An AzureAssignedIdentity holds copies of its identity and binding.  A   *)
(* sync cycle takes a copy whose resource version is not the current one   *)
(* for out of date, and updates Azure.                                     *)
(***************************************************************************)
EXTENDS Naturals

CONSTANTS
  Replica,              \* the replicas of MIC
  AzureIdentity, AzureIdentityBinding, AzurePodIdentityException, AzureAssignedIdentity,
  RefOf,                \* RefOf[a]: the identity and the binding that a names
  Old,                  \* objects that are in the old format at the start
  EnableTypeUpgrade,
  MaxEdits, MaxFaults,  \* bounds: edits by users; crashes and leases that overlap
  None

\* The resources in the order of UpgradeAll.
Resource == <<AzureIdentity, AzureIdentityBinding, AzurePodIdentityException, AzureAssignedIdentity>>
Referenced == AzureIdentity \cup AzureIdentityBinding
Edited == Referenced \cup AzurePodIdentityException
Object == Edited \cup AzureAssignedIdentity

\* What tells two states of an object apart: its resource version, and which edit of
\* a user made its spec.
Version == [rv : Nat, gen : Nat]
Stored == [rv : Nat, gen : Nat, format : {"old", "new"}]

ASSUME UpgradeAssumption ==
  /\ \A i, j \in 1..4 : i # j => Resource[i] \cap Resource[j] = {}
  /\ RefOf \in [AzureAssignedIdentity -> SUBSET Referenced]
  /\ Old \subseteq Object
  /\ EnableTypeUpgrade \in BOOLEAN
  /\ MaxEdits \in Nat /\ MaxFaults \in Nat
  /\ None \notin Replica \cup Version \cup Stored

VARIABLES
  store,   \* store[o]: version and format of o in the API server, or None if deleted
  ref,     \* ref[a][o]: the version of o that a holds a copy of
  cm,      \* the ConfigMap: "absent", "empty" (without the key) or "recorded"
  lease,   \* the replica that holds the lease, or None
  pc,      \* where each replica is
  stage,   \* the resource that its upgrade is at
  listed,  \* listed[m][o]: the version of o in the list of that resource, or None
  todo,    \* the objects of the list that it has not written yet
  got,     \* got[m][o]: the version of identity or binding o in the answer to its PUT, or None
  edits, faults

replicas == <<pc, stage, listed, todo, got>>
vars == <<store, ref, cm, lease, replicas, edits, faults>>

Nothing(S) == [o \in S |-> None]

TypeOK ==
  /\ store \in [Object -> Stored \cup {None}]
  /\ ref \in [AzureAssignedIdentity -> [Referenced -> Version]]
  /\ cm \in {"absent", "empty", "recorded"}
  /\ lease \in Replica \cup {None}
  /\ pc \in [Replica -> {"standby", "get", "create", "list", "put", "record", "start", "sync"}]
  /\ stage \in [Replica -> 1..4]
  /\ listed \in [Replica -> [Object -> Version \cup {None}]]
  /\ todo \in [Replica -> SUBSET Object]
  /\ got \in [Replica -> [Referenced -> Version \cup {None}]]
  /\ edits \in 0..MaxEdits /\ faults \in 0..MaxFaults

Init ==
  /\ store = [o \in Object |-> [rv |-> 1, gen |-> 1, format |-> IF o \in Old THEN "old" ELSE "new"]]
  /\ ref = [a \in AzureAssignedIdentity |-> [o \in Referenced |-> [rv |-> 1, gen |-> 1]]]
  /\ cm = "absent" /\ lease = None
  /\ pc = [m \in Replica |-> "standby"] /\ stage = [m \in Replica |-> 1]
  /\ listed = [m \in Replica |-> Nothing(Object)] /\ todo = [m \in Replica |-> {}]
  /\ got = [m \in Replica |-> Nothing(Referenced)]
  /\ edits = 0 /\ faults = 0

Exists(o) == store[o] # None
VersionOf(o) == [rv |-> store[o].rv, gen |-> store[o].gen]

\* o after a write that changes it, by a user (edited = 1) or by MIC (0).
Changed(o, edited) ==
  [rv |-> store[o].rv + 1, gen |-> store[o].gen + edited, format |-> store[o].format]

-----------------------------------------------------------------------------
\* External: users, the lease and the kubelet.

Edit(o) ==
  /\ Exists(o) /\ edits < MaxEdits /\ edits' = edits + 1
  /\ \/ store' = [store EXCEPT ![o] = Changed(o, 1)]
     \/ store' = [store EXCEPT ![o] = None]
  /\ UNCHANGED <<ref, cm, lease, replicas, faults>>

Leading(m) == pc[m] # "standby"

\* The process of m ends and starts again.
Exit(m) ==
  /\ pc' = [pc EXCEPT ![m] = "standby"] /\ stage' = [stage EXCEPT ![m] = 1]
  /\ listed' = [listed EXCEPT ![m] = Nothing(Object)] /\ todo' = [todo EXCEPT ![m] = {}]
  /\ got' = [got EXCEPT ![m] = Nothing(Referenced)]

Crash(m) ==
  /\ Leading(m) /\ faults < MaxFaults /\ faults' = faults + 1
  /\ Exit(m)
  /\ UNCHANGED <<store, ref, cm, lease, edits>>

\* OnStartedLeading calls Start.  RenewDeadline is half of LeaseDuration, so the old
\* leader is usually gone; one that was held up (the fault) still runs for a while.
OnStartedLeading(m) ==
  /\ ~Leading(m)
  /\ IF \E n \in Replica : Leading(n)
     THEN faults < MaxFaults /\ faults' = faults + 1
     ELSE UNCHANGED faults
  /\ lease' = m
  /\ pc' = [pc EXCEPT ![m] = IF EnableTypeUpgrade THEN "get" ELSE "start"]
  /\ UNCHANGED <<store, ref, cm, stage, listed, todo, got, edits>>

\* It finds out: os.Exit.
OnStoppedLeading(m) ==
  /\ Leading(m) /\ lease # m
  /\ Exit(m)
  /\ UNCHANGED <<store, ref, cm, lease, edits, faults>>

-----------------------------------------------------------------------------
\* UpgradeTypeIfRequired.

Goto(m, l) == pc' = [pc EXCEPT ![m] = l]

\* Mutant: the ConfigMap is created also when only its key is missing.
GetConfigMapKey(m) ==
  /\ pc[m] = "get"
  /\ Goto(m, IF cm = "recorded" THEN "start" ELSE "create")
  /\ UNCHANGED <<store, ref, cm, lease, stage, listed, todo, got, edits, faults>>

GetConfigMap(m) ==
  /\ pc[m] = "get"
  /\ Goto(m, IF cm = "absent" THEN "create" ELSE IF cm = "empty" THEN "list" ELSE "start")
  /\ UNCHANGED <<store, ref, cm, lease, stage, listed, todo, got, edits, faults>>

CreateConfigMap(m) ==
  /\ pc[m] = "create"
  /\ \/ cm = "absent" /\ cm' = "empty" /\ Goto(m, "list") /\ UNCHANGED <<stage, listed, todo, got>>
     \/ cm # "absent" /\ Exit(m) /\ UNCHANGED cm
  /\ UNCHANGED <<store, ref, lease, edits, faults>>

\* The ConfigMap is written with the version that was read.
UpdateConfigMap(m) ==
  /\ pc[m] = "record"
  /\ \/ cm = "empty" /\ cm' = "recorded" /\ Goto(m, "start") /\ UNCHANGED <<stage, listed, todo, got>>
     \/ cm # "empty" /\ Exit(m) /\ UNCHANGED cm
  /\ UNCHANGED <<store, ref, lease, edits, faults>>

-----------------------------------------------------------------------------
\* UpgradeAll: each resource is listed, and then every object of the list is written.

getObjectList(m) ==
  /\ pc[m] = "list" /\ Goto(m, "put")
  /\ LET there == {o \in Resource[stage[m]] : Exists(o)}
     IN /\ listed' = [listed EXCEPT ![m] = [o \in Object |-> IF o \in there THEN VersionOf(o) ELSE None]]
        /\ todo' = [todo EXCEPT ![m] = there]
  /\ UNCHANGED <<store, ref, cm, lease, stage, got, edits, faults>>

\* Mutant: the PUT carries no resource version.
AnyVersion(m, o) == Exists(o)

\* The API server takes a PUT of what m has listed: the object is there, unchanged.
Unchanged(m, o) == Exists(o) /\ store[o].rv = listed[m][o].rv

\* Mutant: the copies are left as they are.
CopiesKept(m, a) == ref[a]

\* The copies in a, replaced by the objects that the upgrade has written.
Copies(m, a) ==
  [o \in Referenced |-> IF o \in RefOf[a] /\ got[m][o] # None THEN got[m][o] ELSE ref[a][o]]

\* The object after a PUT, whose version moves on if it was in the old format or if
\* the copies that it holds are not what they were.
Written(m, o) ==
  LET same == store[o].format = "new" /\ (o \in AzureAssignedIdentity => Copies(m, o) = ref[o])
  IN [rv |-> store[o].rv + (IF same THEN 0 ELSE 1), gen |-> listed[m][o].gen, format |-> "new"]

Put(m, o) ==
  /\ store' = [store EXCEPT ![o] = Written(m, o)]
  /\ ref' = [a \in AzureAssignedIdentity |-> IF a = o THEN Copies(m, a) ELSE ref[a]]
  /\ got' = [got EXCEPT ![m] = [r \in Referenced |->
                IF r = o THEN [rv |-> Written(m, o).rv, gen |-> Written(m, o).gen] ELSE @[r]]]
  /\ todo' = [todo EXCEPT ![m] = @ \ {o}]
  /\ UNCHANGED <<pc, stage, listed>>

\* Mutant: an object that cannot be written is passed over.
setObjectLenient(m) ==
  /\ pc[m] = "put"
  /\ \E o \in todo[m] : \/ Unchanged(m, o) /\ Put(m, o)
                        \/ /\ ~Unchanged(m, o) /\ todo' = [todo EXCEPT ![m] = @ \ {o}]
                           /\ UNCHANGED <<store, ref, pc, stage, listed, got>>
  /\ UNCHANGED <<cm, lease, edits, faults>>

setObject(m) ==
  /\ pc[m] = "put"
  /\ \E o \in todo[m] : \/ Unchanged(m, o) /\ Put(m, o)
                        \/ ~Unchanged(m, o) /\ Exit(m) /\ UNCHANGED <<store, ref>>
  /\ UNCHANGED <<cm, lease, edits, faults>>

\* Mutant: one resource too many.
NextResourcePast(m) ==
  /\ pc[m] = "put" /\ todo[m] = {}
  /\ IF stage[m] <= 4
     THEN Goto(m, "list") /\ stage' = [stage EXCEPT ![m] = @ + 1]
     ELSE Goto(m, "record") /\ UNCHANGED stage
  /\ UNCHANGED <<store, ref, cm, lease, listed, todo, got, edits, faults>>

\* The list is done: on to the next resource, or to the ConfigMap.
NextResource(m) ==
  /\ pc[m] = "put" /\ todo[m] = {}
  /\ IF stage[m] < 4
     THEN Goto(m, "list") /\ stage' = [stage EXCEPT ![m] = @ + 1]
     ELSE Goto(m, "record") /\ UNCHANGED stage
  /\ UNCHANGED <<store, ref, cm, lease, listed, todo, got, edits, faults>>

-----------------------------------------------------------------------------
\* Start, and what a sync cycle does to an object whose copies are out of date.

\* The informers have synced.
Start(m) ==
  /\ pc[m] = "start" /\ Goto(m, "sync")
  /\ UNCHANGED <<store, ref, cm, lease, stage, listed, todo, got, edits, faults>>

Stale(a) == Exists(a) /\ ~\A o \in RefOf[a] : Exists(o) /\ ref[a][o].rv = store[o].rv

\* The object is updated, or deleted with the identity or binding.
Sync(m, a) ==
  /\ pc[m] = "sync" /\ Stale(a)
  /\ IF \A o \in RefOf[a] : Exists(o)
     THEN /\ ref' = [ref EXCEPT ![a] = [o \in Referenced |-> IF o \in RefOf[a] THEN VersionOf(o) ELSE @[o]]]
          /\ store' = [store EXCEPT ![a] = Changed(a, 0)]
     ELSE store' = [store EXCEPT ![a] = None] /\ UNCHANGED ref
  /\ UNCHANGED <<cm, lease, replicas, edits, faults>>

-----------------------------------------------------------------------------

Step(m) ==
  \/ OnStoppedLeading(m) \/ GetConfigMap(m) \/ CreateConfigMap(m) \/ UpdateConfigMap(m)
  \/ getObjectList(m) \/ setObject(m) \/ NextResource(m) \/ Start(m)

Next ==
  \/ \E o \in Edited : Edit(o)
  \/ \E m \in Replica : \/ OnStartedLeading(m) \/ Crash(m) \/ Step(m)
                        \/ \E a \in AzureAssignedIdentity : Sync(m, a)

Spec == Init /\ [][Next]_vars

\* Somebody becomes the leader when there is none, calls return, and the loop runs.
Fairness ==
  /\ WF_vars(\E m \in Replica : (\A n \in Replica : ~Leading(n)) /\ OnStartedLeading(m))
  /\ \A m \in Replica : WF_vars(Step(m)) /\ WF_vars(\E a \in AzureAssignedIdentity : Sync(m, a))

FairSpec == Spec /\ Fairness

-----------------------------------------------------------------------------
\* The properties.

\* Once the ConfigMap records the upgrade, every object is in the new format, although
\* leaders died or overlapped on the way, and users edited and deleted objects.
UpgradeRecorded == cm = "recorded" => \A o \in Object : Exists(o) => store[o].format = "new"

\* A copy of o that was made of the current spec has the current version.
Current(v, o) == Exists(o) /\ v.gen = store[o].gen => v.rv = store[o].rv

\* "Doing this will ensure upgrade does not trigger any sync cycles" (crd.go): once it
\* is recorded, the copies in an AzureAssignedIdentity are out of date only if a user
\* has edited or deleted what they are copies of.
NoCycleTriggered ==
  cm = "recorded" => \A a \in AzureAssignedIdentity : Exists(a) => \A o \in RefOf[a] : Current(ref[a][o], o)

\* The upgrade takes back no edit and brings back no object that was deleted, also when
\* the object changes between the list and the PUT.
NoLostEdit ==
  [][\A o \in Object : /\ ~Exists(o) => store'[o] = None
                       /\ Exists(o) /\ store'[o] # None => store'[o].gen >= store[o].gen]_vars

\* MIC gets through: in the end a leader runs the sync loop for ever, and every
\* AzureAssignedIdentity refers to the current identity and binding.
EventuallySyncing ==
  <>[]((\E m \in Replica : pc[m] = "sync") /\ \A a \in AzureAssignedIdentity : ~Stale(a))
=============================================================================
