------------------------ MODULE TypeUpgrade_proofs -------------------------
(***************************************************************************)
(* The type upgrade is recorded only when it is complete, for any number   *)
(* of replicas, objects, edits, crashes and overlapping leaders.           *)
(*                                                                         *)
(* The invariant follows each replica through UpgradeAll: what it has      *)
(* behind it (Done) is in the new format, the versions that it has from    *)
(* its PUTs are those of the objects unless a user has edited them since   *)
(* (Fine), and so are the copies in the objects that it has written.       *)
(***************************************************************************)
EXTENDS TypeUpgrade, TLAPS

\* v is a version of an object with state s, which is in the new format, and only an
\* edit makes v out of date.
Fine(v, s) ==
  s # None => /\ s.format = "new" /\ v.gen <= s.gen
              /\ v.gen = s.gen => v.rv = s.rv

ListedInv ==
  \A m \in Replica, o \in Object :
    listed[m][o] # None /\ store[o] # None =>
      /\ listed[m][o].rv <= store[o].rv
      /\ listed[m][o].rv = store[o].rv => listed[m][o].gen = store[o].gen

GotInv == \A m \in Replica, o \in Referenced : got[m][o] # None => Fine(got[m][o], store[o])

Place ==
  /\ cm # "absent" => EnableTypeUpgrade
  /\ \A m \in Replica :
       /\ pc[m] \in {"standby", "get", "create"} => stage[m] = 1
       /\ pc[m] \in {"get", "create", "list", "put", "record"} => EnableTypeUpgrade
       /\ pc[m] \in {"start", "sync"} /\ EnableTypeUpgrade => cm = "recorded"
       /\ pc[m] = "put" => \A o \in todo[m] : o \in Resource[stage[m]] /\ listed[m][o] # None

\* The upgrade of m has o behind it.
Done(m, o) ==
  \/ pc[m] = "record"
  \/ \E i \in 1..4 : /\ o \in Resource[i]
                     /\ \/ pc[m] \in {"list", "put"} /\ i < stage[m]
                        \/ pc[m] = "put" /\ i = stage[m] /\ o \notin todo[m]

\* What the upgrade makes true of o.
Upgraded(o) ==
  store[o] # None =>
    /\ store[o].format = "new"
    /\ o \in AzureAssignedIdentity => \A r \in RefOf[o] : Fine(ref[o][r], store[r])

Progress ==
  \A m \in Replica, o \in Object :
    Done(m, o) => Upgraded(o) /\ (o \in Referenced /\ store[o] # None => got[m][o] # None)

Recorded == cm = "recorded" => \A o \in Object : Upgraded(o)

IInv == TypeOK /\ ListedInv /\ GotInv /\ Place /\ Progress /\ Recorded

\* What may become of an object with state s: it stays, goes, or moves on to a later
\* version, which for an identity or binding in the new format is an edit.
Evolves(s, t, referenced) ==
  \/ t = s
  \/ t = None
  \/ /\ s # None /\ t \in Stored
     /\ t.rv > s.rv /\ t.gen >= s.gen
     /\ s.format = "new" => t.format = "new"
     /\ referenced /\ s.format = "new" => t.gen > s.gen

-----------------------------------------------------------------------------
\* The resources.

\* Every object belongs to one resource; identities and bindings come before the
\* objects that copy them.
LEMMA Resources ==
  /\ \A i \in 1..4 : Resource[i] \subseteq Object
  /\ \A o \in Object : \E i \in 1..4 : o \in Resource[i]
  /\ \A o \in Referenced : \E i \in 1..2 : o \in Resource[i]
  /\ \A a \in AzureAssignedIdentity, i \in 1..4 : a \in Resource[i] => i = 4
  /\ \A i, j \in 1..4 : i # j => Resource[i] \cap Resource[j] = {}
  /\ Referenced \subseteq Object /\ AzureAssignedIdentity \subseteq Object /\ Edited \subseteq Object
  /\ Referenced \cap AzureAssignedIdentity = {}
<1>1. /\ Resource[1] = AzureIdentity /\ Resource[2] = AzureIdentityBinding
      /\ Resource[3] = AzurePodIdentityException /\ Resource[4] = AzureAssignedIdentity
  BY Zenon DEF Resource
<1>2. \A i, j \in 1..4 : i # j => Resource[i] \cap Resource[j] = {}
  BY Zenon, UpgradeAssumption DEF UpgradeAssumption
<1>3. Referenced \cap AzureAssignedIdentity = {}
  <2>1. Resource[1] \cap Resource[4] = {} /\ Resource[2] \cap Resource[4] = {}
    BY <1>2
  <2>. QED BY Zenon, <2>1, <1>1 DEF Referenced
<1>4. \A i \in 1..4 : Resource[i] \subseteq Object
  BY <1>1 DEF Object, Edited, Referenced
<1>5. \A o \in Object : \E i \in 1..4 : o \in Resource[i]
  BY <1>1 DEF Object, Edited, Referenced
<1>6. \A o \in Referenced : \E i \in 1..2 : o \in Resource[i]
  BY <1>1 DEF Referenced
<1>7. \A a \in AzureAssignedIdentity, i \in 1..4 : a \in Resource[i] => i = 4
  BY <1>1, <1>2
<1>. QED BY Zenon, <1>2, <1>3, <1>4, <1>5, <1>6, <1>7 DEF Object, Edited

\* A version stays fine while its object evolves.
LEMMA FineStable ==
  ASSUME NEW v \in Version, NEW s \in Stored \cup {None}, NEW t,
         Fine(v, s), Evolves(s, t, TRUE)
  PROVE  Fine(v, t)
BY UpgradeAssumption DEF UpgradeAssumption, Fine, Evolves, Version, Stored

\* The version of an object is fine if the object is in the new format.
LEMMA FineFresh ==
  ASSUME NEW s \in Stored, s.format = "new"
  PROVE  /\ [rv |-> s.rv, gen |-> s.gen] \in Version
         /\ Fine([rv |-> s.rv, gen |-> s.gen], s)
BY DEF Fine, Version, Stored

-----------------------------------------------------------------------------
\* What a PUT makes of an object.

\* The copies are versions.
LEMMA CopiesType ==
  ASSUME TypeOK, NEW m \in Replica, NEW a \in AzureAssignedIdentity
  PROVE  Copies(m, a) \in [Referenced -> Version]
BY DEF TypeOK, Copies

\* A PUT that is taken makes an object that is in the new format and is of the spec
\* that is there: it stays as it is, or gets the next resource version.
LEMMA WrittenFacts ==
  ASSUME TypeOK, ListedInv, NEW m \in Replica, NEW o \in Object,
         listed[m][o] # None, Unchanged(m, o)
  PROVE  /\ store[o] \in Stored
         /\ Written(m, o) \in Stored
         /\ Written(m, o).format = "new"
         /\ Written(m, o).gen = store[o].gen
         /\ Written(m, o).rv \in {store[o].rv, store[o].rv + 1}
         /\ o \in Referenced /\ store[o].format = "new" => Written(m, o).rv = store[o].rv
         /\ store[o].format # "new" => Written(m, o).rv = store[o].rv + 1
<1>1. store[o] \in Stored /\ listed[m][o] \in Version
  BY DEF TypeOK, Unchanged, Exists
<1>2. listed[m][o].gen = store[o].gen
  BY Zenon DEF ListedInv, Unchanged, Exists
<1>3. o \in Referenced => o \notin AzureAssignedIdentity
  BY Zenon, Resources
<1>. DEFINE same == store[o].format = "new" /\ (o \in AzureAssignedIdentity => Copies(m, o) = ref[o])
<1>4. Written(m, o) = [rv |-> store[o].rv + (IF same THEN 0 ELSE 1), gen |-> listed[m][o].gen, format |-> "new"]
  BY Zenon DEF Written
<1>5. store[o].rv \in Nat /\ store[o].gen \in Nat
  BY Zenon, <1>1 DEF Stored
<1>6. o \in Referenced /\ store[o].format = "new" => same
  BY Zenon, <1>3
<1>7. store[o].format # "new" => ~same
  BY Zenon
<1>. HIDE DEF same
<1>. QED BY <1>1, <1>2, <1>4, <1>5, <1>6, <1>7 DEF Stored

\* So it evolves.
LEMMA WrittenEvolves ==
  ASSUME TypeOK, ListedInv, NEW m \in Replica, NEW o \in Object,
         listed[m][o] # None, Unchanged(m, o)
  PROVE  Evolves(store[o], Written(m, o), o \in Referenced)
<1>. DEFINE w == Written(m, o)
<1>1. /\ store[o] \in Stored /\ w \in Stored /\ w.format = "new" /\ w.gen = store[o].gen
      /\ w.rv \in {store[o].rv, store[o].rv + 1}
      /\ o \in Referenced /\ store[o].format = "new" => w.rv = store[o].rv
      /\ store[o].format # "new" => w.rv = store[o].rv + 1
  BY Zenon, WrittenFacts
<1>. HIDE DEF w
<1>2. CASE w.rv = store[o].rv
  <2>1. store[o].format = "new"
    BY <1>1, <1>2 DEF Stored
  <2>2. w = store[o]
    BY <1>1, <1>2, <2>1 DEF Stored
  <2>. QED BY Zenon, <2>2 DEF Evolves, w
<1>3. CASE w.rv = store[o].rv + 1
  <2>1. store[o] # None
    BY Zenon, <1>1, UpgradeAssumption DEF UpgradeAssumption
  <2>2. w.rv > store[o].rv /\ w.gen >= store[o].gen /\ ~(o \in Referenced /\ store[o].format = "new")
    BY <1>1, <1>3 DEF Stored
  <2>. QED BY Zenon, <1>1, <2>1, <2>2 DEF Evolves, w
<1>. QED BY Zenon, <1>1, <1>2, <1>3

\* The objects evolve with every step, and no step makes up a state.
LEMMA StoreEvolves ==
  ASSUME IInv, Next
  PROVE  /\ store' \in [Object -> Stored \cup {None}]
         /\ \A o \in Object : Evolves(store[o], store'[o], o \in Referenced)
<1>1. store \in [Object -> Stored \cup {None}]
  BY Zenon DEF IInv, TypeOK
<1>2. UNCHANGED store => /\ store' \in [Object -> Stored \cup {None}]
                         /\ \A o \in Object : Evolves(store[o], store'[o], o \in Referenced)
  BY Zenon, <1>1 DEF Evolves
<1>3. ASSUME NEW p \in Object, NEW s \in Stored \cup {None}, store' = [store EXCEPT ![p] = s],
             Evolves(store[p], s, p \in Referenced)
      PROVE  /\ store' \in [Object -> Stored \cup {None}]
             /\ \A o \in Object : Evolves(store[o], store'[o], o \in Referenced)
  <2>1. \A o \in Object : o # p => store'[o] = store[o]
    BY Zenon, <1>1, <1>3
  <2>2. \A o \in Object : store[o] = store'[o] => Evolves(store[o], store'[o], o \in Referenced)
    BY Zenon DEF Evolves
  <2>. QED BY Zenon, <1>1, <1>3, <2>1, <2>2
<1>4. ASSUME NEW p \in Object, store[p] # None, NEW g \in {0, 1},
             store' = [store EXCEPT ![p] = Changed(p, g)], p \in Referenced => g = 1
      PROVE  /\ store' \in [Object -> Stored \cup {None}]
             /\ \A o \in Object : Evolves(store[o], store'[o], o \in Referenced)
  <2>1. store[p] \in Stored
    BY Zenon, <1>1, <1>4
  <2>2. Changed(p, g) \in Stored
    BY <2>1 DEF Stored, Changed
  <2>3. Evolves(store[p], Changed(p, g), p \in Referenced)
    BY <1>4, <2>1, <2>2 DEF Evolves, Stored, Changed
  <2>. QED BY Zenon, <1>3, <1>4, <2>2, <2>3
<1>6. ASSUME NEW p \in Edited, Edit(p)
      PROVE  /\ store' \in [Object -> Stored \cup {None}]
             /\ \A o \in Object : Evolves(store[o], store'[o], o \in Referenced)
  <2>1. p \in Object /\ store[p] # None
    BY Zenon, <1>6, Resources DEF Edit, Exists
  <2>2. CASE store' = [store EXCEPT ![p] = Changed(p, 1)]
    BY Zenon, <1>4, <2>1, <2>2
  <2>3. CASE store' = [store EXCEPT ![p] = None]
    <3>1. Evolves(store[p], None, p \in Referenced)
      BY Zenon DEF Evolves
    <3>. QED BY Zenon, <1>3, <2>1, <2>3, <3>1
  <2>. QED BY Zenon, <1>6, <2>2, <2>3 DEF Edit
<1>7. ASSUME NEW m \in Replica, setObject(m)
      PROVE  /\ store' \in [Object -> Stored \cup {None}]
             /\ \A o \in Object : Evolves(store[o], store'[o], o \in Referenced)
  <2>1. PICK p \in todo[m] : \/ Unchanged(m, p) /\ Put(m, p)
                             \/ ~Unchanged(m, p) /\ Exit(m) /\ UNCHANGED <<store, ref>>
    BY Zenon, <1>7 DEF setObject
  <2>2. CASE Unchanged(m, p) /\ Put(m, p)
    <3>1. p \in Object /\ listed[m][p] # None
      BY Zenon, <1>7 DEF setObject, IInv, Place, TypeOK
    <3>2. Written(m, p) \in Stored /\ Evolves(store[p], Written(m, p), p \in Referenced)
      BY Zenon, <3>1, <2>2, WrittenFacts, WrittenEvolves DEF IInv
    <3>. QED BY Zenon, <1>3, <2>2, <3>1, <3>2 DEF Put
  <2>. QED BY Zenon, <1>2, <2>1, <2>2
<1>8. ASSUME NEW m \in Replica, NEW a \in AzureAssignedIdentity, Sync(m, a)
      PROVE  /\ store' \in [Object -> Stored \cup {None}]
             /\ \A o \in Object : Evolves(store[o], store'[o], o \in Referenced)
  <2>1. a \in Object /\ a \notin Referenced /\ store[a] # None
    BY Zenon, <1>8, Resources DEF Sync, Stale, Exists
  <2>2. CASE store' = [store EXCEPT ![a] = Changed(a, 0)]
    BY Zenon, <1>4, <2>1, <2>2
  <2>3. CASE store' = [store EXCEPT ![a] = None]
    <3>1. Evolves(store[a], None, a \in Referenced)
      BY Zenon DEF Evolves
    <3>. QED BY Zenon, <1>3, <2>1, <2>3, <3>1
  <2>. QED BY Zenon, <1>8, <2>2, <2>3 DEF Sync
<1>9. ASSUME NEW m \in Replica, OnStartedLeading(m) \/ Crash(m) \/ OnStoppedLeading(m) \/ GetConfigMap(m)
             \/ CreateConfigMap(m) \/ UpdateConfigMap(m) \/ getObjectList(m) \/ NextResource(m) \/ Start(m)
      PROVE  UNCHANGED store
  BY Zenon, <1>9 DEF OnStartedLeading, Crash, OnStoppedLeading, GetConfigMap, CreateConfigMap, UpdateConfigMap,
              getObjectList, NextResource, Start
<1>. QED BY Zenon, <1>2, <1>6, <1>7, <1>8, <1>9 DEF Next, Step

-----------------------------------------------------------------------------
\* How the other variables change.

\* A version read now is a version.
LEMMA VersionOfType ==
  ASSUME TypeOK, NEW o \in Object, store[o] # None
  PROVE  VersionOf(o) \in Version
<1>1. store[o] \in Stored
  BY Zenon DEF TypeOK
<1>. QED BY Zenon, <1>1 DEF VersionOf, Version, Stored

\* A process that ends leaves the replicas well-formed.
LEMMA ExitType ==
  ASSUME TypeOK, NEW m \in Replica, Exit(m)
  PROVE  /\ pc' \in [Replica -> {"standby", "get", "create", "list", "put", "record", "start", "sync"}]
         /\ stage' \in [Replica -> 1..4]
         /\ listed' \in [Replica -> [Object -> Version \cup {None}]]
         /\ todo' \in [Replica -> SUBSET Object]
         /\ got' \in [Replica -> [Referenced -> Version \cup {None}]]
<1>1. pc' \in [Replica -> {"standby", "get", "create", "list", "put", "record", "start", "sync"}]
  BY Zenon DEF TypeOK, Exit
<1>2. stage' \in [Replica -> 1..4]
  BY DEF TypeOK, Exit
<1>3. Nothing(Object) \in [Object -> Version \cup {None}] /\ Nothing(Referenced) \in [Referenced -> Version \cup {None}]
  BY Zenon DEF Nothing
<1>4. listed' \in [Replica -> [Object -> Version \cup {None}]]
  BY Zenon, <1>3 DEF TypeOK, Exit
<1>5. todo' \in [Replica -> SUBSET Object]
  BY Zenon DEF TypeOK, Exit
<1>6. got' \in [Replica -> [Referenced -> Version \cup {None}]]
  BY Zenon, <1>3 DEF TypeOK, Exit
<1>. QED BY Zenon, <1>1, <1>2, <1>4, <1>5, <1>6

\* A PUT that is taken leaves the copies and the replicas well-formed.
LEMMA PutType ==
  ASSUME TypeOK, ListedInv, NEW m \in Replica, NEW p \in Object, listed[m][p] # None,
         Unchanged(m, p), Put(m, p)
  PROVE  /\ ref' \in [AzureAssignedIdentity -> [Referenced -> Version]]
         /\ todo' \in [Replica -> SUBSET Object]
         /\ got' \in [Replica -> [Referenced -> Version \cup {None}]]
<1>1. ref' \in [AzureAssignedIdentity -> [Referenced -> Version]]
  <2>1. \A a \in AzureAssignedIdentity : Copies(m, a) \in [Referenced -> Version]
    BY Zenon, CopiesType
  <2>3. \A a \in AzureAssignedIdentity : ref[a] \in [Referenced -> Version]
    BY Zenon DEF TypeOK
  <2>2. ref' = [a \in AzureAssignedIdentity |-> IF a = p THEN Copies(m, a) ELSE ref[a]]
    BY Zenon DEF Put
  <2>. QED BY Zenon, <2>1, <2>2, <2>3
<1>2. todo' \in [Replica -> SUBSET Object]
  BY Zenon DEF TypeOK, Put
<1>3. got' \in [Replica -> [Referenced -> Version \cup {None}]]
  <2>1. Written(m, p) \in Stored
    BY Zenon, WrittenFacts
  <2>2. [rv |-> Written(m, p).rv, gen |-> Written(m, p).gen] \in Version
    BY Zenon, <2>1 DEF Stored, Version
  <2>. DEFINE g == [r \in Referenced |-> IF r = p THEN [rv |-> Written(m, p).rv, gen |-> Written(m, p).gen] ELSE got[m][r]]
  <2>3. g \in [Referenced -> Version \cup {None}]
    BY Zenon, <2>2 DEF TypeOK
  <2>4. got' = [got EXCEPT ![m] = g]
    BY Zenon DEF Put
  <2>. HIDE DEF g
  <2>. QED BY Zenon, <2>3, <2>4 DEF TypeOK
<1>. QED BY Zenon, <1>1, <1>2, <1>3

\* The state stays well-formed.
LEMMA TypeStep ==
  ASSUME IInv, [Next]_vars
  PROVE  TypeOK'
<1>. USE DEF IInv
<1>1. CASE UNCHANGED vars
  BY Zenon, <1>1 DEF vars, replicas, TypeOK
<1>2. ASSUME NEW o \in Edited, Edit(o) PROVE TypeOK'
  <2>1. store' \in [Object -> Stored \cup {None}]
    BY Zenon, <1>2, StoreEvolves DEF Next
  <2>2. edits' \in 0..MaxEdits
    BY <1>2, UpgradeAssumption DEF Edit, TypeOK, UpgradeAssumption
  <2>. QED BY Zenon, <1>2, <2>1, <2>2 DEF Edit, TypeOK, replicas
<1>3. ASSUME NEW m \in Replica, OnStartedLeading(m) PROVE TypeOK'
  <2>1. pc' \in [Replica -> {"standby", "get", "create", "list", "put", "record", "start", "sync"}]
    BY Zenon, <1>3 DEF OnStartedLeading, TypeOK
  <2>2. faults' \in 0..MaxFaults
    BY <1>3, UpgradeAssumption DEF OnStartedLeading, TypeOK, UpgradeAssumption
  <2>. QED BY Zenon, <1>3, <2>1, <2>2 DEF OnStartedLeading, TypeOK
<1>4. ASSUME NEW m \in Replica, Crash(m) PROVE TypeOK'
  <2>1. faults' \in 0..MaxFaults
    BY <1>4, UpgradeAssumption DEF Crash, TypeOK, UpgradeAssumption
  <2>. QED BY Zenon, <1>4, <2>1, ExitType DEF Crash, TypeOK
<1>5. ASSUME NEW m \in Replica, OnStoppedLeading(m) PROVE TypeOK'
  BY Zenon, <1>5, ExitType DEF OnStoppedLeading, TypeOK
<1>6. ASSUME NEW m \in Replica, GetConfigMap(m) PROVE TypeOK'
  BY Zenon, <1>6 DEF GetConfigMap, Goto, TypeOK
<1>7. ASSUME NEW m \in Replica, CreateConfigMap(m) PROVE TypeOK'
  <2>1. CASE Exit(m) /\ UNCHANGED cm
    BY Zenon, <1>7, <2>1, ExitType DEF CreateConfigMap, TypeOK
  <2>2. CASE cm' = "empty" /\ Goto(m, "list") /\ UNCHANGED <<stage, listed, todo, got>>
    BY Zenon, <1>7, <2>2 DEF CreateConfigMap, Goto, TypeOK
  <2>. QED BY Zenon, <1>7, <2>1, <2>2 DEF CreateConfigMap
<1>8. ASSUME NEW m \in Replica, UpdateConfigMap(m) PROVE TypeOK'
  <2>1. CASE Exit(m) /\ UNCHANGED cm
    BY Zenon, <1>8, <2>1, ExitType DEF UpdateConfigMap, TypeOK
  <2>2. CASE cm' = "recorded" /\ Goto(m, "start") /\ UNCHANGED <<stage, listed, todo, got>>
    BY Zenon, <1>8, <2>2 DEF UpdateConfigMap, Goto, TypeOK
  <2>. QED BY Zenon, <1>8, <2>1, <2>2 DEF UpdateConfigMap
<1>9. ASSUME NEW m \in Replica, getObjectList(m) PROVE TypeOK'
  <2>. DEFINE there == {o \in Resource[stage[m]] : Exists(o)}
              l == [o \in Object |-> IF o \in there THEN VersionOf(o) ELSE None]
  <2>1. there \subseteq Object
    BY Zenon, Resources DEF TypeOK
  <2>2. l \in [Object -> Version \cup {None}]
    BY Zenon, VersionOfType DEF Exists
  <2>3. listed' = [listed EXCEPT ![m] = l] /\ todo' = [todo EXCEPT ![m] = there]
    BY Zenon, <1>9 DEF getObjectList
  <2>. HIDE DEF l, there
  <2>4. listed' \in [Replica -> [Object -> Version \cup {None}]] /\ todo' \in [Replica -> SUBSET Object]
    BY Zenon, <2>1, <2>2, <2>3 DEF TypeOK
  <2>. QED BY Zenon, <1>9, <2>4 DEF getObjectList, Goto, TypeOK
<1>10. ASSUME NEW m \in Replica, setObject(m) PROVE TypeOK'
  <2>1. store' \in [Object -> Stored \cup {None}]
    BY Zenon, <1>10, StoreEvolves DEF Next, Step
  <2>2. PICK p \in todo[m] : \/ Unchanged(m, p) /\ Put(m, p)
                             \/ ~Unchanged(m, p) /\ Exit(m) /\ UNCHANGED <<store, ref>>
    BY Zenon, <1>10 DEF setObject
  <2>3. CASE Unchanged(m, p) /\ Put(m, p)
    <3>1. p \in Object /\ listed[m][p] # None
      BY Zenon, <1>10 DEF setObject, Place, TypeOK
    <3>. QED BY Zenon, <1>10, <2>1, <2>3, <3>1, PutType DEF setObject, Put, TypeOK
  <2>4. CASE Exit(m) /\ UNCHANGED <<store, ref>>
    BY Zenon, <1>10, <2>4, ExitType DEF setObject, TypeOK
  <2>. QED BY Zenon, <2>2, <2>3, <2>4
<1>11. ASSUME NEW m \in Replica, NextResource(m) PROVE TypeOK'
  <2>1. stage' \in [Replica -> 1..4]
    BY <1>11 DEF NextResource, TypeOK
  <2>2. pc' \in [Replica -> {"standby", "get", "create", "list", "put", "record", "start", "sync"}]
    BY Zenon, <1>11 DEF NextResource, Goto, TypeOK
  <2>. QED BY Zenon, <1>11, <2>1, <2>2 DEF NextResource, TypeOK
<1>12. ASSUME NEW m \in Replica, Start(m) PROVE TypeOK'
  BY Zenon, <1>12 DEF Start, Goto, TypeOK
<1>13. ASSUME NEW m \in Replica, NEW a \in AzureAssignedIdentity, Sync(m, a) PROVE TypeOK'
  <2>1. store' \in [Object -> Stored \cup {None}]
    BY Zenon, <1>13, StoreEvolves DEF Next
  <2>2. ref' \in [AzureAssignedIdentity -> [Referenced -> Version]]
    <3>1. CASE UNCHANGED ref
      BY Zenon, <3>1 DEF TypeOK
    <3>2. CASE /\ \A o \in RefOf[a] : Exists(o)
               /\ ref' = [ref EXCEPT ![a] = [o \in Referenced |-> IF o \in RefOf[a] THEN VersionOf(o) ELSE @[o]]]
      <4>. DEFINE c == [o \in Referenced |-> IF o \in RefOf[a] THEN VersionOf(o) ELSE ref[a][o]]
      <4>1. c \in [Referenced -> Version]
        BY <3>2, VersionOfType, Resources DEF TypeOK, Exists
      <4>2. ref' = [ref EXCEPT ![a] = c]
        BY Zenon, <3>2
      <4>. HIDE DEF c
      <4>. QED BY Zenon, <4>1, <4>2 DEF TypeOK
    <3>. QED BY Zenon, <1>13, <3>1, <3>2 DEF Sync
  <2>. QED BY Zenon, <1>13, <2>1, <2>2 DEF Sync, TypeOK, replicas
<1>. QED BY Zenon, <1>1, <1>2, <1>3, <1>4, <1>5, <1>6, <1>7, <1>8, <1>9, <1>10, <1>11, <1>12, <1>13 DEF Next, Step

-----------------------------------------------------------------------------
\* The conjuncts of the invariant.

\* The steps of a replica, by what they do to it.
Ended(m) == Exit(m) /\ UNCHANGED <<store, ref, cm>>
Written1(m, p) == pc[m] = "put" /\ p \in todo[m] /\ Unchanged(m, p) /\ Put(m, p) /\ UNCHANGED cm
Moved(m) ==
  /\ UNCHANGED <<store, ref, listed, todo, got>>
  /\ \/ OnStartedLeading(m) \/ GetConfigMap(m) \/ NextResource(m) \/ Start(m)
     \/ CreateConfigMap(m) /\ cm = "absent"
     \/ UpdateConfigMap(m) /\ cm = "empty"

\* A step is by a user, or by one replica, in one of five ways.
LEMMA Cases ==
  ASSUME Next
  PROVE  \/ \E o \in Edited : Edit(o)
         \/ \E m \in Replica : \/ Ended(m) \/ Moved(m) \/ getObjectList(m)
                               \/ \E p \in todo[m] : Written1(m, p)
                               \/ \E a \in AzureAssignedIdentity : Sync(m, a)
<1>1. ASSUME NEW m \in Replica, Crash(m) \/ OnStoppedLeading(m) PROVE Ended(m)
  BY Zenon, <1>1 DEF Crash, OnStoppedLeading, Ended
<1>2. ASSUME NEW m \in Replica, OnStartedLeading(m) \/ GetConfigMap(m) \/ NextResource(m) \/ Start(m) PROVE Moved(m)
  <2>1. UNCHANGED <<store, ref, listed, todo, got>>
    BY Zenon, <1>2 DEF OnStartedLeading, GetConfigMap, NextResource, Start
  <2>. QED BY Zenon, <1>2, <2>1 DEF Moved
<1>3. ASSUME NEW m \in Replica, CreateConfigMap(m) PROVE Ended(m) \/ Moved(m)
  <2>1. CASE cm = "absent"
    BY Zenon, <1>3, <2>1 DEF CreateConfigMap, Moved
  <2>2. CASE cm # "absent"
    BY Zenon, <1>3, <2>2 DEF CreateConfigMap, Ended
  <2>. QED BY Zenon, <2>1, <2>2
<1>4. ASSUME NEW m \in Replica, UpdateConfigMap(m) PROVE Ended(m) \/ Moved(m)
  <2>1. CASE cm = "empty"
    BY Zenon, <1>4, <2>1 DEF UpdateConfigMap, Moved
  <2>2. CASE cm # "empty"
    BY Zenon, <1>4, <2>2 DEF UpdateConfigMap, Ended
  <2>. QED BY Zenon, <2>1, <2>2
<1>5. ASSUME NEW m \in Replica, setObject(m) PROVE Ended(m) \/ \E p \in todo[m] : Written1(m, p)
  BY Zenon, <1>5 DEF setObject, Ended, Written1
<1>. QED BY Zenon, <1>1, <1>2, <1>3, <1>4, <1>5 DEF Next, Step

\* A PUT is of an object of the resource at hand, as it was listed.
LEMMA WrittenWhere ==
  ASSUME IInv, NEW m \in Replica, NEW p \in todo[m], pc[m] = "put"
  PROVE  p \in Object /\ p \in Resource[stage[m]] /\ listed[m][p] # None
BY Zenon DEF IInv, TypeOK, Place

\* The lists of a replica are of earlier versions.
LEMMA ListedStep ==
  ASSUME IInv, Next
  PROVE  ListedInv'
<1>1. SUFFICES ASSUME NEW n \in Replica, NEW o \in Object, listed'[n][o] # None, store'[o] # None
               PROVE  /\ listed'[n][o].rv <= store'[o].rv
                      /\ listed'[n][o].rv = store'[o].rv => listed'[n][o].gen = store'[o].gen
  BY Zenon DEF ListedInv
<1>2. Evolves(store[o], store'[o], o \in Referenced) /\ store[o] \in Stored \cup {None}
  BY Zenon, StoreEvolves DEF IInv, TypeOK
<1>3. CASE listed'[n][o] = listed[n][o]
  <2>1. listed[n][o] \in Version
    BY <1>1, <1>3 DEF IInv, TypeOK
  <2>2. store[o] # None
    BY Zenon, <1>1, <1>2 DEF Evolves
  <2>3. /\ listed[n][o].rv <= store[o].rv
        /\ listed[n][o].rv = store[o].rv => listed[n][o].gen = store[o].gen
    BY Zenon, <1>1, <1>3, <2>2 DEF IInv, ListedInv
  <2>. QED BY <1>1, <1>2, <1>3, <2>1, <2>2, <2>3 DEF Evolves, Stored, Version
<1>4. ASSUME NEW m \in Replica, Ended(m) PROVE listed'[n][o] = listed[n][o] \/ listed'[n][o] = None
  BY Zenon, <1>4 DEF Ended, Exit, Nothing, IInv, TypeOK
<1>5. ASSUME NEW m \in Replica, getObjectList(m)
      PROVE  \/ listed'[n][o] = listed[n][o]
             \/ listed'[n][o] = None
             \/ listed'[n][o] = VersionOf(o) /\ store' = store /\ store[o] \in Stored
  BY Zenon, <1>5, <1>1, <1>2 DEF getObjectList, IInv, TypeOK
<1>6. CASE listed'[n][o] = VersionOf(o) /\ store' = store /\ store[o] \in Stored
  BY <1>6 DEF VersionOf, Stored
<1>7. CASE \E p \in Edited : Edit(p)
  BY Zenon, <1>3, <1>7 DEF Edit, replicas
<1>8. CASE \E m \in Replica : Moved(m) \/ (\E p \in todo[m] : Written1(m, p)) \/ \E a \in AzureAssignedIdentity : Sync(m, a)
  BY Zenon, <1>3, <1>8 DEF Moved, Written1, Put, Sync, replicas
<1>. QED BY Zenon, <1>1, <1>3, <1>4, <1>5, <1>6, <1>7, <1>8, Cases

\* What the PUTs of a replica have returned is fine.
LEMMA GotStep ==
  ASSUME IInv, Next
  PROVE  GotInv'
<1>1. SUFFICES ASSUME NEW n \in Replica, NEW o \in Referenced, got'[n][o] # None
               PROVE  Fine(got'[n][o], store'[o])
  BY Zenon DEF GotInv
<1>2. /\ o \in Object /\ store[o] \in Stored \cup {None}
      /\ Evolves(store[o], store'[o], TRUE)
  <2>1. o \in Object
    BY Zenon, Resources
  <2>2. Evolves(store[o], store'[o], o \in Referenced)
    BY Zenon, <2>1, StoreEvolves
  <2>3. store[o] \in Stored \cup {None}
    BY Zenon, <2>1 DEF IInv, TypeOK
  <2>. QED BY Zenon, <2>1, <2>2, <2>3 DEF Evolves
<1>3. CASE got'[n][o] = got[n][o]
  <2>1. got[n][o] \in Version /\ Fine(got[n][o], store[o])
    BY <1>1, <1>3 DEF IInv, TypeOK, GotInv
  <2>. QED BY Zenon, <1>2, <1>3, <2>1, FineStable
<1>4. ASSUME NEW m \in Replica, Ended(m) PROVE got'[n][o] = got[n][o] \/ got'[n][o] = None
  BY Zenon, <1>4 DEF Ended, Exit, Nothing, IInv, TypeOK
<1>5. ASSUME NEW m \in Replica, NEW p \in todo[m], Written1(m, p)
      PROVE  Fine(got'[n][o], store'[o])
  <2>1. CASE n = m /\ o = p
    <3>1. /\ Written(m, p) \in Stored /\ Written(m, p).format = "new"
          /\ store'[p] = Written(m, p)
      <4>1. p \in Object /\ listed[m][p] # None
        BY Zenon, <1>5, WrittenWhere DEF Written1
      <4>2. Written(m, p) \in Stored /\ Written(m, p).format = "new"
        BY Zenon, <1>5, <4>1, WrittenFacts DEF Written1, IInv
      <4>. QED BY Zenon, <1>5, <4>1, <4>2 DEF Written1, Put, IInv, TypeOK
    <3>2. got'[m][p] = [rv |-> Written(m, p).rv, gen |-> Written(m, p).gen]
      BY Zenon, <1>5, <2>1 DEF Written1, Put, IInv, TypeOK
    <3>. QED BY Zenon, <2>1, <3>1, <3>2, FineFresh
  <2>2. CASE ~(n = m /\ o = p)
    <3>1. got'[n][o] = got[n][o]
      BY Zenon, <1>5, <2>2 DEF Written1, Put, IInv, TypeOK
    <3>. QED BY Zenon, <3>1, <1>3
  <2>. QED BY Zenon, <2>1, <2>2
<1>6. CASE \E p \in Edited : Edit(p)
  BY Zenon, <1>3, <1>6 DEF Edit, replicas
<1>7. CASE \E m \in Replica : Moved(m) \/ getObjectList(m) \/ \E a \in AzureAssignedIdentity : Sync(m, a)
  BY Zenon, <1>3, <1>7 DEF Moved, getObjectList, Sync, replicas
<1>. QED BY Zenon, <1>1, <1>3, <1>4, <1>5, <1>6, <1>7, Cases

\* The copies change by a PUT of the upgrade or by a sync cycle.
LEMMA RefStep ==
  ASSUME IInv, Next, NEW a \in AzureAssignedIdentity
  PROVE  \/ ref'[a] = ref[a]
         \/ \E m \in Replica : ref'[a] = Copies(m, a)
         \/ \E m \in Replica :
              /\ pc[m] = "sync" /\ store' = [store EXCEPT ![a] = Changed(a, 0)]
              /\ \A r \in RefOf[a] : r \in Referenced /\ store[r] # None /\ ref'[a][r] = VersionOf(r)
<1>0. ref \in [AzureAssignedIdentity -> [Referenced -> Version]] /\ RefOf[a] \subseteq Referenced
  BY Zenon, UpgradeAssumption DEF IInv, TypeOK, UpgradeAssumption
<1>1. ASSUME NEW m \in Replica, NEW p \in todo[m], Written1(m, p)
      PROVE  ref'[a] = ref[a] \/ ref'[a] = Copies(m, a)
  BY Zenon, <1>1 DEF Written1, Put
<1>2. ASSUME NEW m \in Replica, NEW b \in AzureAssignedIdentity, Sync(m, b), ref'[a] # ref[a]
      PROVE  /\ pc[m] = "sync" /\ store' = [store EXCEPT ![a] = Changed(a, 0)]
             /\ \A r \in RefOf[a] : r \in Referenced /\ store[r] # None /\ ref'[a][r] = VersionOf(r)
  <2>1. /\ pc[m] = "sync" /\ \A o \in RefOf[b] : Exists(o)
        /\ ref' = [ref EXCEPT ![b] = [o \in Referenced |-> IF o \in RefOf[b] THEN VersionOf(o) ELSE ref[b][o]]]
        /\ store' = [store EXCEPT ![b] = Changed(b, 0)]
    BY Zenon, <1>2 DEF Sync
  <2>2. a = b
    BY Zenon, <1>0, <1>2, <2>1
  <2>. QED BY Zenon, <1>0, <2>1, <2>2 DEF Exists
<1>3. CASE \E p \in Edited : Edit(p)
  BY Zenon, <1>3 DEF Edit
<1>4. CASE \E m \in Replica : Moved(m) \/ getObjectList(m) \/ Ended(m)
  BY Zenon, <1>4 DEF Moved, getObjectList, Ended
<1>. QED BY Zenon, <1>1, <1>2, <1>3, <1>4, Cases

\* What is upgraded stays so: a sync cycle runs only once everything is.
LEMMA UpgradedStable ==
  ASSUME IInv, Next, EnableTypeUpgrade, NEW o \in Object, Upgraded(o)
  PROVE  Upgraded(o)'
<1>1. SUFFICES ASSUME store'[o] # None
               PROVE  /\ store'[o].format = "new"
                      /\ o \in AzureAssignedIdentity => \A r \in RefOf[o] : Fine(ref'[o][r], store'[r])
  BY Zenon DEF Upgraded
<1>2. /\ store \in [Object -> Stored \cup {None}]
      /\ \A r \in Object : Evolves(store[r], store'[r], r \in Referenced)
  BY Zenon, StoreEvolves DEF IInv, TypeOK
<1>3. store[o] # None /\ store[o].format = "new"
  BY Zenon, <1>1, <1>2 DEF Evolves, Upgraded
<1>4. store'[o].format = "new"
  BY Zenon, <1>1, <1>2, <1>3 DEF Evolves
<1>5. ASSUME o \in AzureAssignedIdentity, NEW r \in RefOf[o] PROVE Fine(ref'[o][r], store'[r])
  <2>1. r \in Referenced /\ r \in Object
    BY Zenon, <1>5, UpgradeAssumption, Resources DEF UpgradeAssumption
  <2>2. /\ store[r] \in Stored \cup {None}
        /\ Evolves(store[r], store'[r], TRUE)
    BY Zenon, <1>2, <2>1 DEF Evolves
  <2>3. ref[o][r] \in Version /\ Fine(ref[o][r], store[r])
    BY Zenon, <1>3, <1>5, <2>1 DEF Upgraded, IInv, TypeOK
  <2>4. CASE ref'[o] = ref[o]
    BY Zenon, <2>2, <2>3, <2>4, FineStable
  <2>5. ASSUME NEW m \in Replica, ref'[o] = Copies(m, o) PROVE Fine(ref'[o][r], store'[r])
    <3>1. CASE got[m][r] # None
      <4>1. got[m][r] \in Version /\ Fine(got[m][r], store[r])
        BY <2>1, <3>1 DEF IInv, TypeOK, GotInv
      <4>2. ref'[o][r] = got[m][r]
        BY Zenon, <2>1, <2>5, <3>1, <1>5 DEF Copies
      <4>. QED BY Zenon, <2>2, <4>1, <4>2, FineStable
    <3>2. CASE got[m][r] = None
      <4>1. ref'[o][r] = ref[o][r]
        BY Zenon, <2>1, <2>5, <3>2, <1>5 DEF Copies
      <4>. QED BY Zenon, <2>2, <2>3, <4>1, FineStable
    <3>. QED BY Zenon, <3>1, <3>2
  <2>6. ASSUME NEW m \in Replica, pc[m] = "sync", store' = [store EXCEPT ![o] = Changed(o, 0)],
               store[r] # None, ref'[o][r] = VersionOf(r)
        PROVE  Fine(ref'[o][r], store'[r])
    <3>1. cm = "recorded"
      BY Zenon, <2>6 DEF IInv, Place
    <3>2. store[r].format = "new" /\ store[r] \in Stored
      BY Zenon, <2>1, <2>2, <2>6, <3>1 DEF IInv, Recorded, Upgraded
    <3>3. Fine(VersionOf(r), store[r])
      BY Zenon, <3>2, FineFresh DEF VersionOf
    <3>4. store'[r] = store[r]
      BY <1>2, <1>5, <2>1, <2>6, Resources
    <3>. QED BY Zenon, <2>6, <3>3, <3>4
  <2>. QED BY Zenon, <1>5, <2>4, <2>5, <2>6, RefStep
<1>. QED BY Zenon, <1>4, <1>5

\* A replica is where the ConfigMap lets it be.
LEMMA PlaceStep ==
  ASSUME IInv, Next
  PROVE  Place'
<1>. DEFINE P(n) ==
       /\ pc[n] \in {"standby", "get", "create"} => stage[n] = 1
       /\ pc[n] \in {"get", "create", "list", "put", "record"} => EnableTypeUpgrade
       /\ pc[n] \in {"start", "sync"} /\ EnableTypeUpgrade => cm = "recorded"
       /\ pc[n] = "put" => \A o \in todo[n] : o \in Resource[stage[n]] /\ listed[n][o] # None
<1>1. /\ pc \in [Replica -> {"standby", "get", "create", "list", "put", "record", "start", "sync"}]
      /\ stage \in [Replica -> 1..4] /\ todo \in [Replica -> SUBSET Object]
      /\ listed \in [Replica -> [Object -> Version \cup {None}]]
      /\ cm \in {"absent", "empty", "recorded"}
  BY Zenon DEF IInv, TypeOK
<1>2. (cm # "absent" => EnableTypeUpgrade) /\ \A n \in Replica : P(n)
  BY Zenon DEF IInv, Place
<1>3. ASSUME UNCHANGED <<pc, stage, todo, listed, cm>> PROVE Place'
  BY Zenon, <1>2, <1>3 DEF Place
<1>4. ASSUME NEW m \in Replica, Ended(m) PROVE Place'
  BY Zenon, <1>1, <1>2, <1>4 DEF Ended, Exit, Place
<1>5. ASSUME NEW m \in Replica, getObjectList(m) PROVE Place'
  <2>1. \A n \in Replica : n # m => P(n)'
    BY Zenon, <1>1, <1>2, <1>5 DEF getObjectList, Goto
  <2>2. \A o \in todo'[m] : o \in Resource[stage[m]] /\ store[o] # None /\ o \in Object
    BY <1>1, <1>5, Resources DEF getObjectList, Exists
  <2>3. \A o \in todo'[m] : listed'[m][o] = VersionOf(o)
    BY Zenon, <1>1, <1>5, <2>2 DEF getObjectList, Exists
  <2>4. \A o \in todo'[m] : VersionOf(o) # None
    <3>1. \A o \in todo'[m] : VersionOf(o) \in Version
      BY Zenon, <2>2, VersionOfType DEF IInv
    <3>. QED BY Zenon, <3>1, UpgradeAssumption DEF UpgradeAssumption
  <2>5. P(m)'
    BY Zenon, <1>1, <1>2, <1>5, <2>2, <2>3, <2>4 DEF getObjectList, Goto
  <2>. QED BY Zenon, <1>2, <1>5, <2>1, <2>5 DEF Place, getObjectList
<1>6. ASSUME NEW m \in Replica, NEW p \in todo[m], Written1(m, p) PROVE Place'
  <2>1. UNCHANGED <<pc, stage, listed, cm>> /\ \A n \in Replica : todo'[n] \subseteq todo[n]
    BY Zenon, <1>1, <1>6 DEF Written1, Put
  <2>. QED BY Zenon, <1>2, <2>1 DEF Place
<1>7. ASSUME NEW m \in Replica, Moved(m) PROVE Place'
  <2>1. CASE OnStartedLeading(m)
    BY Zenon, <1>1, <1>2, <2>1, UpgradeAssumption DEF OnStartedLeading, Leading, Place, UpgradeAssumption
  <2>2. CASE GetConfigMap(m)
    BY Zenon, <1>1, <1>2, <2>2 DEF GetConfigMap, Goto, Place
  <2>3. CASE NextResource(m)
    BY <1>1, <1>2, <2>3 DEF NextResource, Goto, Place
  <2>4. CASE Start(m)
    BY Zenon, <1>1, <1>2, <2>4 DEF Start, Goto, Place
  <2>5. CASE CreateConfigMap(m) /\ cm = "absent"
    BY <1>1, <1>2, <2>5 DEF CreateConfigMap, Goto, Place
  <2>6. CASE UpdateConfigMap(m) /\ cm = "empty"
    BY <1>1, <1>2, <2>6 DEF UpdateConfigMap, Goto, Place
  <2>. QED BY Zenon, <1>7, <2>1, <2>2, <2>3, <2>4, <2>5, <2>6 DEF Moved
<1>8. CASE \E p \in Edited : Edit(p)
  BY Zenon, <1>3, <1>8 DEF Edit, replicas
<1>9. CASE \E m \in Replica, a \in AzureAssignedIdentity : Sync(m, a)
  BY Zenon, <1>3, <1>9 DEF Sync, replicas
<1>. QED BY Zenon, <1>4, <1>5, <1>6, <1>7, <1>8, <1>9, Cases

\* What is behind a replica after a step was behind it before, or has been written or
\* found missing by the step.
LEMMA DoneStep ==
  ASSUME IInv, Next, NEW n \in Replica, NEW o \in Object, Done(n, o)'
  PROVE  \/ Done(n, o) /\ (o \in Referenced /\ got[n][o] # None => got'[n][o] # None)
         \/ store'[o] = None
         \/ \E p \in todo[n] : Written1(n, p) /\ p = o
<1>1. /\ pc \in [Replica -> {"standby", "get", "create", "list", "put", "record", "start", "sync"}]
      /\ stage \in [Replica -> 1..4] /\ todo \in [Replica -> SUBSET Object]
      /\ store \in [Object -> Stored \cup {None}]
      /\ got \in [Replica -> [Referenced -> Version \cup {None}]]
  BY Zenon DEF IInv, TypeOK
<1>2. pc[n] \in {"standby", "get", "create"} => stage[n] = 1
  BY Zenon DEF IInv, Place
<1>3. ASSUME pc'[n] = pc[n], stage'[n] = stage[n], todo'[n] = todo[n], got'[n] = got[n] PROVE Done(n, o) /\ got'[n][o] = got[n][o]
  BY Zenon, <1>3 DEF Done
<1>4. ASSUME NEW m \in Replica, Ended(m) PROVE Done(n, o) /\ got'[n][o] = got[n][o]
  <2>1. n # m
    BY Zenon, <1>1, <1>4 DEF Ended, Exit, Done
  <2>. QED BY Zenon, <1>1, <1>3, <1>4, <2>1 DEF Ended, Exit
<1>5. ASSUME NEW m \in Replica, Moved(m) PROVE Done(n, o) /\ got'[n][o] = got[n][o]
  <2>1. UNCHANGED <<store, todo, got>>
    BY Zenon, <1>5 DEF Moved
  <2>2. CASE OnStartedLeading(m)
    BY Zenon, <1>1, <1>3, <2>1, <2>2 DEF OnStartedLeading, Done
  <2>3. CASE GetConfigMap(m)
    BY <1>1, <1>2, <1>3, <2>1, <2>3 DEF GetConfigMap, Goto, Done
  <2>4. CASE NextResource(m)
    <3>1. CASE n # m
      BY Zenon, <1>1, <1>3, <2>1, <2>4, <3>1 DEF NextResource, Goto
    <3>2. CASE n = m /\ stage[m] < 4
      BY <1>1, <2>1, <2>4, <3>2 DEF NextResource, Goto, Done
    <3>3. CASE n = m /\ stage[m] = 4
      <4>1. PICK i \in 1..4 : o \in Resource[i]
        BY Zenon, Resources
      <4>. QED BY <1>1, <2>1, <2>4, <3>3, <4>1 DEF NextResource, Done
    <3>. QED BY <1>1, <3>1, <3>2, <3>3
  <2>5. CASE Start(m)
    BY Zenon, <1>1, <1>3, <2>1, <2>5 DEF Start, Goto, Done
  <2>6. CASE CreateConfigMap(m) /\ cm = "absent"
    BY <1>1, <1>2, <1>3, <2>1, <2>6 DEF CreateConfigMap, Goto, Done
  <2>7. CASE UpdateConfigMap(m) /\ cm = "empty"
    BY Zenon, <1>1, <1>3, <2>1, <2>7 DEF UpdateConfigMap, Goto, Done
  <2>. QED BY Zenon, <1>5, <2>2, <2>3, <2>4, <2>5, <2>6, <2>7 DEF Moved
<1>6. ASSUME NEW m \in Replica, getObjectList(m) PROVE (Done(n, o) /\ got'[n][o] = got[n][o]) \/ store'[o] = None
  <2>1. CASE n # m
    BY Zenon, <1>1, <1>3, <1>6, <2>1 DEF getObjectList, Goto
  <2>2. CASE n = m /\ o \in Resource[stage[m]] /\ store[o] # None
    <3>1. o \in todo'[m]
      BY Zenon, <1>1, <1>6, <2>2 DEF getObjectList, Exists
    <3>. QED BY Zenon, <1>1, <1>6, <2>2, <3>1 DEF getObjectList, Goto, Done
  <2>3. CASE n = m /\ o \notin Resource[stage[m]]
    BY Zenon, <1>1, <1>6, <2>3 DEF getObjectList, Goto, Done
  <2>4. CASE store[o] = None
    BY Zenon, <1>6, <2>4 DEF getObjectList
  <2>. QED BY Zenon, <2>1, <2>2, <2>3, <2>4
<1>7. ASSUME NEW m \in Replica, NEW p \in todo[m], Written1(m, p), ~(n = m /\ o = p)
      PROVE  Done(n, o) /\ (o \in Referenced => got'[n][o] = got[n][o])
  <2>1. pc' = pc /\ stage' = stage /\ (o \notin todo'[n] => o \notin todo[n])
    BY Zenon, <1>1, <1>7 DEF Written1, Put
  <2>2. o \in Referenced => got'[n][o] = got[n][o]
    BY Zenon, <1>1, <1>7 DEF Written1, Put
  <2>. QED BY Zenon, <2>1, <2>2 DEF Done
<1>8. CASE \E p \in Edited : Edit(p)
  BY Zenon, <1>3, <1>8 DEF Edit, replicas
<1>9. CASE \E m \in Replica, a \in AzureAssignedIdentity : Sync(m, a)
  BY Zenon, <1>3, <1>9 DEF Sync, replicas
<1>. QED BY Zenon, <1>4, <1>5, <1>6, <1>7, <1>8, <1>9, Cases

\* What is behind a replica is upgraded.
LEMMA ProgressStep ==
  ASSUME IInv, Next
  PROVE  Progress'
<1>1. SUFFICES ASSUME NEW n \in Replica, NEW o \in Object, Done(n, o)', store'[o] # None
               PROVE  Upgraded(o)' /\ (o \in Referenced => got'[n][o] # None)
  BY Zenon DEF Progress, Upgraded
<1>2. store[o] # None
  BY Zenon, <1>1, StoreEvolves DEF Evolves
<1>3. CASE Done(n, o) /\ (o \in Referenced /\ got[n][o] # None => got'[n][o] # None)
  <2>1. EnableTypeUpgrade
    BY Zenon, <1>3 DEF Done, IInv, Place
  <2>2. Upgraded(o) /\ (o \in Referenced => got[n][o] # None)
    BY Zenon, <1>2, <1>3 DEF IInv, Progress
  <2>. QED BY Zenon, <1>3, <2>1, <2>2, UpgradedStable
<1>4. ASSUME NEW p \in todo[n], Written1(n, p), p = o
      PROVE  Upgraded(o)' /\ (o \in Referenced => got'[n][o] # None)
  <2>1. /\ pc[n] = "put" /\ Unchanged(n, o) /\ Put(n, o)
        /\ o \in Resource[stage[n]] /\ listed[n][o] # None
    BY Zenon, <1>4, WrittenWhere DEF Written1
  <2>2. Written(n, o) \in Stored /\ Written(n, o).format = "new"
    BY Zenon, <2>1, WrittenFacts DEF IInv
  <2>3. store' = [store EXCEPT ![o] = Written(n, o)] /\ store \in [Object -> Stored \cup {None}]
    BY Zenon, <2>1 DEF Put, IInv, TypeOK
  <2>4. o \in Referenced => got'[n][o] # None
    <3>1. o \in Referenced => got'[n][o] = [rv |-> Written(n, o).rv, gen |-> Written(n, o).gen]
      BY Zenon, <2>1 DEF Put, IInv, TypeOK
    <3>. QED BY Zenon, <2>2, <3>1, FineFresh, UpgradeAssumption DEF UpgradeAssumption
  <2>5. ASSUME o \in AzureAssignedIdentity, NEW r \in RefOf[o] PROVE Fine(ref'[o][r], store'[r])
    <3>1. r \in Referenced /\ r \in Object /\ r # o
      BY <2>5, UpgradeAssumption, Resources DEF UpgradeAssumption
    <3>2. stage[n] = 4
      BY Zenon, <2>1, <2>5, Resources DEF IInv, TypeOK
    <3>3. Done(n, r)
      <4>1. PICK i \in 1..2 : r \in Resource[i]
        BY Zenon, <3>1, Resources
      <4>. QED BY <2>1, <3>2, <4>1 DEF Done
    <3>4. store'[r] = store[r]
      BY Zenon, <2>3, <3>1
    <3>5. CASE store[r] # None
      <4>1. got[n][r] # None
        BY Zenon, <3>1, <3>3, <3>5 DEF IInv, Progress
      <4>2. Fine(got[n][r], store[r])
        BY Zenon, <3>1, <4>1 DEF IInv, GotInv
      <4>3. ref'[o][r] = got[n][r]
        BY Zenon, <2>1, <2>5, <3>1, <4>1 DEF Put, Copies
      <4>. QED BY Zenon, <3>4, <4>2, <4>3
    <3>. QED BY Zenon, <3>4, <3>5 DEF Fine
  <2>6. store'[o].format = "new"
    BY Zenon, <2>2, <2>3
  <2>. QED BY Zenon, <2>4, <2>5, <2>6 DEF Upgraded
<1>. QED BY Zenon, <1>1, <1>3, <1>4, DoneStep

\* The ConfigMap records a complete upgrade.
LEMMA RecordedStep ==
  ASSUME IInv, Next
  PROVE  Recorded'
<1>1. SUFFICES ASSUME cm' = "recorded", NEW o \in Object
               PROVE  Upgraded(o)'
  BY Zenon DEF Recorded
<1>2. CASE cm = "recorded"
  BY Zenon, <1>2, UpgradedStable DEF IInv, Recorded, Place
<1>3. ASSUME NEW m \in Replica, pc[m] = "record" PROVE Upgraded(o)'
  <2>1. EnableTypeUpgrade
    BY Zenon, <1>3 DEF IInv, Place
  <2>2. Upgraded(o)
    BY Zenon, <1>3 DEF IInv, Progress, Done
  <2>. QED BY Zenon, <2>1, <2>2, UpgradedStable
<1>4. cm # "recorded" => \E m \in Replica : pc[m] = "record"
  <2>1. ASSUME NEW m \in Replica, Moved(m), cm # "recorded" PROVE pc[m] = "record"
    BY Zenon, <1>1, <2>1 DEF Moved, OnStartedLeading, GetConfigMap, NextResource, Start, CreateConfigMap, UpdateConfigMap
  <2>2. ASSUME NEW m \in Replica, Ended(m) \/ getObjectList(m) \/ (\E p \in todo[m] : Written1(m, p))
                                   \/ \E a \in AzureAssignedIdentity : Sync(m, a)
        PROVE  cm' = cm
    BY Zenon, <2>2 DEF Ended, getObjectList, Written1, Sync
  <2>3. CASE \E p \in Edited : Edit(p)
    BY Zenon, <1>1, <2>3 DEF Edit
  <2>. QED BY Zenon, <1>1, <2>1, <2>2, <2>3, Cases
<1>. QED BY Zenon, <1>2, <1>3, <1>4

-----------------------------------------------------------------------------
\* The theorems.

\* The initial states satisfy the invariant.
LEMMA InitIInv == Init => IInv
<1>. SUFFICES ASSUME Init PROVE IInv
  BY Zenon
<1>1. TypeOK
  <2>1. store \in [Object -> Stored \cup {None}]
    BY Zenon DEF Init, Stored
  <2>2. ref \in [AzureAssignedIdentity -> [Referenced -> Version]]
    BY Zenon DEF Init, Version
  <2>3. edits \in 0..MaxEdits /\ faults \in 0..MaxFaults
    BY UpgradeAssumption DEF Init, UpgradeAssumption
  <2>. QED BY <2>1, <2>2, <2>3 DEF Init, TypeOK, Nothing
<1>2. ListedInv /\ GotInv
  BY Zenon, Resources DEF Init, ListedInv, GotInv, Nothing
<1>3. Place /\ Progress /\ Recorded
  BY Zenon DEF Init, Place, Progress, Done, Recorded
<1>. QED BY Zenon, <1>1, <1>2, <1>3 DEF IInv

\* The invariant is inductive.
LEMMA NextIInv == IInv /\ [Next]_vars => IInv'
<1>. SUFFICES ASSUME IInv, [Next]_vars PROVE IInv'
  BY Zenon
<1>1. TypeOK'
  BY Zenon, TypeStep
<1>2. CASE Next
  BY Zenon, <1>1, <1>2, ListedStep, GotStep, PlaceStep, ProgressStep, RecordedStep DEF IInv
<1>3. CASE UNCHANGED vars
  <2>1. ListedInv' /\ GotInv'
    BY Zenon, <1>3 DEF vars, replicas, IInv, ListedInv, GotInv
  <2>2. Place'
    BY Zenon, <1>3 DEF vars, replicas, IInv, Place
  <2>3. Progress' /\ Recorded'
    BY <1>3 DEF vars, replicas, IInv, Progress, Done, Upgraded, Recorded
  <2>. QED BY Zenon, <1>1, <2>1, <2>2, <2>3 DEF IInv
<1>. QED BY Zenon, <1>2, <1>3

\* The state of the replicas and of the API server stays well-formed.
THEOREM UpgradeTypeCorrect == Spec => []TypeOK
BY InitIInv, NextIInv, PTL DEF Spec, IInv

\* Once the ConfigMap has the key, every object is in the new format: for any number
\* of replicas, crashes, leaders at once, edits and deletions.
THEOREM UpgradeComplete == Spec => []UpgradeRecorded
<1>1. IInv => UpgradeRecorded
  BY Zenon DEF IInv, Recorded, Upgraded, UpgradeRecorded, Exists
<1>. QED BY InitIInv, NextIInv, <1>1, PTL DEF Spec

\* And the copies in every AzureAssignedIdentity are those that a sync cycle expects,
\* unless a user has edited or deleted what they are copies of.
THEOREM NoCycle == Spec => []NoCycleTriggered
<1>1. IInv => NoCycleTriggered
  <2>1. SUFFICES ASSUME IInv, cm = "recorded", NEW a \in AzureAssignedIdentity, store[a] # None, NEW o \in RefOf[a]
                 PROVE  Current(ref[a][o], o)
    BY Zenon DEF NoCycleTriggered, Exists
  <2>2. Fine(ref[a][o], store[o])
    BY Zenon, <2>1, Resources DEF IInv, Recorded, Upgraded
  <2>. QED BY Zenon, <2>2 DEF Fine, Current, Exists
<1>. QED BY InitIInv, NextIInv, <1>1, PTL DEF Spec

\* No PUT takes back an edit or brings back a deleted object.
THEOREM EditsKept == Spec => NoLostEdit
<1>1. ASSUME IInv, Next, NEW o \in Object
      PROVE  /\ store[o] = None => store'[o] = None
             /\ store[o] # None /\ store'[o] # None => store'[o].gen >= store[o].gen
  <2>1. Evolves(store[o], store'[o], o \in Referenced) /\ store[o] \in Stored \cup {None}
    BY Zenon, <1>1, StoreEvolves DEF IInv, TypeOK
  <2>. QED BY <2>1 DEF Evolves, Stored
<1>2. IInv /\ [Next]_vars =>
        [\A o \in Object : /\ ~Exists(o) => store'[o] = None
                           /\ Exists(o) /\ store'[o] # None => store'[o].gen >= store[o].gen]_vars
  BY Zenon, <1>1 DEF Exists
<1>. QED BY InitIInv, NextIInv, <1>2, PTL DEF Spec, NoLostEdit
=============================================================================
