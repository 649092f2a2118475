----------------------------- MODULE MIC_proofs -----------------------------
(***************************************************************************)
(* Theorems about modules AssignedIDs and MIC, for any number of pods,     *)
(* nodes, scale sets, identities and bindings, any lag of the informer and *)
(* any number of failures and restarts.                                    *)
(***************************************************************************)
EXTENDS MIC, WellFoundedInduction, TLAPS

-----------------------------------------------------------------------------
\* What one sync cycle computes: the desired list is a map of objects, so are its
\* differences with the existing one, and the lists of identities to take off a
\* VM/VMSS never name one that a desired pod needs there without the list of
\* identities to put on naming it too.

\* A nonempty set of numbers has a least element.
LEMMA LeastNumber ==
  ASSUME NEW T, T \subseteq Nat, T # {}
  PROVE  \E x \in T : \A y \in T : x <= y
<1>1. \E x \in T : \A y \in T : ~ (<<y, x>> \in OpToRel(<, Nat))
  BY Zenon, NatLessThanWellFounded, WFMin
<1>2. \A x, y \in Nat : y < x => <<y, x>> \in OpToRel(<, Nat)
  BY Zenon DEF OpToRel
<1>3. \A x, y \in Nat : ~(y < x) => x <= y
  OBVIOUS
<1> QED BY Zenon, <1>1, <1>2, <1>3

\* sort.Sort on matching bindings has a first element.
LEMMA FirstBindingExists ==
  ASSUME NEW S, S \subseteq Namespace \X BindName, S # {}
  PROVE  FirstBinding(S) \in S
<1> DEFINE NS == {c[1] : c \in S}
<1>0. \A c \in S : c[1] \in Nat /\ c[2] \in Nat
  BY Zenon, ConstantsAssumption DEF ConstantsAssumption
<1>1. NS \subseteq Nat /\ NS # {}
  BY Zenon, <1>0
<1>2. PICK ns \in NS : \A y \in NS : ns <= y
  BY Zenon, <1>1, LeastNumber
<1> DEFINE BS == {c[2] : c \in {d \in S : d[1] = ns}}
<1>3. BS \subseteq Nat /\ BS # {}
  BY Zenon, <1>0, <1>2
<1>4. PICK b \in BS : \A y \in BS : b <= y
  BY Zenon, <1>3, LeastNumber
<1>5. PICK c \in S : c[1] = ns /\ c[2] = b
  BY Zenon, <1>4
<1>6. \A d \in S \ {c} : Less(c, d)
  <2> SUFFICES ASSUME NEW d \in S \ {c} PROVE Less(c, d)
    BY Zenon
  <2>1. c = <<c[1], c[2]>> /\ d = <<d[1], d[2]>>
    OBVIOUS
  <2>2. c[1] \in Nat /\ c[2] \in Nat /\ d[1] \in Nat /\ d[2] \in Nat
    BY Zenon, ConstantsAssumption DEF ConstantsAssumption
  <2>3. c[1] <= d[1]
    BY Zenon, <1>2, <1>5
  <2>4. d[1] = c[1] => c[2] <= d[2]
    BY Zenon, <1>4, <1>5
  <2>5. c[1] # d[1] \/ c[2] # d[2]
    BY Zenon, <2>1
  <2> QED BY <2>2, <2>3, <2>4, <2>5 DEF Less
<1> QED BY Zenon, <1>6 DEF FirstBinding

\* What the informers can show.
Views(podList, bindList, idList) ==
  /\ podList \in [Pod -> PodSpec \cup {None}]
  /\ bindList \in [Namespace -> [BindName -> Binding \cup {None}]]
  /\ idList \in [Namespace -> [IdName -> AzureIdentity \cup {None}]]

\* makeAssignedIDs builds an AzureAssignedIdentity out of an identity, a binding and a node.
LEMMA MakeType ==
  ASSUME NEW id \in AzureIdentity, NEW b \in BindName, NEW rv \in Nat, NEW node \in Node
  PROVE  /\ makeAssignedIDs(id, b, rv, node) \in AssignedID
         /\ makeAssignedIDs(id, b, rv, node).status = NoStatus
         /\ makeAssignedIDs(id, b, rv, node).id = id /\ makeAssignedIDs(id, b, rv, node).node = node
BY Zenon DEF makeAssignedIDs, AssignedID, Status

\* A desired object is new, sits on its pod's node, and carries an identity that is listed.
LEMMA DesiredOrigin ==
  ASSUME NEW podList, NEW bindList, NEW idList, Views(podList, bindList, idList),
         NEW n \in Name,
         NEW new, new = createDesiredAssignedIdentityList(podList, bindList, idList),
         new[n] # None
  PROVE  /\ new[n] \in AssignedID
         /\ new[n].status = NoStatus
         /\ podList[PodOf(n)] # None /\ podList[PodOf(n)].node # NoNode /\ new[n].node = podList[PodOf(n)].node
         /\ \E ns \in Namespace : idList[ns][IdOf(n)] # None /\ new[n].id = idList[ns][IdOf(n)]
<1> DEFINE p == PodOf(n)
           i == IdOf(n)
           S == Candidates(podList, bindList, idList, p, i)
<1>1. S # {} /\ new[n] = makeAssignedIDs(idList[FirstBinding(S)[1]][i], FirstBinding(S)[2],
                                         bindList[FirstBinding(S)[1]][FirstBinding(S)[2]].rv, podList[p].node)
  BY Zenon DEF createDesiredAssignedIdentityList
<1>2. p \in Pod /\ i \in IdName
  BY Zenon DEF Name, PodOf, IdOf
<1>3. PICK c \in S : new[n] = makeAssignedIDs(idList[c[1]][i], c[2], bindList[c[1]][c[2]].rv, podList[p].node)
  <2>1. S \subseteq Namespace \X BindName
    BY Zenon DEF Candidates
  <2>2. FirstBinding(S) \in S
    BY Zenon, <1>1, <2>1, FirstBindingExists
  <2> QED BY Zenon, <1>1, <2>2
<1>4. /\ c[1] \in Namespace /\ c[2] \in BindName
      /\ BindingMatches(podList, bindList, p, c[1], c[2])
      /\ convertIDListToMap(idList)[c[1]][i] # None
  BY Zenon DEF Candidates
<1>5. idList[c[1]][i] \in AzureIdentity /\ idList[c[1]][i] # None
  BY Zenon, <1>2, <1>4 DEF Views, convertIDListToMap
<1>6. bindList[c[1]][c[2]] \in Binding
  BY <1>4 DEF Views, BindingMatches
<1>7. podList[p] \in PodSpec /\ podList[p].node \in Node
  BY Zenon, <1>2, <1>4 DEF Views, BindingMatches, PodSpec
<1>8. bindList[c[1]][c[2]].rv \in Nat
  BY Zenon, <1>6 DEF Binding
<1>9. new[n] \in AssignedID /\ new[n].status = NoStatus /\ new[n].id = idList[c[1]][i]
  BY <1>3, <1>4, <1>5, <1>7, <1>8, MakeType
<1>10. podList[p] # None /\ podList[p].node # NoNode /\ new[n].node = podList[p].node
  BY <1>3, <1>4, <1>5, <1>7, <1>8, MakeType DEF BindingMatches
<1> QED BY Zenon, <1>4, <1>5, <1>9, <1>10

\* The identity of a desired object is one that is listed under its name.
LEMMA DesiredIdentity ==
  ASSUME NEW podList, NEW bindList, NEW idList, Views(podList, bindList, idList), NEW n \in Name,
         createDesiredAssignedIdentityList(podList, bindList, idList)[n] # None
  PROVE  \E ns \in Namespace : /\ idList[ns][IdOf(n)] # None
                              /\ createDesiredAssignedIdentityList(podList, bindList, idList)[n].id = idList[ns][IdOf(n)]
<1>1. PICK new : new = createDesiredAssignedIdentityList(podList, bindList, idList)
  BY Zenon
<1>2. new[n] # None
  BY Zenon, <1>1
<1>3. \E ns \in Namespace : idList[ns][IdOf(n)] # None /\ new[n].id = idList[ns][IdOf(n)]
  BY <1>1, <1>2, DesiredOrigin
<1> QED BY Zenon, <1>1, <1>3

\* A desired object is new and on its pod's node.
LEMMA DesiredNode ==
  ASSUME NEW podList, NEW bindList, NEW idList, Views(podList, bindList, idList), NEW n \in Name,
         createDesiredAssignedIdentityList(podList, bindList, idList)[n] # None
  PROVE  /\ podList[PodOf(n)] # None /\ podList[PodOf(n)].node # NoNode
         /\ createDesiredAssignedIdentityList(podList, bindList, idList)[n].node = podList[PodOf(n)].node
         /\ createDesiredAssignedIdentityList(podList, bindList, idList)[n].status = NoStatus
<1>1. PICK new : new = createDesiredAssignedIdentityList(podList, bindList, idList)
  BY Zenon
<1>2. new[n] # None
  BY Zenon, <1>1
<1>3. podList[PodOf(n)] # None /\ podList[PodOf(n)].node # NoNode /\ new[n].node = podList[PodOf(n)].node /\ new[n].status = NoStatus
  BY <1>1, <1>2, DesiredOrigin
<1> QED BY Zenon, <1>1, <1>3

Maps == [Name -> AssignedID \cup {None}]

\* The desired list and its differences with the existing one are maps of objects.
LEMMA DesiredType ==
  ASSUME NEW podList, NEW bindList, NEW idList, Views(podList, bindList, idList)
  PROVE  createDesiredAssignedIdentityList(podList, bindList, idList) \in Maps
<1> DEFINE new == createDesiredAssignedIdentityList(podList, bindList, idList)
<1>1. \A n \in Name : new[n] # None => new[n] \in AssignedID
  BY Zenon, DesiredOrigin
<1>2. PICK f : f = new
  BY Zenon
<1>3. f = [n \in Name |-> f[n]]
  BY Zenon, <1>2 DEF createDesiredAssignedIdentityList
<1>4. \A n \in Name : f[n] \in AssignedID \cup {None}
  BY Zenon, <1>1, <1>2
<1>5. f \in Maps
  BY Zenon, <1>3, <1>4 DEF Maps
<1> QED BY Zenon, <1>2, <1>5

\* The create and the delete list of a cycle hold AzureAssignedIdentities, if the
\* listed and the desired objects are such.
LEMMA DiffType ==
  ASSUME NEW old \in Maps, NEW new \in Maps
  PROVE  getAzureAssignedIDsToCreate(old, new) \in Maps /\ getAzureAssignedIDsToDelete(old, new) \in Maps
<1>1. \A n \in Name : old[n] \in AssignedID \cup {None} /\ new[n] \in AssignedID \cup {None}
  BY Zenon DEF Maps
<1>2. \A n \in Name : getAzureAssignedIDsToCreate(old, new)[n] \in {new[n], old[n], None}
  BY Zenon DEF getAzureAssignedIDsToCreate
<1>3. \A n \in Name : getAzureAssignedIDsToDelete(old, new)[n] \in {old[n], None}
  BY Zenon DEF getAzureAssignedIDsToDelete
<1> QED BY Zenon, <1>1, <1>2, <1>3 DEF Maps, getAzureAssignedIDsToCreate, getAzureAssignedIDsToDelete

\* Two nodes with one key in the node map are one node or in one scale set.
LEMMA SameTarget ==
  ASSUME NEW nodeSet, nodeSet \subseteq Node, NEW x \in nodeSet, NEW y \in nodeSet, TargetOf(x) = TargetOf(y)
  PROVE  x = y \/ SameVMSS(nodeSet, x, y)
<1>1. \A z \in Node : isVMSS(z) => TargetOf(z) \in VMSS
  BY Zenon, ConstantsAssumption DEF ConstantsAssumption, isVMSS, TargetOf
<1>2. \A z \in Node : ~isVMSS(z) => TargetOf(z) = z
  BY Zenon DEF TargetOf
<1>3. CASE isVMSS(x) /\ isVMSS(y)
  BY Zenon, <1>3 DEF SameVMSS, TargetOf
<1>4. CASE ~isVMSS(x) \/ ~isVMSS(y)
  BY Zenon, <1>1, <1>2, <1>4, ConstantsAssumption DEF ConstantsAssumption
<1> QED BY Zenon, <1>3, <1>4

\* If the desired list needs an identity on t, and a pod's name and an MSI's
\* resource ID tell pods and identities apart, then the identity is on t's remove
\* list only if it is on t's add list too.
LEMMA InUseNotRemoved ==
  ASSUME NEW podList, NEW bindList, NEW idList, Views(podList, bindList, idList),
         NEW new, new = createDesiredAssignedIdentityList(podList, bindList, idList),
         NEW old \in Maps, NEW nodeSet, nodeSet \subseteq Node, NEW nodeRefs, NEW t,
         NEW n \in Name, new[n] # None, new[n].node \in nodeSet, TargetOf(new[n].node) = t,
         checkIfUserAssignedMSI(new[n].id),
         \A p, q \in Pod : PodName[p] = PodName[q] => p = q,
         \A m \in Keys(old) : checkIfUserAssignedMSI(old[m].id) /\ old[m].id.rid = new[n].id.rid
                             => old[m].id.cid = new[n].id.cid /\ IdOf(m) = IdOf(n),
         new[n].id.rid \in getListOfIdsToDelete(getAzureAssignedIDsToDelete(old, new), new, nodeSet, nodeRefs, t)
  PROVE  new[n].id.rid \in getListOfIdsToAssign(getAzureAssignedIDsToCreate(old, new), nodeSet, t)
<1> DEFINE del == getAzureAssignedIDsToDelete(old, new)
           add == getAzureAssignedIDsToCreate(old, new)
<1>1. PICK m \in Keys(del) : /\ del[m].id.rid = new[n].id.rid
                             /\ shouldRemoveID(m, del[m], new, nodeSet)
                             /\ consolidateVMSSNodes(del[m], nodeSet, t)
  BY Zenon DEF getListOfIdsToDelete
<1>2. m \in Name /\ m \in Keys(old) /\ del[m] = old[m] /\ ~SameID(old, new, m)
  BY Zenon DEF getAzureAssignedIDsToDelete, Keys
<1>3. /\ checkIfUserAssignedMSI(old[m].id) /\ ~checkIfInUse(m, old[m], new, nodeSet)
      /\ old[m].node \in nodeSet /\ TargetOf(old[m].node) = t
      /\ old[m].id.rid = new[n].id.rid
  BY Zenon, <1>1, <1>2 DEF shouldRemoveID, consolidateVMSSNodes
<1>4. old[m].id.cid = new[n].id.cid /\ IdOf(m) = IdOf(n)
  BY Zenon, <1>2, <1>3
<1>5. old[m].node = new[n].node \/ SameVMSS(nodeSet, old[m].node, new[n].node)
  BY Zenon, <1>3, SameTarget
<1>6. ~Shares(m, old[m], new, n)
  BY Zenon, <1>3, <1>5 DEF checkIfInUse
<1>7. PodName[PodOf(m)] = PodName[PodOf(n)]
  BY Zenon, <1>3, <1>4, <1>6 DEF Shares
<1>8. PodOf(m) = PodOf(n)
  BY Zenon, <1>2, <1>7 DEF Name, PodOf
<1>9. m = n
  BY <1>2, <1>4, <1>8 DEF Name, PodOf, IdOf
<1>10. add[n] = new[n]
  BY Zenon, <1>2, <1>9 DEF getAzureAssignedIDsToCreate
<1>11. new[n].status = NoStatus
  BY DesiredOrigin
<1>12. n \in Keys(add) /\ shouldAssignID(add[n]) /\ consolidateVMSSNodes(add[n], nodeSet, t)
  BY Zenon, <1>10, <1>11 DEF Keys, shouldAssignID, consolidateVMSSNodes
<1> QED BY Zenon, <1>10, <1>12 DEF getListOfIdsToAssign

-----------------------------------------------------------------------------
\* The state has its type.

\* A change of status leaves an AzureAssignedIdentity of its type.
LEMMA SetStatusType ==
  ASSUME NEW o \in AssignedID, NEW s \in Status
  PROVE  SetStatus(o, s) \in AssignedID
BY Zenon DEF SetStatus, AssignedID

\* The API server's store stays typed under a write of a typed object.
LEMMA PutType ==
  ASSUME TypeOK, NEW n \in Name, NEW o \in AssignedID \cup {None}, Put(n, o)
  PROVE  /\ api' \in [Name -> AssignedID \cup {None}]
         /\ cache' \in [Name -> AssignedID \cup {None}]
         /\ watch' \in Seq([name : Name, obj : AssignedID \cup {None}])
<1>1. CASE o = api[n] /\ UNCHANGED store
  BY Zenon, <1>1 DEF store, TypeOK
<1>2. CASE /\ api' = [api EXCEPT ![n] = o]
           /\ watch' = Append(watch, [name |-> n, obj |-> o])
           /\ UNCHANGED cache
  BY <1>2 DEF TypeOK
<1> QED BY Zenon, <1>1, <1>2 DEF Put

\* The environment's steps.
LEMMA TypeEnvironment == TypeOK /\ Environment => TypeOK'
<1> SUFFICES ASSUME TypeOK, Environment PROVE TypeOK'
  BY Zenon
<1> USE DEF TypeOK
<1>0. ASSUME NEW kind, Edit(kind)
      PROVE  /\ edits' \in Nat /\ UNCHANGED <<api, cache, watch, cycle, snap, plan, task, faults>>
  BY <1>0 DEF Edit, store
<1>1. ASSUME NEW p \in Pod, SetPod(p) PROVE TypeOK'
  <2>1. PICK s \in PodSpecs[p] \cup {None} : pods' = [pods EXCEPT ![p] = s]
    BY Zenon, <1>1 DEF SetPod
  <2>2. pods' \in [Pod -> PodSpec \cup {None}]
    BY Zenon, <2>1, EnvironmentAssumption DEF EnvironmentAssumption
  <2> QED BY Zenon, <1>0, <1>1, <2>2 DEF SetPod
<1>2. ASSUME NEW ns \in Namespace, NEW i \in IdName, SetIdentity(ns, i) PROVE TypeOK'
  <2>0. edits' \in Nat
    BY Zenon, <1>0, <1>2 DEF SetIdentity
  <2>1. PICK s : /\ s \in {WithRV(x, edits') : x \in IdSpecs[ns][i]} \cup {None}
                 /\ ids' = [ids EXCEPT ![ns][i] = s]
    BY Zenon, <1>2 DEF SetIdentity
  <2>2. \A x \in IdSpecs[ns][i] : WithRV(x, edits') \in AzureIdentity
    BY <2>0, EnvironmentAssumption DEF EnvironmentAssumption, WithRV, AzureIdentity
  <2>3. s \in AzureIdentity \cup {None}
    BY Zenon, <2>1, <2>2
  <2>4. ids' \in [Namespace -> [IdName -> AzureIdentity \cup {None}]]
    BY Zenon, <2>1, <2>3
  <2> QED BY Zenon, <1>0, <1>2, <2>4 DEF SetIdentity
<1>3. ASSUME NEW ns \in Namespace, NEW b \in BindName, SetBinding(ns, b) PROVE TypeOK'
  <2>0. edits' \in Nat
    BY Zenon, <1>0, <1>3 DEF SetBinding
  <2>1. PICK s : /\ s \in {BindRV(x, edits') : x \in BindSpecs[ns][b]} \cup {None}
                 /\ bindings' = [bindings EXCEPT ![ns][b] = s]
    BY Zenon, <1>3 DEF SetBinding
  <2>2. \A x \in BindSpecs[ns][b] : BindRV(x, edits') \in Binding
    BY <2>0, EnvironmentAssumption DEF EnvironmentAssumption, BindRV, Binding
  <2>3. s \in Binding \cup {None}
    BY Zenon, <2>1, <2>2
  <2>4. bindings' \in [Namespace -> [BindName -> Binding \cup {None}]]
    BY Zenon, <2>1, <2>3
  <2> QED BY Zenon, <1>0, <1>3, <2>4 DEF SetBinding
<1>4. ASSUME NEW n \in Node, RemoveNode(n) PROVE TypeOK'
  <2>1. cloud' \in [Target -> SUBSET Rid]
    BY Zenon, <1>4 DEF RemoveNode
  <2>2. nodes' \in SUBSET Node
    BY Zenon, <1>4 DEF RemoveNode
  <2> QED BY Zenon, <1>0, <1>4, <2>1, <2>2 DEF RemoveNode
<1>5. ASSUME NEW n \in Node, AddNode(n) PROVE TypeOK'
  <2>1. nodes' \in SUBSET Node
    BY Zenon, <1>5 DEF AddNode
  <2> QED BY Zenon, <1>0, <1>5, <2>1 DEF AddNode
<1>6. ASSUME NEW t \in Target, Detach(t) PROVE TypeOK'
  <2>1. cloud' \in [Target -> SUBSET Rid]
    BY Zenon, <1>6 DEF Detach
  <2> QED BY Zenon, <1>0, <1>6, <2>1 DEF Detach
<1> QED BY Zenon, <1>1, <1>2, <1>3, <1>4, <1>5, <1>6 DEF Environment

\* What a sync cycle computes from typed caches is typed.
LEMMA TypeSync == TypeOK /\ Sync => TypeOK'
<1> SUFFICES ASSUME TypeOK, Sync PROVE TypeOK'
  BY Zenon
<1> DEFINE new == createDesiredAssignedIdentityList(pods, bindings, ids)
           refs == NodeRefs(pods, bindings)
           add == getAzureAssignedIDsToCreate(cache, new)
           del == getAzureAssignedIDsToDelete(cache, new)
<1>1. Views(pods, bindings, ids)
  BY Zenon DEF TypeOK, Views
<1>2. new \in Maps
  BY Zenon, <1>1, DesiredType
<1>3. cache \in Maps
  BY Zenon DEF TypeOK, Maps
<1>4. add \in Maps /\ del \in Maps
  BY Zenon, <1>2, <1>3, DiffType
<1>5. \A n \in Name : /\ n \in Keys(add) => add[n] \in AssignedID
                      /\ n \in Keys(del) => del[n] \in AssignedID
  BY Zenon, <1>4 DEF Maps, Keys
<1>6. plan' \in [Target -> Plan \cup {None}]
  <2>1. \A n \in Name : /\ n \in Keys(add) => add[n].id.rid \in Rid
                        /\ n \in Keys(del) => del[n].id.rid \in Rid
    BY Zenon, <1>5 DEF AssignedID, AzureIdentity
  <2>2. \A t \in Target : /\ getListOfIdsToAssign(add, nodes, t) \subseteq Rid
                          /\ getListOfIdsToDelete(del, new, nodes, refs, t) \subseteq Rid
    BY Zenon, <2>1 DEF getListOfIdsToAssign, getListOfIdsToDelete, Keys
  <2>3. \A t \in Target : NewPlan(add, del, new, refs, t) \in Plan \cup {None}
    BY Zenon, <2>2 DEF NewPlan, Plan
  <2> QED BY Zenon, <2>3 DEF Sync
<1>7. task' \in [Name -> Task \cup {None}]
  <2>1. \A n \in Name : NewTask(add, del, n) \in Task \cup {None}
    <3> SUFFICES ASSUME NEW n \in Name, n \in Keys(add) \cup Keys(del)
                 PROVE  NewTask(add, del, n) \in Task \cup {None}
      BY Zenon DEF NewTask
    <3>1. (IF n \in Keys(add) THEN add[n] ELSE del[n]) \in AssignedID
      BY Zenon, <1>5
    <3>2. Current(n) \in BOOLEAN
      BY Zenon DEF Current
    <3> QED BY Zenon, <3>1, <3>2 DEF NewTask, Task, Step
  <2> QED BY Zenon, <2>1 DEF Sync
<1>8. snap' \in Snap
  <2>1. refs \in SUBSET Node
    BY Zenon DEF NodeRefs, BindingMatches, TypeOK, PodSpec
  <2>2. snap' = [want |-> new, nodeRefs |-> refs, nodes |-> nodes]
    BY Zenon DEF Sync
  <2>3. nodes \in SUBSET Node
    BY Zenon DEF TypeOK
  <2> QED BY Zenon, <1>2, <2>1, <2>2, <2>3 DEF Snap, Maps
<1>9. /\ cycle' = "sync"
      /\ UNCHANGED <<pods, bindings, ids, nodes, edits, api, cache, watch, cloud, faults>>
  BY Zenon DEF Sync, env, store
<1> QED BY Zenon, <1>6, <1>7, <1>8, <1>9 DEF TypeOK

\* One call of a worker for one object.
LEMMA TypeTaskStep == ASSUME NEW n \in Name, TypeOK, TaskStep(n) PROVE TypeOK'
<1>1. faults' \in Nat
  <2>1. faults \in Nat
    BY Zenon DEF TypeOK
  <2>2. ASSUME NEW k, Fault(k) PROVE faults' \in Nat
    BY <2>1, <2>2 DEF Fault
  <2>3. UNCHANGED faults \/ \E k : Fault(k)
    <3>1. CASE Write(n)
      BY Zenon, <3>1 DEF Write, NoFault
    <3>2. CASE PatchAssigned(n)
      BY Zenon, <3>2 DEF PatchAssigned, NoFault
    <3>3. CASE PatchUnassigned(n)
      BY Zenon, <3>3 DEF PatchUnassigned, NoFault
    <3>4. CASE RemoveAssignedIdentity(n)
      BY Zenon, <3>4 DEF RemoveAssignedIdentity, NoFault
    <3>5. CASE DeleteAfterError(n)
      BY Zenon, <3>5 DEF DeleteAfterError
    <3> QED BY Zenon, <3>1, <3>2, <3>3, <3>4, <3>5 DEF TaskStep
  <2> QED BY Zenon, <2>1, <2>2, <2>3
<1>2. task' \in [Name -> Task \cup {None}]
  <2>1. task[n] \in Task
    BY Zenon DEF TypeOK, TaskStep, Write, PatchAssigned, PatchUnassigned, RemoveAssignedIdentity, DeleteAfterError
  <2>2. ASSUME NEW s \in Step, Goto(n, s) PROVE task' \in [Name -> Task \cup {None}]
    BY Zenon, <2>1, <2>2 DEF TypeOK, Goto, Task
  <2>3. ASSUME Done(n) PROVE task' \in [Name -> Task \cup {None}]
    BY Zenon, <2>3 DEF TypeOK, Done
  <2>4. (\E s \in Step : Goto(n, s)) \/ Done(n)
    BY Zenon DEF TaskStep, Write, PatchAssigned, PatchUnassigned, RemoveAssignedIdentity, DeleteAfterError, Step
  <2> QED BY Zenon, <2>2, <2>3, <2>4
<1>3. /\ api' \in [Name -> AssignedID \cup {None}]
      /\ cache' \in [Name -> AssignedID \cup {None}]
      /\ watch' \in Seq([name : Name, obj : AssignedID \cup {None}])
  <2>1. CASE UNCHANGED store
    BY Zenon, <2>1 DEF store, TypeOK
  <2>2. CASE \E o \in AssignedID \cup {None} : Put(n, o)
    BY Zenon, <2>2, PutType
  <2>3. task[n] # None => task[n].obj \in AssignedID
    BY Zenon DEF TypeOK, Task
  <2>4. api[n] # None => api[n] \in AssignedID
    BY Zenon DEF TypeOK
  <2>5. CASE Write(n)
    <3>1. SetStatus(task[n].obj, "Created") \in AssignedID
      BY Zenon, <2>3, <2>5, SetStatusType DEF Write, Status
    <3> QED BY Zenon, <2>1, <2>2, <2>5, <3>1 DEF Write
  <2>6. CASE PatchAssigned(n)
    <3>1. api[n] # None => SetStatus(api[n], "Assigned") \in AssignedID
      BY Zenon, <2>4, SetStatusType DEF Status
    <3> QED BY Zenon, <2>1, <2>2, <2>6, <3>1 DEF PatchAssigned
  <2>7. CASE PatchUnassigned(n)
    <3>1. api[n] # None => SetStatus(api[n], "Unassigned") \in AssignedID
      BY Zenon, <2>4, SetStatusType DEF Status
    <3> QED BY Zenon, <2>1, <2>2, <2>7, <3>1 DEF PatchUnassigned
  <2>8. CASE RemoveAssignedIdentity(n)
    BY Zenon, <2>1, <2>2, <2>8 DEF RemoveAssignedIdentity
  <2>9. CASE DeleteAfterError(n)
    BY Zenon, <2>1, <2>9 DEF DeleteAfterError
  <2> QED BY Zenon, <2>5, <2>6, <2>7, <2>8, <2>9 DEF TaskStep
<1>4. UNCHANGED <<pods, bindings, ids, nodes, edits, cloud, cycle, snap, plan>>
  BY Zenon DEF TaskStep, Write, PatchAssigned, PatchUnassigned, RemoveAssignedIdentity, DeleteAfterError, env
<1> QED BY Zenon, <1>1, <1>2, <1>3, <1>4 DEF TypeOK

\* An UpdateUserMSI that fails half way leaves sets of identities on every VM/VMSS.
LEMMA PartialUpdateType ==
  ASSUME TypeOK, NEW t \in Target, plan[t] # None, UpdateFails(t)
  PROVE  cloud' \in [Target -> SUBSET Rid] /\ faults' \in Nat
<1>1. plan[t].add \subseteq Rid
  BY Zenon DEF TypeOK, Plan
<1>2. CASE Fault("cloud") /\ PartialUpdate(t)
  <2>1. cloud \in [Target -> SUBSET Rid] /\ faults \in Nat
    BY Zenon DEF TypeOK
  <2>2. PICK A \in SUBSET plan[t].add, D \in SUBSET (plan[t].remove \ plan[t].add) :
          cloud' = [cloud EXCEPT ![t] = (cloud[t] \ D) \cup A]
    BY Zenon, <1>2 DEF PartialUpdate
  <2>3. (cloud[t] \ D) \cup A \in SUBSET Rid
    BY Zenon, <1>1, <2>1
  <2>4. cloud' \in [Target -> SUBSET Rid]
    BY Zenon, <2>1, <2>2, <2>3
  <2>5. faults' \in Nat
    BY <1>2, <2>1 DEF Fault
  <2> QED BY Zenon, <2>4, <2>5
<1>3. CASE NoFault /\ UNCHANGED cloud
  BY Zenon, <1>3 DEF TypeOK, NoFault
<1> QED BY Zenon, <1>2, <1>3 DEF UpdateFails

\* An UpdateUserMSI, of a sync cycle or of the reconciliation.
LEMMA TypeWorker == ASSUME NEW t \in Target, TypeOK, Worker(t) PROVE TypeOK'
<1>0. plan[t] \in Plan /\ plan' = [plan EXCEPT ![t] = None]
  BY Zenon DEF TypeOK, Worker, UpdateUserMSI, UpdateUserMSIError, ReconcileNode
<1>1. plan' \in [Target -> Plan \cup {None}]
  BY Zenon, <1>0 DEF TypeOK
<1>2. plan[t].add \subseteq Rid
  BY Zenon, <1>0 DEF Plan
<1>3. \A n \in Name : task[n] # None => \A s \in Step : [task[n] EXCEPT !.step = s] \in Task
  BY Zenon DEF TypeOK, Task
<1>4. CASE UpdateUserMSI(t)
  <2>1. cloud' \in [Target -> SUBSET Rid]
    BY Zenon, <1>2, <1>4 DEF TypeOK, UpdateUserMSI
  <2>2. task' \in [Name -> Task \cup {None}]
    <3>1. \A n \in Name : At(n, t) => [task[n] EXCEPT !.step = IF task[n].op = "delete" THEN "unassign" ELSE "patch"] \in Task
      BY Zenon, <1>3 DEF At, Step
    <3> QED BY Zenon, <1>4, <3>1 DEF TypeOK, UpdateUserMSI
  <2> QED BY Zenon, <1>1, <1>4, <2>1, <2>2 DEF TypeOK, UpdateUserMSI, env, store
<1>5. CASE UpdateUserMSIError(t)
  <2>1. cloud' \in [Target -> SUBSET Rid] /\ faults' \in Nat
    BY Zenon, <1>5, PartialUpdateType DEF UpdateUserMSIError
  <2>2. task' \in [Name -> Task \cup {None}]
    <3>1. \A n \in Name : At(n, t) => AfterError(n, cloud'[t]) \in Task \cup {None}
      BY Zenon, <1>3 DEF At, AfterError, Step
    <3> QED BY Zenon, <1>5, <3>1 DEF TypeOK, UpdateUserMSIError
  <2> QED BY Zenon, <1>1, <1>5, <2>1, <2>2 DEF TypeOK, UpdateUserMSIError, env, store
<1>6. CASE ReconcileNode(t)
  <2>1. CASE NoFault /\ cloud' = [cloud EXCEPT ![t] = @ \cup plan[t].add]
    BY Zenon, <1>1, <1>2, <1>6, <2>1 DEF TypeOK, ReconcileNode, NoFault, env, store
  <2>2. CASE UpdateFails(t)
    <3>1. cloud' \in [Target -> SUBSET Rid] /\ faults' \in Nat
      BY Zenon, <1>6, <2>2, PartialUpdateType DEF ReconcileNode
    <3> QED BY Zenon, <1>1, <1>6, <3>1 DEF TypeOK, ReconcileNode, env, store
  <2> QED BY Zenon, <1>6, <2>1, <2>2 DEF ReconcileNode
<1> QED BY Zenon, <1>4, <1>5, <1>6 DEF Worker

\* The first watch event and the rest of the queue are of their types.
LEMMA HeadTail ==
  ASSUME NEW S, NEW q \in Seq(S), q # <<>>
  PROVE  Head(q) \in S /\ Tail(q) \in Seq(S)
OBVIOUS

\* What is in a sequence after an append.
LEMMA AppendElements ==
  ASSUME NEW S, NEW q \in Seq(S), NEW e
  PROVE  /\ Len(q) \in Nat /\ Len(Append(q, e)) = Len(q) + 1
         /\ \A k \in 1..Len(q) : Append(q, e)[k] = q[k]
         /\ Append(q, e)[Len(q) + 1] = e
OBVIOUS

\* TypeOK is preserved when the informer takes an event off the watch.
LEMMA TypeDeliver == TypeOK /\ Deliver => TypeOK'
<1> SUFFICES ASSUME TypeOK, Deliver PROVE TypeOK'
  BY Zenon
<1>1. Head(watch) \in [name : Name, obj : AssignedID \cup {None}]
  BY Zenon, HeadTail DEF TypeOK, Deliver
<1>2. cache' \in [Name -> AssignedID \cup {None}]
  BY Zenon, <1>1 DEF TypeOK, Deliver
<1>3. watch' \in Seq([name : Name, obj : AssignedID \cup {None}])
  BY Zenon, HeadTail DEF TypeOK, Deliver
<1> QED BY Zenon, <1>2, <1>3 DEF TypeOK, Deliver, env

\* TypeOK is preserved when a reconciliation is planned.
LEMMA TypeReconcile == TypeOK /\ Reconcile => TypeOK'
<1> SUFFICES ASSUME TypeOK, Reconcile PROVE TypeOK'
  BY Zenon
<1>1. \A n \in Keys(cache) : cache[n].id.rid \in Rid
  BY Zenon DEF TypeOK, Keys, AssignedID, AzureIdentity
<1>2. \A t \in Target : generateIdentityAssignmentDiff(t) \subseteq Rid
  BY Zenon, <1>1 DEF generateIdentityAssignmentDiff, generateIdentityAssignmentState
<1>3. plan' \in [Target -> Plan \cup {None}]
  BY Zenon, <1>2 DEF Reconcile, Plan
<1> QED BY Zenon, <1>3 DEF TypeOK, Reconcile, env, store

\* In every reachable state the informers, the API server, the cloud and the
\* workers hold well-formed objects: in particular no unscheduled pod's node and
\* no missing key gets into an AzureAssignedIdentity or an UpdateUserMSI call.
THEOREM TypeCorrect == Spec => []TypeOK
<1>1. Init => TypeOK
  <2> SUFFICES ASSUME Init PROVE TypeOK
    BY Zenon
  <2>1. pods \in [Pod -> PodSpec \cup {None}]
    BY Zenon DEF Init
  <2>2. bindings \in [Namespace -> [BindName -> Binding \cup {None}]] /\ ids \in [Namespace -> [IdName -> AzureIdentity \cup {None}]]
    BY Zenon, EnvironmentAssumption DEF EnvironmentAssumption, Init
  <2>3. cloud \in [Target -> SUBSET Rid]
    BY Zenon, EnvironmentAssumption DEF EnvironmentAssumption, Init
  <2>4. plan \in [Target -> Plan \cup {None}] /\ task \in [Name -> Task \cup {None}]
    BY Zenon DEF Init, NoPlans, NoTasks
  <2>5. watch \in Seq([name : Name, obj : AssignedID \cup {None}])
    BY DEF Init
  <2> QED BY Zenon, <2>1, <2>2, <2>3, <2>4, <2>5 DEF Init, TypeOK
<1>2. TypeOK /\ [Next]_vars => TypeOK'
  <2> SUFFICES ASSUME TypeOK, [Next]_vars PROVE TypeOK'
    BY Zenon
  <2>1. CASE Environment
    BY Zenon, <2>1, TypeEnvironment
  <2>2. CASE Deliver
    BY Zenon, <2>2, TypeDeliver
  <2>3. CASE Sync
    BY Zenon, <2>3, TypeSync
  <2>4. CASE CycleEnd
    BY Zenon, <2>4 DEF CycleEnd, TypeOK, env, store
  <2>5. CASE \E n \in Name : TaskStep(n)
    BY Zenon, <2>5, TypeTaskStep
  <2>6. CASE \E t \in Target : Worker(t)
    BY Zenon, <2>6, TypeWorker
  <2>7. CASE Reconcile
    BY Zenon, <2>7, TypeReconcile
  <2>8. CASE Crash
    <3>1. plan' \in [Target -> Plan \cup {None}] /\ task' \in [Name -> Task \cup {None}]
      BY Zenon, <2>8 DEF Crash, NoPlans, NoTasks
    <3> QED BY <2>8, <3>1 DEF Crash, Fault, TypeOK, env
  <2>9. CASE UNCHANGED vars
    BY Zenon, <2>9 DEF vars, TypeOK
  <2> QED BY Zenon, <2>1, <2>2, <2>3, <2>4, <2>5, <2>6, <2>7, <2>8, <2>9 DEF Next
<1> QED BY <1>1, <1>2, PTL DEF Spec

-----------------------------------------------------------------------------
\* Where objects come from.

\* The AzureAssignedIdentity o is around under name n: stored, cached, on the
\* watch, in a worker's hands or on the running cycle's desired list.
Around(n, o) ==
  \/ o # None /\ (o = api[n] \/ o = cache[n])
  \/ o # None /\ \E k \in 1..Len(watch) : watch[k].name = n /\ watch[k].obj = o
  \/ o # None /\ snap # None /\ o = snap.want[n]
  \/ task[n] # None /\ o = task[n].obj

\* o is one that is around, or the desired one, up to its status and its binding.
From(n, o) ==
  \E b : (Around(n, b) \/ (b # None /\ b = Desired[n])) /\ o.id = b.id /\ o.node = b.node

\* Nothing, or such an object.
FromOrNone(n, o) == o # None => From(n, o)

\* What is around is there to be copied.
LEMMA AroundFrom ==
  /\ \A n \in Name : FromOrNone(n, api[n]) /\ FromOrNone(n, cache[n]) /\ FromOrNone(n, Desired[n])
  /\ \A k \in 1..Len(watch) : FromOrNone(watch[k].name, watch[k].obj)
  /\ \A n \in Name : task[n] # None => From(n, task[n].obj)
  /\ \A n \in Name : snap # None => FromOrNone(n, snap.want[n])
<1>1. \A n \in Name : FromOrNone(n, api[n]) /\ FromOrNone(n, cache[n]) /\ FromOrNone(n, Desired[n])
  BY Zenon DEF FromOrNone, From, Around
<1>2. \A k \in 1..Len(watch) : FromOrNone(watch[k].name, watch[k].obj)
  BY Zenon DEF FromOrNone, From, Around
<1>3. \A n \in Name : task[n] # None => From(n, task[n].obj)
  BY Zenon DEF FromOrNone, From, Around
<1>4. \A n \in Name : snap # None => FromOrNone(n, snap.want[n])
  BY Zenon DEF FromOrNone, From, Around
<1> QED BY Zenon, <1>1, <1>2, <1>3, <1>4

\* A write brings nothing new to the API server and the watch, if what is written is not new.
LEMMA FromPut ==
  ASSUME TypeOK, NEW n \in Name, NEW o, FromOrNone(n, o), Put(n, o)
  PROVE  /\ \A m \in Name : FromOrNone(m, api'[m]) /\ FromOrNone(m, cache'[m])
         /\ \A k \in 1..Len(watch') : FromOrNone(watch'[k].name, watch'[k].obj)
<1>1. CASE o = api[n] /\ UNCHANGED store
  BY Zenon, <1>1, AroundFrom DEF store
<1>2. CASE /\ api' = [api EXCEPT ![n] = o]
           /\ watch' = Append(watch, [name |-> n, obj |-> o])
           /\ UNCHANGED cache
  <2>1. \A m \in Name : FromOrNone(m, api'[m]) /\ FromOrNone(m, cache'[m])
    BY Zenon, <1>2, AroundFrom DEF TypeOK
  <2>2. watch \in Seq([name : Name, obj : AssignedID \cup {None}])
    BY Zenon DEF TypeOK
  <2>3. /\ Len(watch') = Len(watch) + 1 /\ Len(watch) \in Nat
        /\ \A k \in 1..Len(watch) : watch'[k] = watch[k]
        /\ watch'[Len(watch) + 1] = [name |-> n, obj |-> o]
    BY <1>2, <2>2, AppendElements, Zenon
  <2>4. ASSUME NEW k \in 1..Len(watch') PROVE FromOrNone(watch'[k].name, watch'[k].obj)
    <3>1. CASE k = Len(watch) + 1
      BY <2>3, <3>1
    <3>2. CASE k \in 1..Len(watch)
      BY Zenon, <2>3, <3>2, AroundFrom
    <3>3. Len(watch') = Len(watch) + 1 /\ Len(watch) \in Nat
      BY Zenon, <2>3
    <3>4. k = Len(watch) + 1 \/ k \in 1..Len(watch)
      BY <3>3
    <3> QED BY Zenon, <3>1, <3>2, <3>4
  <2> QED BY Zenon, <2>1, <2>4
<1> QED BY Zenon, <1>1, <1>2 DEF Put

\* A worker's call for one object leaves the other tasks, and the object of this one.
LEMMA TaskKept ==
  ASSUME NEW n \in Name, TypeOK, TaskStep(n)
  PROVE  /\ task[n] \in Task /\ task[n] # None
         /\ \A m \in Name : task'[m] # None => task[m] # None /\ task'[m].obj = task[m].obj
<1>1. task[n] \in Task /\ task[n] # None
  BY Zenon DEF TypeOK, TaskStep, Write, PatchAssigned, PatchUnassigned, RemoveAssignedIdentity, DeleteAfterError
<1>2. ASSUME NEW s, Goto(n, s) PROVE \A m \in Name : task'[m] # None => task[m] # None /\ task'[m].obj = task[m].obj
  BY Zenon, <1>1, <1>2 DEF TypeOK, Goto, Task
<1>3. ASSUME Done(n) PROVE \A m \in Name : task'[m] # None => task[m] # None /\ task'[m].obj = task[m].obj
  BY Zenon, <1>3 DEF TypeOK, Done
<1>4. (\E s \in Step : Goto(n, s)) \/ Done(n)
  BY Zenon DEF TaskStep, Write, PatchAssigned, PatchUnassigned, RemoveAssignedIdentity, DeleteAfterError, Step
<1> QED BY Zenon, <1>1, <1>2, <1>3, <1>4

\* What a worker writes for an object is the object of its task or the stored one.
LEMMA FromTaskStep ==
  ASSUME NEW n \in Name, TypeOK, TaskStep(n)
  PROVE  /\ \A m \in Name : FromOrNone(m, api'[m]) /\ FromOrNone(m, cache'[m])
         /\ \A k \in 1..Len(watch') : FromOrNone(watch'[k].name, watch'[k].obj)
<1>1. task[n] \in Task /\ task[n] # None
  BY Zenon, TaskKept
<1>2. UNCHANGED store \/ \E o : FromOrNone(n, o) /\ Put(n, o)
  <2>0. \A o \in AssignedID : \A s : SetStatus(o, s).id = o.id /\ SetStatus(o, s).node = o.node
    BY Zenon DEF SetStatus, AssignedID
  <2>1. CASE Write(n)
    <3>1. From(n, SetStatus(task[n].obj, "Created"))
      <4>1. task[n].obj \in AssignedID
        BY Zenon, <1>1 DEF Task
      <4>2. Around(n, task[n].obj)
        BY Zenon, <1>1 DEF Around
      <4> QED BY Zenon, <2>0, <4>1, <4>2 DEF From
    <3> QED BY Zenon, <2>1, <3>1 DEF Write, FromOrNone
  <2>2. \A s : api[n] # None => From(n, SetStatus(api[n], s))
    <3>1. api[n] # None => Around(n, api[n]) /\ api[n] \in AssignedID
      BY Zenon DEF Around, TypeOK
    <3> QED BY Zenon, <2>0, <3>1 DEF From
  <2>3. CASE PatchAssigned(n)
    BY Zenon, <2>2, <2>3 DEF PatchAssigned, FromOrNone
  <2>4. CASE PatchUnassigned(n)
    BY Zenon, <2>2, <2>4 DEF PatchUnassigned, FromOrNone
  <2>5. CASE RemoveAssignedIdentity(n)
    BY Zenon, <2>5 DEF RemoveAssignedIdentity, FromOrNone
  <2>6. CASE DeleteAfterError(n)
    BY Zenon, <2>6 DEF DeleteAfterError
  <2> QED BY Zenon, <2>1, <2>3, <2>4, <2>5, <2>6 DEF TaskStep
<1> QED BY Zenon, <1>2, FromPut, AroundFrom DEF store

\* A sync cycle works on what it listed and what it desires.
LEMMA FromSync ==
  ASSUME TypeOK, Sync
  PROVE  /\ \A n \in Name : task'[n] # None => From(n, task'[n].obj)
         /\ snap' # None => \A n \in Name : FromOrNone(n, snap'.want[n])
<1> DEFINE new == createDesiredAssignedIdentityList(pods, bindings, ids)
           add == getAzureAssignedIDsToCreate(cache, new)
           del == getAzureAssignedIDsToDelete(cache, new)
<1>1. \A n \in Name : FromOrNone(n, new[n]) /\ FromOrNone(n, cache[n])
  BY Zenon, AroundFrom DEF Desired
<1>2. \A n \in Name : add[n] \in {new[n], cache[n], None} /\ del[n] \in {cache[n], None}
  BY Zenon DEF getAzureAssignedIDsToCreate, getAzureAssignedIDsToDelete
<1>3. \A n \in Name : FromOrNone(n, add[n]) /\ FromOrNone(n, del[n])
  BY Zenon, <1>1, <1>2 DEF FromOrNone
<1>4. \A n \in Name : NewTask(add, del, n) # None => From(n, NewTask(add, del, n).obj)
  BY Zenon, <1>3 DEF NewTask, FromOrNone, Keys
<1>5. task' = [n \in Name |-> NewTask(add, del, n)]
  BY Zenon DEF Sync
<1>6. snap'.want = new
  BY Zenon DEF Sync
<1> HIDE DEF add, del
<1>7. \A n \in Name : task'[n] # None => From(n, task'[n].obj)
  BY Zenon, <1>4, <1>5
<1>8. \A n \in Name : FromOrNone(n, snap'.want[n])
  BY Zenon, <1>1, <1>6
<1> QED BY Zenon, <1>7, <1>8

\* Every step leaves only objects that were around, or the one that is desired, up
\* to their status and their binding: no identity and no node is made up.
LEMMA Provenance ==
  ASSUME TypeOK, [Next]_vars
  PROVE  /\ \A n \in Name : FromOrNone(n, api'[n]) /\ FromOrNone(n, cache'[n])
         /\ \A k \in 1..Len(watch') : FromOrNone(watch'[k].name, watch'[k].obj)
         /\ \A n \in Name : task'[n] # None => From(n, task'[n].obj)
         /\ snap' # None => \A n \in Name : FromOrNone(n, snap'.want[n])
<1>1. CASE UNCHANGED <<api, cache, watch, task, snap>>
  BY Zenon, <1>1, AroundFrom
<1>2. CASE Deliver
  <2>1. watch # <<>> /\ Head(watch) = watch[1] /\ Len(watch) \in Nat \ {0}
    BY <1>2 DEF Deliver, TypeOK
  <2>2. watch[1].name \in Name /\ FromOrNone(watch[1].name, watch[1].obj)
    <3>1. watch[1] \in [name : Name, obj : AssignedID \cup {None}]
      <4>1. Head(watch) \in [name : Name, obj : AssignedID \cup {None}]
        BY Zenon, <2>1, HeadTail DEF TypeOK
      <4> QED BY Zenon, <2>1, <4>1
    <3>2. 1 \in 1..Len(watch)
      BY <2>1
    <3>3. FromOrNone(watch[1].name, watch[1].obj)
      BY Zenon, <3>2, AroundFrom
    <3> QED BY Zenon, <3>1, <3>3
  <2>3. \A n \in Name : FromOrNone(n, cache'[n])
    BY Zenon, <1>2, <2>1, <2>2, AroundFrom DEF Deliver, TypeOK
  <2>4. \A k \in 1..Len(watch') : FromOrNone(watch'[k].name, watch'[k].obj)
    <3>1. Len(watch') = Len(watch) - 1 /\ \A k \in 1..Len(watch') : watch'[k] = watch[k+1]
      BY <1>2, <2>1 DEF Deliver, TypeOK
    <3> SUFFICES ASSUME NEW k \in 1..Len(watch') PROVE FromOrNone(watch'[k].name, watch'[k].obj)
      BY Zenon
    <3>2. k + 1 \in 1..Len(watch) /\ watch'[k] = watch[k+1]
      BY <2>1, <3>1
    <3>3. FromOrNone(watch[k+1].name, watch[k+1].obj)
      BY Zenon, <3>2, AroundFrom
    <3> QED BY Zenon, <3>2, <3>3
  <2> QED BY Zenon, <1>2, <2>3, <2>4, AroundFrom DEF Deliver
<1>3. CASE Sync
  <2>1. UNCHANGED <<api, cache, watch>>
    BY Zenon, <1>3 DEF Sync, store
  <2> QED BY Zenon, <1>3, <2>1, FromSync, AroundFrom
<1>4. ASSUME NEW n \in Name, TaskStep(n)
      PROVE  /\ \A m \in Name : task'[m] # None => From(m, task'[m].obj)
             /\ snap' # None => \A m \in Name : FromOrNone(m, snap'.want[m])
  <2>1. UNCHANGED snap
    BY Zenon, <1>4 DEF TaskStep, Write, PatchAssigned, PatchUnassigned, RemoveAssignedIdentity, DeleteAfterError
  <2> QED BY Zenon, <1>4, <2>1, TaskKept, AroundFrom
<1>5. CASE \E n \in Name : TaskStep(n)
  BY Zenon, <1>4, <1>5, FromTaskStep
<1>6. CASE \E t \in Target : Worker(t)
  <2> PICK t \in Target : Worker(t)
    BY Zenon, <1>6
  <2>1. \A n \in Name : task'[n] # None => task[n] # None /\ task'[n].obj = task[n].obj
    <3> SUFFICES ASSUME NEW n \in Name, task'[n] # None PROVE task[n] # None /\ task'[n].obj = task[n].obj
      BY Zenon
    <3>0. task[n] # None => task[n] \in Task
      BY Zenon DEF TypeOK
    <3>1. \A s : task[n] # None => [task[n] EXCEPT !.step = s].obj = task[n].obj
      BY Zenon, <3>0 DEF Task
    <3>2. CASE UpdateUserMSI(t)
      BY Zenon, <3>1, <3>2 DEF UpdateUserMSI, At
    <3>3. CASE UpdateUserMSIError(t)
      <4>1. \A L : task[n] # None /\ AfterError(n, L) # None => AfterError(n, L).obj = task[n].obj
        BY <3>1 DEF AfterError
      <4> QED BY Zenon, <3>3, <4>1 DEF UpdateUserMSIError, At
    <3>4. CASE ReconcileNode(t)
      BY Zenon, <3>4 DEF ReconcileNode
    <3> QED BY Zenon, <3>2, <3>3, <3>4 DEF Worker
  <2>2. UNCHANGED <<api, cache, watch, snap>>
    BY Zenon DEF Worker, UpdateUserMSI, UpdateUserMSIError, ReconcileNode, store
  <2> QED BY Zenon, <2>1, <2>2, AroundFrom
<1>7. CASE CycleEnd
  BY Zenon, <1>7, AroundFrom DEF CycleEnd, store
<1>8. CASE Crash
  <2>1. api' = api /\ cache' = api /\ watch' = <<>> /\ task' = NoTasks /\ snap' = None
    BY Zenon, <1>8 DEF Crash
  <2>2. \A n \in Name : task'[n] = None
    BY Zenon, <2>1 DEF NoTasks
  <2>3. \A k \in 1..Len(watch') : FromOrNone(watch'[k].name, watch'[k].obj)
    BY <2>1
  <2>4. \A n \in Name : FromOrNone(n, api'[n]) /\ FromOrNone(n, cache'[n])
    BY Zenon, <2>1, AroundFrom
  <2> QED BY Zenon, <2>1, <2>2, <2>3, <2>4
<1>9. CASE Environment \/ Reconcile \/ UNCHANGED vars
  <2>1. UNCHANGED <<api, cache, watch, task, snap>>
    BY Zenon, <1>9 DEF Environment, SetPod, SetIdentity, SetBinding, RemoveNode, AddNode, Detach, Edit, Reconcile, store, vars
  <2> QED BY Zenon, <1>1, <2>1
<1> QED BY Zenon, <1>2, <1>3, <1>5, <1>6, <1>7, <1>8, <1>9 DEF Next

\* The same, object by object.
LEMMA ObjectsStep ==
  ASSUME TypeOK, [Next]_vars, NEW n \in Name, NEW o, Around(n, o)'
  PROVE  From(n, o)
<1>1. CASE o # None /\ (o = api'[n] \/ o = cache'[n])
  BY Zenon, <1>1, Provenance DEF FromOrNone
<1>2. CASE o # None /\ \E k \in 1..Len(watch') : watch'[k].name = n /\ o = watch'[k].obj
  BY Zenon, <1>2, Provenance DEF FromOrNone
<1>3. CASE snap' # None /\ o # None /\ o = snap'.want[n]
  BY Zenon, <1>3, Provenance DEF FromOrNone
<1>4. CASE task'[n] # None /\ o = task'[n].obj
  BY Zenon, <1>4, Provenance
<1> QED BY Zenon, <1>1, <1>2, <1>3, <1>4 DEF Around

\* At first there is nothing around.
LEMMA NothingAround == ASSUME Init, NEW n \in Name, NEW o PROVE ~Around(n, o)
<1>1. api[n] = None /\ cache[n] = None /\ task[n] = None /\ snap = None
  BY Zenon DEF Init, NoTasks
<1>2. ~ \E k \in 1..Len(watch) : watch[k].name = n
  <2>1. watch = <<>>
    BY Zenon DEF Init
  <2> QED BY <2>1
<1> QED BY Zenon, <1>1, <1>2 DEF Around

-----------------------------------------------------------------------------
\* InUseKept.  Two strengthenings: every identity that is recorded anywhere is
\* one the cluster has known under that name, and a running cycle's plan never
\* removes what its desired list needs without adding it too.

Known(i, id) ==
  \E ns \in Namespace : \E s \in KnownIDs(ns, i) : s.type = id.type /\ s.rid = id.rid /\ s.cid = id.cid

KnownInv ==
  /\ \A ns \in Namespace, i \in IdName : ids[ns][i] # None => Known(i, ids[ns][i])
  /\ \A n \in Name : \A o : Around(n, o) => Known(IdOf(n), o.id)

\* The plan of a running cycle puts back whatever it takes off of what the cycle's
\* desired list needs.
PlanInv ==
  cycle = "sync" =>
    \A t \in Target, n \in Name :
      /\ plan[t] # None
      /\ snap.want[n] # None /\ snap.want[n].node \in snap.nodes
      /\ Uses(snap.want[n], snap.want[n].id.rid, t)
      /\ snap.want[n].id.rid \in plan[t].remove
      => snap.want[n].id.rid \in plan[t].add

\* An identity is edited by the environment only, and gets the edit's resource version.
LEMMA IdentityEdits ==
  ASSUME TypeOK, [Next]_vars, NEW ns \in Namespace, NEW i \in IdName
  PROVE  \/ ids'[ns][i] \in {ids[ns][i], None}
         \/ /\ edits' = edits + 1 /\ edits < MaxEdits
            /\ \E x \in IdSpecs[ns][i] : ids'[ns][i] = WithRV(x, edits')
            /\ \A qs \in Namespace \ {ns} : ids'[qs][i] = ids[qs][i]
<1>1. ASSUME NEW ms \in Namespace, NEW j \in IdName, SetIdentity(ms, j)
      PROVE  \/ ids'[ns][i] \in {ids[ns][i], None}
             \/ /\ edits' = edits + 1 /\ edits < MaxEdits
                /\ \E x \in IdSpecs[ns][i] : ids'[ns][i] = WithRV(x, edits')
                /\ \A qs \in Namespace \ {ns} : ids'[qs][i] = ids[qs][i]
  <2>1. PICK s : /\ s \in {WithRV(x, edits') : x \in IdSpecs[ms][j]} \cup {None}
                 /\ ids' = [ids EXCEPT ![ms][j] = s]
    BY Zenon, <1>1 DEF SetIdentity
  <2>2. edits' = edits + 1 /\ edits < MaxEdits
    BY Zenon, <1>1 DEF SetIdentity, Edit
  <2>3. \A qs \in Namespace : ids'[qs][i] = IF qs = ms /\ i = j THEN s ELSE ids[qs][i]
    BY Zenon, <2>1 DEF TypeOK
  <2> QED BY <2>1, <2>2, <2>3
<1>2. CASE UNCHANGED ids
  BY Zenon, <1>2
<1>3. UNCHANGED ids \/ \E ms \in Namespace, j \in IdName : SetIdentity(ms, j)
  BY Zenon DEF Next, vars, env, Environment, SetPod, SetBinding, RemoveNode, AddNode, Detach, Deliver, Sync, CycleEnd,
     TaskStep, Write, PatchAssigned, PatchUnassigned, RemoveAssignedIdentity, DeleteAfterError,
     Worker, UpdateUserMSI, UpdateUserMSIError, ReconcileNode, Reconcile, Crash
<1> QED BY Zenon, <1>1, <1>2, <1>3

\* Two known identities of one MSI have one client ID and one name.
LEMMA SameMSI ==
  ASSUME OneIdentityPerMSI, NEW i \in IdName, NEW j \in IdName, NEW a, NEW b, Known(i, a), Known(j, b),
         checkIfUserAssignedMSI(a), checkIfUserAssignedMSI(b), a.rid = b.rid
  PROVE  a.cid = b.cid /\ i = j
<1>1. PICK ns1 \in Namespace : \E x \in KnownIDs(ns1, i) : x.type = a.type /\ x.rid = a.rid /\ x.cid = a.cid
  BY Zenon DEF Known
<1>2. PICK ns2 \in Namespace : \E y \in KnownIDs(ns2, j) : y.type = b.type /\ y.rid = b.rid /\ y.cid = b.cid
  BY Zenon DEF Known
<1>3. PICK x \in KnownIDs(ns1, i) : x.type = a.type /\ x.rid = a.rid /\ x.cid = a.cid
  BY Zenon, <1>1
<1>4. PICK y \in KnownIDs(ns2, j) : y.type = b.type /\ y.rid = b.rid /\ y.cid = b.cid
  BY Zenon, <1>2
<1>5. checkIfUserAssignedMSI(x) /\ checkIfUserAssignedMSI(y) /\ x.rid = y.rid
  BY Zenon, <1>3, <1>4 DEF checkIfUserAssignedMSI
<1>6. x.cid = y.cid /\ i = j
  BY <1>5 DEF OneIdentityPerMSI
<1> QED BY Zenon, <1>3, <1>4, <1>6

\* What is desired is known.
LEMMA DesiredKnown ==
  ASSUME TypeOK, KnownInv, NEW n \in Name, Desired[n] # None
  PROVE  Known(IdOf(n), Desired[n].id)
<1>1. Views(pods, bindings, ids)
  BY Zenon DEF TypeOK, Views
<1>2. PICK ns \in Namespace : ids[ns][IdOf(n)] # None /\ Desired[n].id = ids[ns][IdOf(n)]
  BY <1>1, DesiredIdentity DEF Desired
<1>3. IdOf(n) \in IdName
  BY Zenon DEF Name, IdOf
<1>4. Known(IdOf(n), ids[ns][IdOf(n)])
  BY Zenon, <1>2, <1>3 DEF KnownInv
<1> QED BY Zenon, <1>2, <1>4

\* MIC never records an identity under a name that the cluster did not know it by.
LEMMA KnownStep == TypeOK /\ KnownInv /\ [Next]_vars => KnownInv'
<1> SUFFICES ASSUME TypeOK, KnownInv, [Next]_vars PROVE KnownInv'
  BY Zenon
<1>1. ASSUME NEW n \in Name, NEW o, Around(n, o)' PROVE Known(IdOf(n), o.id)
  <2>1. PICK b : (Around(n, b) \/ (b # None /\ b = Desired[n])) /\ o.id = b.id /\ o.node = b.node
    BY <1>1, ObjectsStep DEF From
  <2>2. CASE Around(n, b)
    BY Zenon, <2>1, <2>2 DEF KnownInv
  <2>3. CASE b # None /\ b = Desired[n]
    BY Zenon, <2>1, <2>3, DesiredKnown
  <2> QED BY Zenon, <2>1, <2>2, <2>3
<1>2. ASSUME NEW ns \in Namespace, NEW i \in IdName, ids'[ns][i] # None PROVE Known(i, ids'[ns][i])
  <2>1. CASE ids'[ns][i] = ids[ns][i]
    BY Zenon, <1>2, <2>1 DEF KnownInv
  <2>2. CASE \E x \in IdSpecs[ns][i] : ids'[ns][i] = WithRV(x, edits')
    <3> PICK x \in IdSpecs[ns][i] : ids'[ns][i] = WithRV(x, edits')
      BY Zenon, <2>2
    <3>1. x \in KnownIDs(ns, i) /\ x.type = WithRV(x, edits').type /\ x.rid = WithRV(x, edits').rid /\ x.cid = WithRV(x, edits').cid
      BY Zenon DEF KnownIDs, WithRV
    <3> QED BY Zenon, <3>1 DEF Known
  <2> QED BY Zenon, <1>2, <2>1, <2>2, IdentityEdits
<1> QED BY Zenon, <1>1, <1>2 DEF KnownInv

\* Sync makes such a plan.
LEMMA PlanSync ==
  ASSUME OnePodPerName, OneIdentityPerMSI, TypeOK, KnownInv, Sync
  PROVE  PlanInv'
<1> DEFINE new == createDesiredAssignedIdentityList(pods, bindings, ids)
           refs == NodeRefs(pods, bindings)
           add == getAzureAssignedIDsToCreate(cache, new)
           del == getAzureAssignedIDsToDelete(cache, new)
<1>1. Views(pods, bindings, ids)
  BY Zenon DEF TypeOK, Views
<1>2. cache \in Maps /\ nodes \subseteq Node
  BY Zenon DEF TypeOK, Maps
<1>3. /\ plan' = [t \in Target |-> NewPlan(add, del, new, refs, t)]
      /\ snap' = [want |-> new, nodeRefs |-> refs, nodes |-> nodes]
  BY Zenon DEF Sync
<1>4. snap'.want = new /\ snap'.nodes = nodes
  BY Zenon, <1>3
<1>5. SUFFICES ASSUME NEW t \in Target, NEW n \in Name, plan'[t] # None,
                      new[n] # None, new[n].node \in nodes, Uses(new[n], new[n].id.rid, t),
                      new[n].id.rid \in plan'[t].remove
               PROVE  new[n].id.rid \in plan'[t].add
  BY Zenon, <1>4 DEF PlanInv, Uses
<1>6. /\ plan'[t].remove = getListOfIdsToDelete(del, new, nodes, refs, t)
      /\ plan'[t].add = getListOfIdsToAssign(add, nodes, t)
  BY Zenon, <1>3, <1>5 DEF NewPlan
<1>7. TargetOf(new[n].node) = t /\ checkIfUserAssignedMSI(new[n].id)
  BY Zenon, <1>5 DEF Uses
<1>8. Known(IdOf(n), new[n].id)
  BY Zenon, <1>5, DesiredKnown DEF Desired
<1>9. \A m \in Keys(cache) : checkIfUserAssignedMSI(cache[m].id) /\ cache[m].id.rid = new[n].id.rid
                             => cache[m].id.cid = new[n].id.cid /\ IdOf(m) = IdOf(n)
  <2> SUFFICES ASSUME NEW m \in Keys(cache), checkIfUserAssignedMSI(cache[m].id),
                      cache[m].id.rid = new[n].id.rid
               PROVE  cache[m].id.cid = new[n].id.cid /\ IdOf(m) = IdOf(n)
    BY Zenon
  <2>1. Known(IdOf(m), cache[m].id)
    BY Zenon DEF KnownInv, Around, Keys
  <2>2. IdOf(m) \in IdName /\ IdOf(n) \in IdName
    BY Zenon DEF Keys, Name, IdOf
  <2> QED BY Zenon, <1>7, <1>8, <2>1, <2>2, SameMSI
<1>10. \A p, q \in Pod : PodName[p] = PodName[q] => p = q
  BY Zenon DEF OnePodPerName
<1>11. new[n].id.rid \in getListOfIdsToDelete(del, new, nodes, refs, t)
  BY Zenon, <1>5, <1>6
<1>12. new[n].id.rid \in getListOfIdsToAssign(add, nodes, t)
  BY Zenon, <1>1, <1>2, <1>5, <1>7, <1>9, <1>10, <1>11, InUseNotRemoved
<1> QED BY Zenon, <1>6, <1>12

\* Outside Sync, a worker's plan of a sync cycle is only ever dropped, and the
\* snapshot it was made from stays.
LEMMA PlanDropped ==
  ASSUME TypeOK, [Next]_vars, ~Sync, cycle' = "sync"
  PROVE  /\ cycle = "sync" /\ snap' = snap
         /\ \A t \in Target : plan'[t] # None => plan'[t] = plan[t]
<1>1. CASE Environment
  BY Zenon, <1>1 DEF Environment, SetPod, SetIdentity, SetBinding, RemoveNode, AddNode, Detach, Edit
<1>2. CASE \E n \in Name : TaskStep(n)
  BY Zenon, <1>2 DEF TaskStep, Write, PatchAssigned, PatchUnassigned, RemoveAssignedIdentity, DeleteAfterError
<1>3. CASE \E t \in Target : Worker(t)
  BY Zenon, <1>3 DEF Worker, UpdateUserMSI, UpdateUserMSIError, ReconcileNode, TypeOK
<1>4. CASE Deliver \/ CycleEnd \/ Reconcile \/ Crash \/ UNCHANGED vars
  BY Zenon, <1>4 DEF Deliver, CycleEnd, Reconcile, Crash, vars
<1> QED BY Zenon, <1>1, <1>2, <1>3, <1>4 DEF Next

\* At first MIC knows what the cluster starts with, and has no plans.
LEMMA KnownInit == Init => KnownInv /\ PlanInv
<1> SUFFICES ASSUME Init PROVE KnownInv /\ PlanInv
  BY Zenon
<1>1. \A ns \in Namespace, i \in IdName : ids[ns][i] # None => Known(i, ids[ns][i])
  BY Zenon DEF Init, Known, KnownIDs
<1>2. KnownInv
  BY Zenon, <1>1, NothingAround DEF KnownInv
<1> QED BY Zenon, <1>2 DEF Init, PlanInv

\* PlanInv is inductive.
LEMMA PlanStep ==
  ASSUME OnePodPerName, OneIdentityPerMSI
  PROVE  TypeOK /\ KnownInv /\ PlanInv /\ [Next]_vars => PlanInv'
<1> SUFFICES ASSUME TypeOK, KnownInv, PlanInv, [Next]_vars PROVE PlanInv'
  BY Zenon
<1>1. CASE Sync
  BY Zenon, <1>1, PlanSync
<1>2. CASE ~Sync
  BY Zenon, <1>2, PlanDropped DEF PlanInv, Uses
<1> QED BY Zenon, <1>1, <1>2

\* InUseKept holds of every behaviour, whatever fails and whenever MIC restarts,
\* if pods have different names and an MSI is known under one identity name.
THEOREM InUse == ASSUME OnePodPerName, OneIdentityPerMSI PROVE Spec => InUseKept
<1> DEFINE Kept ==
  \A t \in Target, n \in Name :
    /\ cycle = "sync" /\ plan[t] # None /\ plan'[t] = None
    /\ snap.want[n] # None /\ snap.want[n].node \in snap.nodes
    /\ Uses(snap.want[n], snap.want[n].id.rid, t)
    /\ snap.want[n].id.rid \in cloud[t]
    => snap.want[n].id.rid \in cloud'[t]
<1>1. TypeOK /\ PlanInv /\ [Next]_vars => [Kept]_vars
  <2> SUFFICES ASSUME TypeOK, PlanInv, Next,
                      NEW t \in Target, NEW n \in Name,
                      cycle = "sync", plan[t] # None, plan'[t] = None,
                      snap.want[n] # None, snap.want[n].node \in snap.nodes,
                      Uses(snap.want[n], snap.want[n].id.rid, t),
                      snap.want[n].id.rid \in cloud[t]
               PROVE  snap.want[n].id.rid \in cloud'[t]
    BY Zenon
  <2>0. snap.want[n].id.rid \in plan[t].remove => snap.want[n].id.rid \in plan[t].add
    BY Zenon DEF PlanInv
  <2>1. CASE Environment
    BY Zenon, <2>1 DEF Environment, SetPod, SetIdentity, SetBinding, RemoveNode, AddNode, Detach, Edit
  <2>2. CASE \E m \in Name : TaskStep(m)
    BY Zenon, <2>2 DEF TaskStep, Write, PatchAssigned, PatchUnassigned, RemoveAssignedIdentity, DeleteAfterError
  <2>3. ASSUME NEW u \in Target, Worker(u) PROVE snap.want[n].id.rid \in cloud'[t]
    <3>1. plan' = [plan EXCEPT ![u] = None]
      BY Zenon, <2>3 DEF Worker, UpdateUserMSI, UpdateUserMSIError, ReconcileNode
    <3>2. u = t
      BY Zenon, <3>1 DEF TypeOK
    <3>3. CASE UpdateUserMSI(t)
      BY Zenon, <2>0, <3>3 DEF UpdateUserMSI, TypeOK
    <3>4. CASE UpdateUserMSIError(t)
      <4>1. cloud \in [Target -> SUBSET Rid]
        BY Zenon DEF TypeOK
      <4>2. CASE PartialUpdate(t)
        <5>1. PICK A \in SUBSET plan[t].add, D \in SUBSET (plan[t].remove \ plan[t].add) :
                cloud' = [cloud EXCEPT ![t] = (cloud[t] \ D) \cup A]
          BY Zenon, <4>2 DEF PartialUpdate
        <5>2. cloud'[t] = (cloud[t] \ D) \cup A
          BY Zenon, <4>1, <5>1
        <5> QED BY Zenon, <2>0, <5>1, <5>2
      <4>3. CASE UNCHANGED cloud
        BY Zenon, <4>3
      <4> QED BY Zenon, <3>4, <4>2, <4>3 DEF UpdateUserMSIError, UpdateFails
    <3> QED BY Zenon, <2>3, <3>2, <3>3, <3>4 DEF Worker, ReconcileNode
  <2>4. CASE Deliver \/ Sync \/ CycleEnd \/ Reconcile \/ Crash
    BY Zenon, <2>4 DEF Deliver, Sync, CycleEnd, Reconcile, Crash
  <2> QED BY Zenon, <2>1, <2>2, <2>3, <2>4 DEF Next
<1> QED BY <1>1, TypeCorrect, KnownInit, KnownStep, PlanStep, PTL DEF Spec, InUseKept

-----------------------------------------------------------------------------
\* Fields of objects and tasks.

WithStep(k, s) == [k EXCEPT !.step = s]

\* A change of status changes the status.
LEMMA SetStatusFields ==
  ASSUME NEW o \in AssignedID, NEW s
  PROVE  /\ SetStatus(o, s).status = s
         /\ SetStatus(o, s).id = o.id /\ SetStatus(o, s).node = o.node
         /\ SetStatus(o, s).bind = o.bind /\ SetStatus(o, s).bindrv = o.bindrv
         /\ o.status = s => SetStatus(o, s) = o
BY Zenon DEF SetStatus, AssignedID

\* Writing a status over another one forgets the other one.
LEMMA SetStatusTwice ==
  ASSUME NEW o \in AssignedID, NEW r, NEW s
  PROVE  SetStatus(SetStatus(o, r), s) = SetStatus(o, s)
BY Zenon DEF SetStatus, AssignedID

\* A change of step changes the step.
LEMMA WithStepFields ==
  ASSUME NEW k \in Task, NEW s \in Step
  PROVE  /\ WithStep(k, s) \in Task
         /\ WithStep(k, s).op = k.op /\ WithStep(k, s).obj = k.obj /\ WithStep(k, s).fresh = k.fresh
         /\ WithStep(k, s).step = s
<1>1. WithStep(k, s) \in Task
  BY Zenon DEF WithStep, Task
<1>2. WithStep(k, s).op = k.op /\ WithStep(k, s).obj = k.obj /\ WithStep(k, s).fresh = k.fresh /\ WithStep(k, s).step = s
  BY Zenon DEF WithStep, Task
<1> QED BY Zenon, <1>1, <1>2

-----------------------------------------------------------------------------
\* What is around under a name: of its type, on nodes of the name's pod, and one
\* object per resource version.

\* The elements of a sequence are of its type.
LEMMA ElementType == ASSUME NEW S, NEW q \in Seq(S), NEW k \in 1..Len(q) PROVE q[k] \in S
OBVIOUS

\* Whatever is around is an AzureAssignedIdentity.
LEMMA AroundType ==
  ASSUME TypeOK, NEW n \in Name, NEW o, Around(n, o)
  PROVE  o \in AssignedID
<1>1. CASE \E k \in 1..Len(watch) : watch[k].name = n /\ watch[k].obj = o /\ o # None
  <2>1. \A k \in 1..Len(watch) : watch[k] \in [name : Name, obj : AssignedID \cup {None}]
    BY Zenon, ElementType DEF TypeOK
  <2> QED BY Zenon, <1>1, <2>1
<1>2. CASE o # None /\ (o = api[n] \/ o = cache[n])
  BY <1>2 DEF TypeOK
<1>3. CASE o # None /\ snap # None /\ o = snap.want[n]
  BY Zenon, <1>3 DEF TypeOK, Snap
<1>4. CASE task[n] # None /\ o = task[n].obj
  BY Zenon, <1>4 DEF TypeOK, Task
<1> QED BY Zenon, <1>1, <1>2, <1>3, <1>4 DEF Around

PlaceInv ==
  /\ \A p \in Pod : pods[p] # None => pods[p] \in PodSpecs[p]
  /\ \A n \in Name : \A o : Around(n, o) => \E s \in PodSpecs[PodOf(n)] : s.node # NoNode /\ s.node = o.node

\* A desired object is on a node where its pod may be.
LEMMA DesiredPlace ==
  ASSUME TypeOK, PlaceInv, NEW n \in Name, Desired[n] # None
  PROVE  \E s \in PodSpecs[PodOf(n)] : s.node # NoNode /\ s.node = Desired[n].node
<1>1. Views(pods, bindings, ids)
  BY Zenon DEF TypeOK, Views
<1>2. pods[PodOf(n)] # None /\ pods[PodOf(n)].node # NoNode /\ Desired[n].node = pods[PodOf(n)].node
  BY <1>1, DesiredNode DEF Desired
<1>3. PodOf(n) \in Pod
  BY Zenon DEF Name, PodOf
<1> QED BY Zenon, <1>2, <1>3 DEF PlaceInv

\* Pods are only edited to what their specs allow.
LEMMA PodEdits ==
  ASSUME TypeOK, [Next]_vars, NEW p \in Pod
  PROVE  pods'[p] = pods[p] \/ pods'[p] \in PodSpecs[p] \cup {None}
<1>1. ASSUME NEW q \in Pod, SetPod(q) PROVE pods'[p] = pods[p] \/ pods'[p] \in PodSpecs[p] \cup {None}
  <2>1. PICK s \in PodSpecs[q] \cup {None} : pods' = [pods EXCEPT ![q] = s]
    BY Zenon, <1>1 DEF SetPod
  <2> QED BY Zenon, <2>1 DEF TypeOK
<1>2. UNCHANGED pods \/ \E q \in Pod : SetPod(q)
  BY Zenon DEF Next, vars, env, Environment, SetIdentity, SetBinding, RemoveNode, AddNode, Detach, Deliver, Sync, CycleEnd,
     TaskStep, Write, PatchAssigned, PatchUnassigned, RemoveAssignedIdentity, DeleteAfterError,
     Worker, UpdateUserMSI, UpdateUserMSIError, ReconcileNode, Reconcile, Crash
<1> QED BY Zenon, <1>1, <1>2

\* MIC places nothing where its pod may not be.
LEMMA PlaceStep == TypeOK /\ PlaceInv /\ [Next]_vars => PlaceInv'
<1> SUFFICES ASSUME TypeOK, PlaceInv, [Next]_vars PROVE PlaceInv'
  BY Zenon
<1>1. ASSUME NEW n \in Name, NEW o, Around(n, o)'
      PROVE  \E s \in PodSpecs[PodOf(n)] : s.node # NoNode /\ s.node = o.node
  <2>1. PICK b : (Around(n, b) \/ (b # None /\ b = Desired[n])) /\ o.id = b.id /\ o.node = b.node
    BY <1>1, ObjectsStep DEF From
  <2>2. CASE Around(n, b)
    <3>1. \E s \in PodSpecs[PodOf(n)] : s.node # NoNode /\ s.node = b.node
      BY Zenon, <2>2 DEF PlaceInv
    <3> QED BY Zenon, <2>1, <3>1
  <2>3. CASE b # None /\ b = Desired[n]
    BY Zenon, <2>1, <2>3, DesiredPlace
  <2> QED BY Zenon, <2>1, <2>2, <2>3
<1>2. \A p \in Pod : pods'[p] # None => pods'[p] \in PodSpecs[p]
  BY Zenon, PodEdits DEF PlaceInv
<1> QED BY Zenon, <1>1, <1>2 DEF PlaceInv

\* The pods of one name are on one VM/VMSS, so are the objects.
LEMMA SamePlace ==
  ASSUME OneTargetPerPod, PlaceInv, NEW n \in Name, NEW a, NEW b, Around(n, a), Around(n, b)
  PROVE  TargetOf(a.node) = TargetOf(b.node)
<1>1. PodOf(n) \in Pod
  BY Zenon DEF Name, PodOf
<1>2. PICK r \in PodSpecs[PodOf(n)] : r.node # NoNode /\ r.node = a.node
  BY Zenon DEF PlaceInv
<1>3. PICK s \in PodSpecs[PodOf(n)] : s.node # NoNode /\ s.node = b.node
  BY Zenon DEF PlaceInv
<1>4. TargetOf(r.node) = TargetOf(s.node)
  BY Zenon, <1>1, <1>2, <1>3 DEF OneTargetPerPod
<1> QED BY Zenon, <1>2, <1>3, <1>4

\* id is the identity that is listed under name i, or recorded for a pod.
Carries(i, id) ==
  \/ \E ns \in Namespace : ids[ns][i] # None /\ ids[ns][i] = id
  \/ \E n \in Name : IdOf(n) = i /\ \E o : Around(n, o) /\ o.id = id

VersionInv ==
  \A i \in IdName :
    /\ \A a, b : Carries(i, a) /\ Carries(i, b) /\ a.rv = b.rv => a.type = b.type /\ a.rid = b.rid
    /\ \A a : Carries(i, a) => a.rv \notin (edits + 1)..MaxEdits

\* A desired object carries a listed identity.
LEMMA DesiredCarried ==
  ASSUME TypeOK, NEW n \in Name, Desired[n] # None
  PROVE  Carries(IdOf(n), Desired[n].id)
<1>1. Views(pods, bindings, ids)
  BY Zenon DEF TypeOK, Views
<1>2. PICK ns \in Namespace : ids[ns][IdOf(n)] # None /\ Desired[n].id = ids[ns][IdOf(n)]
  BY <1>1, DesiredIdentity DEF Desired
<1> QED BY Zenon, <1>2 DEF Carries

\* A step carries identities over, and lists one that an edit has just numbered.
LEMMA CarriedStep ==
  ASSUME TypeOK, [Next]_vars, NEW i \in IdName, NEW a, Carries(i, a)'
  PROVE  \/ Carries(i, a)
         \/ /\ edits' = edits + 1 /\ edits < MaxEdits
            /\ a.rv = edits'
            /\ \E ns \in Namespace : ids'[ns][i] = a /\ \A qs \in Namespace \ {ns} : ids'[qs][i] = ids[qs][i]
<1>1. ASSUME NEW n \in Name, IdOf(n) = i, NEW o, Around(n, o)', o.id = a PROVE Carries(i, a)
  <2>1. PICK b : (Around(n, b) \/ (b # None /\ b = Desired[n])) /\ o.id = b.id /\ o.node = b.node
    BY <1>1, ObjectsStep DEF From
  <2>2. CASE Around(n, b)
    BY Zenon, <1>1, <2>1, <2>2 DEF Carries
  <2>3. CASE b # None /\ b = Desired[n]
    BY Zenon, <1>1, <2>1, <2>3, DesiredCarried
  <2> QED BY Zenon, <2>1, <2>2, <2>3
<1>2. CASE \E n \in Name : IdOf(n) = i /\ \E o : Around(n, o)' /\ o.id = a
  BY Zenon, <1>1, <1>2
<1>3. CASE \E ns \in Namespace : ids'[ns][i] # None /\ ids'[ns][i] = a
  <2> PICK ns \in Namespace : ids'[ns][i] # None /\ ids'[ns][i] = a
    BY Zenon, <1>3
  <2>1. CASE ids'[ns][i] = ids[ns][i]
    BY Zenon, <2>1 DEF Carries
  <2>2. CASE /\ edits' = edits + 1 /\ edits < MaxEdits
             /\ \E x \in IdSpecs[ns][i] : ids'[ns][i] = WithRV(x, edits')
             /\ \A qs \in Namespace \ {ns} : ids'[qs][i] = ids[qs][i]
    <3>1. a.rv = edits'
      BY <2>2 DEF WithRV
    <3> QED BY Zenon, <2>2, <3>1
  <2> QED BY Zenon, <2>1, <2>2, IdentityEdits
<1> QED BY Zenon, <1>2, <1>3 DEF Carries

\* The edits are counted one by one.
LEMMA EditCount == ASSUME [Next]_vars PROVE edits' = edits \/ edits' = edits + 1
<1>1. CASE Environment
  BY Zenon, <1>1 DEF Environment, SetPod, SetIdentity, SetBinding, RemoveNode, AddNode, Detach, Edit
<1>2. CASE ~Environment
  BY Zenon, <1>2 DEF Next, vars, env, Deliver, Sync, CycleEnd,
     TaskStep, Write, PatchAssigned, PatchUnassigned, RemoveAssignedIdentity, DeleteAfterError,
     Worker, UpdateUserMSI, UpdateUserMSIError, ReconcileNode, Reconcile, Crash
<1> QED BY Zenon, <1>1, <1>2

\* A resource version is given out once.
LEMMA VersionStep == TypeOK /\ VersionInv /\ [Next]_vars => VersionInv'
<1> SUFFICES ASSUME TypeOK, VersionInv, [Next]_vars, NEW i \in IdName
             PROVE  /\ \A a, b : Carries(i, a)' /\ Carries(i, b)' /\ a.rv = b.rv => a.type = b.type /\ a.rid = b.rid
                    /\ \A a : Carries(i, a)' => a.rv \notin (edits' + 1)..MaxEdits
  BY Zenon DEF VersionInv
<1>0. edits \in Nat /\ MaxEdits \in Nat
  BY Zenon, EnvironmentAssumption DEF EnvironmentAssumption, TypeOK
<1> DEFINE Edited(a) == /\ edits' = edits + 1 /\ edits < MaxEdits
                        /\ a.rv = edits'
                        /\ \E ns \in Namespace : ids'[ns][i] = a /\ \A qs \in Namespace \ {ns} : ids'[qs][i] = ids[qs][i]
<1>1. \A a : Carries(i, a)' => Carries(i, a) \/ Edited(a)
  BY Zenon, CarriedStep
<1>2. \A a : Carries(i, a) => a.rv \notin (edits + 1)..MaxEdits
  BY Zenon DEF VersionInv
<1>3. \A a, b : Carries(i, a) /\ Edited(b) => a.rv # b.rv
  <2>1. \A b : Edited(b) => b.rv \in (edits + 1)..MaxEdits
    BY <1>0
  <2> QED BY Zenon, <1>2, <2>1
<1>4. ASSUME NEW a, NEW b, Edited(a), Edited(b), Carries(i, b)', b.rv = a.rv PROVE a = b
  <2>1. PICK ns \in Namespace : ids'[ns][i] = a /\ \A qs \in Namespace \ {ns} : ids'[qs][i] = ids[qs][i]
    BY Zenon, <1>4
  <2>2. PICK ms \in Namespace : ids'[ms][i] = b /\ \A qs \in Namespace \ {ms} : ids'[qs][i] = ids[qs][i]
    BY Zenon, <1>4
  <2>3. CASE ms = ns
    BY Zenon, <2>1, <2>2, <2>3
  <2>4. CASE ms # ns
    <3>1. ids[ms][i] = b /\ ids[ns][i] = a
      BY Zenon, <2>1, <2>2, <2>4
    <3>2. CASE b # None
      <4>1. Carries(i, b)
        BY Zenon, <3>1, <3>2 DEF Carries
      <4> QED BY Zenon, <1>3, <1>4, <4>1
    <3>3. CASE a # None
      <4>1. Carries(i, a)
        BY Zenon, <3>1, <3>3 DEF Carries
      <4> QED BY Zenon, <1>3, <1>4, <4>1
    <3> QED BY Zenon, <3>2, <3>3
  <2> QED BY Zenon, <2>3, <2>4
<1>5. ASSUME NEW a, NEW b, Carries(i, a)', Carries(i, b)', a.rv = b.rv PROVE a.type = b.type /\ a.rid = b.rid
  <2>1. CASE Carries(i, a) /\ Carries(i, b)
    BY Zenon, <1>5, <2>1 DEF VersionInv
  <2>2. CASE Edited(a) /\ Edited(b)
    BY Zenon, <1>4, <1>5, <2>2
  <2> QED BY <1>1, <1>3, <1>5, <2>1, <2>2
<1>6. ASSUME NEW a, Carries(i, a)' PROVE a.rv \notin (edits' + 1)..MaxEdits
  <2>1. CASE Edited(a)
    BY <1>0, <2>1
  <2>2. CASE Carries(i, a)
    <3>1. edits' = edits \/ edits' = edits + 1
      BY Zenon, EditCount
    <3> QED BY <1>0, <1>2, <2>2, <3>1
  <2> QED BY Zenon, <1>1, <1>6, <2>1, <2>2
<1> QED BY Zenon, <1>5, <1>6

\* At first every identity is one that the cluster starts with.
LEMMA VersionInit == ASSUME DistinctVersions, Init PROVE VersionInv
<1>1. edits = 0
  BY Zenon DEF Init
<1>2. \A i \in IdName : \A a : Carries(i, a) => \E ns \in Namespace : ids[ns][i] # None /\ ids[ns][i] = a
  BY Zenon, NothingAround DEF Carries
<1>3. ids \in InitIds
  BY Zenon DEF Init
<1>4. ASSUME NEW i \in IdName, NEW a, NEW b, Carries(i, a), Carries(i, b)
      PROVE  (a.rv = b.rv => a.type = b.type /\ a.rid = b.rid) /\ a.rv \notin 1..MaxEdits
  <2>1. PICK ns \in Namespace : ids[ns][i] # None /\ ids[ns][i] = a
    BY Zenon, <1>2, <1>4
  <2>2. PICK ms \in Namespace : ids[ms][i] # None /\ ids[ms][i] = b
    BY Zenon, <1>2, <1>4
  <2> QED BY Zenon, <1>3, <2>1, <2>2 DEF DistinctVersions
<1>5. edits + 1 = 1
  BY <1>1
<1> QED BY Zenon, <1>4, <1>5 DEF VersionInv

\* An object that matches the desired one carries the same identity.
LEMMA SameVersion ==
  ASSUME TypeOK, VersionInv, NEW n \in Name, NEW a, NEW b, Around(n, a), Around(n, b), matchAssignedID(a, b)
  PROVE  a.node = b.node /\ a.id.type = b.id.type /\ a.id.rid = b.id.rid
<1>1. IdOf(n) \in IdName
  BY Zenon DEF Name, IdOf
<1>2. Carries(IdOf(n), a.id) /\ Carries(IdOf(n), b.id)
  BY Zenon DEF Carries
<1>3. a.id.rv = b.id.rv /\ a.node = b.node
  BY Zenon DEF matchAssignedID
<1>4. \A x, y : Carries(IdOf(n), x) /\ Carries(IdOf(n), y) /\ x.rv = y.rv => x.type = y.type /\ x.rid = y.rid
  BY Zenon, <1>1 DEF VersionInv
<1> QED BY Zenon, <1>2, <1>3, <1>4

-----------------------------------------------------------------------------
\* The informer follows the API server, and has caught up whenever a cycle starts.

\* The last event for n on the watch, or the cached object if there is none, is
\* the stored one.
Follows(n) ==
  \/ Current(n) /\ cache[n] = api[n]
  \/ \E k \in 1..Len(watch) : /\ watch[k].name = n /\ watch[k].obj = api[n]
                              /\ \A j \in 1..Len(watch) : j > k => watch[j].name # n

Settled ==
  /\ \A n \in Name : Follows(n)
  /\ cycle # "sync" => watch = <<>> /\ \A n \in Name : task[n] = None
  /\ cycle = "idle" => \A t \in Target : plan[t] = None

Rest == Settled /\ nodes = Node

\* A write puts its event last.
LEMMA FollowsPut ==
  ASSUME TypeOK, NEW n \in Name, NEW o, Put(n, o), \A m \in Name : Follows(m)
  PROVE  \A m \in Name : Follows(m)'
<1>1. CASE UNCHANGED store
  BY <1>1 DEF store, Follows, Current
<1>2. CASE /\ api' = [api EXCEPT ![n] = o]
           /\ watch' = Append(watch, [name |-> n, obj |-> o])
           /\ UNCHANGED cache
  <2>0. watch \in Seq([name : Name, obj : AssignedID \cup {None}])
    BY Zenon DEF TypeOK
  <2>1. /\ Len(watch') = Len(watch) + 1 /\ Len(watch) \in Nat
        /\ \A k \in 1..Len(watch) : watch'[k] = watch[k]
        /\ watch'[Len(watch) + 1] = [name |-> n, obj |-> o]
    BY Zenon, <1>2, <2>0, AppendElements
  <2>2. api'[n] = o /\ \A m \in Name \ {n} : api'[m] = api[m] /\ cache'[m] = cache[m]
    BY Zenon, <1>2 DEF TypeOK
  <2>3. Follows(n)'
    <3>1. /\ Len(watch') = Len(watch) + 1 /\ Len(watch) \in Nat
          /\ watch'[Len(watch) + 1].name = n /\ watch'[Len(watch) + 1].obj = api'[n]
      BY <2>1, <2>2
    <3>2. Len(watch) + 1 \in 1..Len(watch') /\ \A j \in 1..Len(watch') : ~(j > Len(watch) + 1)
      BY <3>1
    <3> QED BY Zenon, <3>1, <3>2 DEF Follows
  <2>4. ASSUME NEW m \in Name \ {n} PROVE Follows(m)'
    <3>0. \A j \in 1..Len(watch') : j \in 1..Len(watch) \/ j = Len(watch) + 1
      <4>1. Len(watch') = Len(watch) + 1 /\ Len(watch) \in Nat
        BY Zenon, <2>1
      <4> QED BY <4>1
    <3>1. \A j \in 1..Len(watch') : (j \in 1..Len(watch) /\ watch'[j] = watch[j]) \/ watch'[j].name # m
      BY <2>1, <3>0
    <3>2. CASE Current(m) /\ cache[m] = api[m]
      BY Zenon, <2>2, <3>1, <3>2 DEF Follows, Current
    <3>3. CASE \E k \in 1..Len(watch) : /\ watch[k].name = m /\ watch[k].obj = api[m]
                                        /\ \A j \in 1..Len(watch) : j > k => watch[j].name # m
      <4> PICK k \in 1..Len(watch) : /\ watch[k].name = m /\ watch[k].obj = api[m]
                                     /\ \A j \in 1..Len(watch) : j > k => watch[j].name # m
        BY Zenon, <3>3
      <4>1. k \in 1..Len(watch')
        BY <2>1
      <4>2. watch'[k].name = m /\ watch'[k].obj = api'[m]
        BY Zenon, <2>1, <2>2
      <4>3. \A j \in 1..Len(watch') : j > k => watch'[j].name # m
        BY Zenon, <3>1
      <4> QED BY Zenon, <4>1, <4>2, <4>3 DEF Follows
    <3> QED BY Zenon, <3>2, <3>3 DEF Follows
  <2> QED BY Zenon, <2>3, <2>4
<1> QED BY Zenon, <1>1, <1>2 DEF Put

\* The informer takes the first event.
LEMMA FollowsDeliver ==
  ASSUME TypeOK, Deliver, \A n \in Name : Follows(n)
  PROVE  \A n \in Name : Follows(n)'
<1>1. /\ Len(watch) \in Nat \ {0} /\ Head(watch) = watch[1]
      /\ Len(watch') = Len(watch) - 1 /\ \A k \in 1..Len(watch') : watch'[k] = watch[k+1]
  BY DEF Deliver, TypeOK
<1>2. \A n \in Name : cache'[n] = IF n = watch[1].name THEN watch[1].obj ELSE cache[n]
  BY Zenon, <1>1 DEF Deliver, TypeOK
<1>3. api' = api
  BY Zenon DEF Deliver
<1>4. \A k \in 1..Len(watch') : k + 1 \in 1..Len(watch) /\ watch'[k] = watch[k+1]
  BY <1>1
<1>5. 1 \in 1..Len(watch)
  BY <1>1
<1> SUFFICES ASSUME NEW n \in Name PROVE Follows(n)'
  BY Zenon
<1>6. CASE Current(n) /\ cache[n] = api[n]
  <2>1. watch[1].name # n
    BY Zenon, <1>5, <1>6 DEF Current
  <2>2. \A k \in 1..Len(watch') : watch'[k].name # n
    BY Zenon, <1>4, <1>6 DEF Current
  <2> QED BY Zenon, <1>2, <1>3, <1>6, <2>1, <2>2 DEF Follows, Current
<1>7. CASE \E k \in 1..Len(watch) : /\ watch[k].name = n /\ watch[k].obj = api[n]
                                    /\ \A j \in 1..Len(watch) : j > k => watch[j].name # n
  <2> PICK k \in 1..Len(watch) : /\ watch[k].name = n /\ watch[k].obj = api[n]
                                 /\ \A j \in 1..Len(watch) : j > k => watch[j].name # n
    BY Zenon, <1>7
  <2>1. CASE k = 1
    <3>1. \A j \in 1..Len(watch') : j + 1 > 1
      BY <1>1
    <3>2. \A j \in 1..Len(watch') : watch'[j].name # n
      BY Zenon, <1>4, <2>1, <3>1
    <3>3. cache'[n] = api[n]
      BY Zenon, <1>2, <2>1
    <3> QED BY Zenon, <1>3, <3>2, <3>3 DEF Follows, Current
  <2>2. CASE k # 1
    <3>1. k - 1 \in 1..Len(watch') /\ (k - 1) + 1 = k
      BY <1>1, <2>2
    <3>2. \A j \in 1..Len(watch') : j > k - 1 => j + 1 > k
      BY <1>1
    <3>3. watch'[k-1].name = n /\ watch'[k-1].obj = api'[n]
      <4>1. watch'[k-1] = watch[(k-1)+1]
        BY Zenon, <1>4, <3>1
      <4>2. watch'[k-1] = watch[k]
        BY Zenon, <3>1, <4>1
      <4> QED BY Zenon, <1>3, <4>2
    <3>4. \A j \in 1..Len(watch') : j > k - 1 => watch'[j].name # n
      BY Zenon, <1>4, <3>2
    <3> QED BY Zenon, <3>1, <3>3, <3>4 DEF Follows
  <2> QED BY Zenon, <2>1, <2>2
<1> QED BY Zenon, <1>6, <1>7 DEF Follows

\* What a worker's call for one object leaves alone, and that it writes to the API
\* server as Put does or not at all.
LEMMA TaskStepFrame ==
  ASSUME NEW n \in Name, TaskStep(n)
  PROVE  /\ task[n] # None
         /\ UNCHANGED <<pods, bindings, ids, nodes, edits, cloud, cycle, snap, plan>>
         /\ UNCHANGED store \/ \E o : Put(n, o)
<1>1. task[n] # None
  BY Zenon DEF TaskStep, Write, PatchAssigned, PatchUnassigned, RemoveAssignedIdentity, DeleteAfterError
<1>2. UNCHANGED <<pods, bindings, ids, nodes, edits, cloud, cycle, snap, plan>>
  BY Zenon DEF TaskStep, Write, PatchAssigned, PatchUnassigned, RemoveAssignedIdentity, DeleteAfterError, env
<1>3. UNCHANGED store \/ \E o : Put(n, o)
  BY Zenon DEF TaskStep, Write, PatchAssigned, PatchUnassigned, RemoveAssignedIdentity, DeleteAfterError
<1> QED BY Zenon, <1>1, <1>2, <1>3

\* An edit of the environment that is not about nodes, the informer, or nothing:
\* what MIC holds and has written stays, and identities leave the cloud at most by
\* being detached.
Quiet ==
  /\ UNCHANGED <<api, nodes, cycle, snap, plan, task>>
  /\ \/ UNCHANGED cloud
     \/ "detach" \in Edits /\ \A t \in Target : cloud'[t] \subseteq cloud[t]

\* With nodes that stay and no restarts, the steps are these.
LEMMA Steps ==
  ASSUME TypeOK, Steady, [Next]_vars
  PROVE  \/ Quiet
         \/ Sync \/ CycleEnd \/ Reconcile
         \/ \E n \in Name : TaskStep(n)
         \/ \E t \in Target : Worker(t)
<1>0. "node" \notin Edits /\ "crash" \notin Faults
  BY Zenon DEF Steady
<1>1. CASE Environment
  <2>1. UNCHANGED <<api, cycle, snap, plan, task>>
    BY Zenon, <1>1 DEF Environment, SetPod, SetIdentity, SetBinding, RemoveNode, AddNode, Detach, Edit, store
  <2>2. UNCHANGED <<nodes, cloud>> \/ \E t \in Target : Detach(t)
    BY Zenon, <1>0, <1>1 DEF Environment, SetPod, SetIdentity, SetBinding, RemoveNode, AddNode, Edit
  <2>3. ASSUME NEW t \in Target, Detach(t)
        PROVE  UNCHANGED nodes /\ "detach" \in Edits /\ \A u \in Target : cloud'[u] \subseteq cloud[u]
    <3>1. PICK x : cloud' = [cloud EXCEPT ![t] = @ \ {x}]
      BY Zenon, <2>3 DEF Detach
    <3>2. \A u \in Target : cloud'[u] \subseteq cloud[u]
      BY Zenon, <3>1 DEF TypeOK
    <3> QED BY Zenon, <2>3, <3>2 DEF Detach, Edit
  <2> QED BY Zenon, <2>1, <2>2, <2>3 DEF Quiet
<1>2. CASE Deliver \/ UNCHANGED vars
  BY Zenon, <1>2 DEF Deliver, vars, env, Quiet
<1>3. ~Crash
  BY Zenon, <1>0 DEF Crash, Fault
<1> QED BY Zenon, <1>1, <1>2, <1>3 DEF Next

\* Outside a sync cycle nothing is written, so there is nothing to catch up with: a
\* cycle ends with what it wrote in the cache, and a new leader lists afresh.
LEMMA SettledStep == ASSUME Settles, TypeOK, Settled, [Next]_vars PROVE Settled'
<1>1. ASSUME UNCHANGED <<api, cache, watch>> PROVE \A n \in Name : Follows(n)'
  <2> SUFFICES ASSUME NEW n \in Name PROVE Follows(n)'
    BY Zenon
  <2>1. Follows(n)
    BY Zenon DEF Settled
  <2>2. Current(n) => Current(n)'
    BY Zenon, <1>1 DEF Current
  <2> QED BY Zenon, <1>1, <2>1, <2>2 DEF Follows
<1>2. ASSUME NEW n \in Name, TaskStep(n) PROVE Settled'
  <2>1. cycle = "sync" /\ cycle' = cycle
    BY Zenon, <1>2, TaskStepFrame DEF Settled
  <2>2. \A m \in Name : Follows(m)'
    <3>1. CASE UNCHANGED store
      BY Zenon, <1>1, <3>1 DEF store
    <3>2. CASE \E o : Put(n, o)
      BY Zenon, <3>2, FollowsPut DEF Settled
    <3> QED BY Zenon, <1>2, <3>1, <3>2, TaskStepFrame
  <2> QED BY Zenon, <2>1, <2>2 DEF Settled
<1>3. CASE Environment \/ UNCHANGED vars
  <2>1. UNCHANGED <<api, cache, watch, cycle, plan, task>>
    BY Zenon, <1>3 DEF Environment, SetPod, SetIdentity, SetBinding, RemoveNode, AddNode, Detach, Edit, store, vars, env
  <2> QED BY Zenon, <1>1, <2>1 DEF Settled
<1>4. CASE Deliver
  <2>1. cycle = "sync" /\ cycle' = cycle
    BY Zenon, <1>4 DEF Deliver, Settled
  <2>2. \A m \in Name : Follows(m)'
    BY Zenon, <1>4, FollowsDeliver DEF Settled
  <2> QED BY Zenon, <2>1, <2>2 DEF Settled
<1>5. CASE Sync
  <2>1. UNCHANGED <<api, cache, watch>> /\ cycle' = "sync"
    BY Zenon, <1>5 DEF Sync, store
  <2> QED BY Zenon, <1>1, <2>1 DEF Settled
<1>6. CASE CycleEnd
  <2>1. UNCHANGED <<api, cache, watch>> /\ cycle' = "idle" /\ watch' = <<>>
    BY Zenon, <1>6 DEF CycleEnd, store
  <2>2. (\A n \in Name : task'[n] = None) /\ \A t \in Target : plan'[t] = None
    BY Zenon, <1>6 DEF CycleEnd, NoTasks, NoPlans
  <2> QED BY Zenon, <1>1, <2>1, <2>2 DEF Settled
<1>7. CASE Reconcile
  <2>1. UNCHANGED <<api, cache, watch, task>> /\ cycle' = "reconcile" /\ cycle = "idle"
    BY Zenon, <1>7 DEF Reconcile, store
  <2> QED BY Zenon, <1>1, <2>1 DEF Settled
<1>8. ASSUME NEW t \in Target, Worker(t) PROVE Settled'
  <2>1. UNCHANGED <<api, cache, watch, cycle>> /\ cycle # "idle"
    BY Zenon, <1>8 DEF Worker, UpdateUserMSI, UpdateUserMSIError, ReconcileNode, store
  <2>2. cycle # "sync" => UNCHANGED task
    BY Zenon, <1>8 DEF Worker, UpdateUserMSI, UpdateUserMSIError, ReconcileNode
  <2> QED BY Zenon, <1>1, <2>1, <2>2 DEF Settled
<1>9. CASE Crash
  <2>1. cache' = api /\ api' = api /\ watch' = <<>> /\ cycle' = "idle"
    BY Zenon, <1>9 DEF Crash
  <2>2. (\A n \in Name : task'[n] = None) /\ \A t \in Target : plan'[t] = None
    BY Zenon, <1>9 DEF Crash, NoTasks, NoPlans
  <2>3. \A n \in Name : Follows(n)'
    BY <2>1 DEF Follows, Current
  <2> QED BY Zenon, <2>1, <2>2, <2>3 DEF Settled
<1> QED BY Zenon, <1>2, <1>3, <1>4, <1>5, <1>6, <1>7, <1>8, <1>9 DEF Next

\* With nodes that stay the cluster is as it was, too.
LEMMA RestStep == ASSUME Steady, TypeOK, Rest, [Next]_vars PROVE Rest'
<1>1. Settled'
  BY Zenon, SettledStep DEF Steady, Rest
<1>2. UNCHANGED nodes
  <2>1. CASE \E n \in Name : TaskStep(n)
    BY Zenon, <2>1, TaskStepFrame
  <2>2. CASE \E t \in Target : Worker(t)
    BY Zenon, <2>2 DEF Worker, UpdateUserMSI, UpdateUserMSIError, ReconcileNode, env
  <2> QED BY Zenon, <2>1, <2>2, Steps DEF Quiet, Sync, CycleEnd, Reconcile, env
<1> QED BY Zenon, <1>1, <1>2 DEF Rest

\* MIC starts with nothing to catch up with.
LEMMA RestInit == ASSUME Init PROVE Rest
<1>1. watch = <<>> /\ cache = api /\ nodes = Node /\ cycle = "idle"
  BY Zenon DEF Init
<1>2. \A n \in Name : task[n] = None
  BY Zenon DEF Init, NoTasks
<1>3. \A t \in Target : plan[t] = None
  BY Zenon DEF Init, NoPlans
<1>4. \A n \in Name : Follows(n)
  BY <1>1 DEF Follows, Current
<1> QED BY Zenon, <1>1, <1>2, <1>3, <1>4 DEF Rest, Settled

\* A cycle starts from what is stored.
LEMMA CaughtUp ==
  ASSUME TypeOK, Settled, cycle = "idle"
  PROVE  cache = api /\ \A n \in Name : Current(n)
<1>1. watch = <<>>
  BY Zenon DEF Settled
<1>2. \A n \in Name : Current(n) /\ cache[n] = api[n]
  BY <1>1 DEF Settled, Follows, Current
<1>3. cache = api
  BY <1>2 DEF TypeOK
<1> QED BY Zenon, <1>2, <1>3

-----------------------------------------------------------------------------
\* The reconciliation only ever adds identities that objects say are Assigned.
ReconcileInv ==
  cycle = "reconcile" =>
    \A t \in Target : plan[t] # None =>
      /\ plan[t].remove = {}
      /\ \A x \in plan[t].add : \E m \in Name : Uses(api[m], x, t) /\ api[m].status = "Assigned"

\* ReconcileInv is inductive: nothing is written while a reconciliation runs.
LEMMA ReconcileStep == ASSUME TypeOK, Settled, ReconcileInv, [Next]_vars PROVE ReconcileInv'
<1>1. CASE Environment \/ Deliver \/ UNCHANGED vars
  <2>1. UNCHANGED <<api, cycle, plan>>
    BY Zenon, <1>1 DEF Environment, SetPod, SetIdentity, SetBinding, RemoveNode, AddNode, Detach, Edit, Deliver, store, vars
  <2> QED BY <2>1 DEF ReconcileInv, Uses
<1>2. CASE Sync \/ CycleEnd \/ Crash
  BY Zenon, <1>2 DEF Sync, CycleEnd, Crash, ReconcileInv
<1>3. CASE Reconcile
  <2>1. cache = api /\ api' = api
    BY Zenon, <1>3, CaughtUp DEF Reconcile, store
  <2> SUFFICES ASSUME NEW t \in Target, plan'[t] # None
               PROVE  /\ plan'[t].remove = {}
                      /\ \A x \in plan'[t].add : \E m \in Name : Uses(api'[m], x, t) /\ api'[m].status = "Assigned"
    BY Zenon DEF ReconcileInv
  <2>2. plan'[t] = [add |-> generateIdentityAssignmentDiff(t), remove |-> {}]
    BY Zenon, <1>3 DEF Reconcile
  <2>3. \A x \in generateIdentityAssignmentDiff(t) : \E m \in Name : Uses(api[m], x, t) /\ api[m].status = "Assigned"
    BY Zenon, <2>1 DEF generateIdentityAssignmentDiff, generateIdentityAssignmentState, Uses, Keys
  <2>4. plan'[t].remove = {} /\ plan'[t].add = generateIdentityAssignmentDiff(t)
    BY <2>2
  <2> QED BY Zenon, <2>1, <2>3, <2>4
<1>4. CASE \E n \in Name : TaskStep(n)
  BY Zenon, <1>4, TaskStepFrame DEF Settled, ReconcileInv
<1>5. CASE \E t \in Target : Worker(t)
  <2> PICK t \in Target : Worker(t)
    BY Zenon, <1>5
  <2>1. plan' = [plan EXCEPT ![t] = None] /\ UNCHANGED <<api, cycle>>
    BY Zenon DEF Worker, UpdateUserMSI, UpdateUserMSIError, ReconcileNode, store
  <2> QED BY <2>1 DEF ReconcileInv, Uses, TypeOK
<1> QED BY Zenon, <1>1, <1>2, <1>3, <1>4, <1>5 DEF Next

\* What a call of the reconciliation may do.
LEMMA ReconcileEffect ==
  ASSUME TypeOK, Settled, ReconcileInv, NEW t \in Target, Worker(t), cycle # "sync"
  PROVE  /\ cycle = "reconcile" /\ UNCHANGED <<api, nodes, cycle, snap, task>> /\ \A n \in Name : task[n] = None
         /\ \A u \in Target : cloud[u] \subseteq cloud'[u]
         /\ \A u \in Target : \A x : x \in cloud'[u] \ cloud[u] => \E m \in Name : Uses(api[m], x, u) /\ api[m].status = "Assigned"
<1>1. ReconcileNode(t)
  BY Zenon DEF Worker, UpdateUserMSI, UpdateUserMSIError
<1>2. cycle = "reconcile" /\ plan[t] # None /\ UNCHANGED <<api, nodes, cycle, snap, task>> /\ \A n \in Name : task[n] = None
  BY Zenon, <1>1 DEF ReconcileNode, env, store, Settled
<1>3. plan[t].remove = {} /\ \A x \in plan[t].add : \E m \in Name : Uses(api[m], x, t) /\ api[m].status = "Assigned"
  BY Zenon, <1>2 DEF ReconcileInv
<1>4. \E A \in SUBSET plan[t].add : cloud' = [cloud EXCEPT ![t] = cloud[t] \cup A]
  <2>1. CASE cloud' = [cloud EXCEPT ![t] = cloud[t] \cup plan[t].add]
    BY Zenon, <2>1
  <2>2. CASE PartialUpdate(t)
    <3>1. PICK A \in SUBSET plan[t].add, D \in SUBSET (plan[t].remove \ plan[t].add) :
            cloud' = [cloud EXCEPT ![t] = (cloud[t] \ D) \cup A]
      BY Zenon, <2>2 DEF PartialUpdate
    <3>2. D = {}
      BY Zenon, <1>3
    <3>3. (cloud[t] \ D) \cup A = cloud[t] \cup A
      BY Zenon, <3>2
    <3> QED BY Zenon, <3>1, <3>3
  <2>3. CASE UNCHANGED cloud
    <3>1. cloud = [cloud EXCEPT ![t] = cloud[t] \cup {}]
      BY DEF TypeOK
    <3> QED BY Zenon, <2>3, <3>1
  <2> QED BY Zenon, <1>1, <2>1, <2>2, <2>3 DEF ReconcileNode, UpdateFails
<1>5. PICK A \in SUBSET plan[t].add : cloud' = [cloud EXCEPT ![t] = cloud[t] \cup A]
  BY Zenon, <1>4
<1>6. cloud'[t] = cloud[t] \cup A /\ \A u \in Target \ {t} : cloud'[u] = cloud[u]
  BY Zenon, <1>5 DEF TypeOK
<1>7. \A u \in Target : cloud[u] \subseteq cloud'[u]
  BY Zenon, <1>6
<1>8. ASSUME NEW u \in Target, NEW x, x \in cloud'[u] \ cloud[u]
      PROVE  \E m \in Name : Uses(api[m], x, u) /\ api[m].status = "Assigned"
  <2>1. u = t /\ x \in plan[t].add
    BY Zenon, <1>5, <1>6, <1>8
  <2> QED BY Zenon, <1>3, <2>1
<1> QED BY Zenon, <1>2, <1>7, <1>8
=============================================================================
