------------------------- MODULE MICRecords_proofs -------------------------
(***************************************************************************)
(* Theorems about what MIC's records say of the cloud: every identity that *)
(* MIC put on a VM/VMSS is on record, and an AzureAssignedIdentity is      *)
(* removed only once its identity is off.  Like BackedAlways they hold for *)
(* any number of pods, nodes, identities, edits and failures, under        *)
(* hypotheses on which calls may fail.  The last two allow for crashes as  *)
(* well: the record comes before the identity, and an object that was      *)
(* found Assigned goes after it.                                           *)
(***************************************************************************)
EXTENDS MICBacked_proofs

-----------------------------------------------------------------------------
\* Every identity that MIC put on a VM/VMSS is on record.

\* The object of m accounts for its identity on the VM/VMSS: no step of the cycle
\* takes it away before the identity is off, or another object accounts for it.
Holds(m) ==
  \/ /\ api[m].status = "Assigned"
     /\ \/ task[m] = None
        \/ /\ task[m].op = "delete"
           /\ \/ task[m].step = "cloud"
              \/ task[m].step = "held" /\ ~checkIfInUse(m, task[m].obj, snap.want, nodes)
  \/ task[m] # None /\ task[m].op # "delete"

\* MIC answers for x on t: it put it there, or some object names it.
Owned(x, t) == Mutable(x) /\ (x \notin InitCloud[t] \/ \E n \in Name : Uses(api[n], x, t))

HeldInv == \A t \in Target : \A x \in cloud[t] : Owned(x, t) => \E m \in Name : Uses(api[m], x, t) /\ Holds(m)

\* An object says Unassigned only between its patch and its removal.
StatusInv ==
  \A n \in Name : api[n] # None =>
    \/ api[n].status \in {"Created", "Assigned"}
    \/ task[n] # None /\ task[n].op = "delete" /\ task[n].step = "remove"

\* All that is around under a name needs one identity on one VM/VMSS.
LEMMA SameUse ==
  ASSUME OneTargetPerPod, OneMSIPerIdentity, TypeOK, KnownInv, PlaceInv,
         NEW n \in Name, NEW a, NEW b, Around(n, a), Around(n, b), NEW x, NEW t, Uses(a, x, t)
  PROVE  Uses(b, x, t)
<1>1. TargetOf(a.node) = TargetOf(b.node)
  BY Zenon, SamePlace
<1>2. IdOf(n) \in IdName /\ Known(IdOf(n), a.id) /\ Known(IdOf(n), b.id)
  BY Zenon DEF KnownInv, Name, IdOf
<1>3. PICK ns1 \in Namespace : \E r \in KnownIDs(ns1, IdOf(n)) : r.type = a.id.type /\ r.rid = a.id.rid /\ r.cid = a.id.cid
  BY Zenon, <1>2 DEF Known
<1>4. PICK ns2 \in Namespace : \E s \in KnownIDs(ns2, IdOf(n)) : s.type = b.id.type /\ s.rid = b.id.rid /\ s.cid = b.id.cid
  BY Zenon, <1>2 DEF Known
<1>5. PICK r \in KnownIDs(ns1, IdOf(n)) : r.type = a.id.type /\ r.rid = a.id.rid /\ r.cid = a.id.cid
  BY Zenon, <1>3
<1>6. PICK s \in KnownIDs(ns2, IdOf(n)) : s.type = b.id.type /\ s.rid = b.id.rid /\ s.cid = b.id.cid
  BY Zenon, <1>4
<1>7. a.id.type = b.id.type /\ a.id.rid = b.id.rid
  <2>1. r.type = s.type /\ r.rid = s.rid
    BY <1>2 DEF OneMSIPerIdentity
  <2> QED BY Zenon, <1>5, <1>6, <2>1
<1>8. b # None
  BY Zenon, AroundType, NoneAssumption
<1> QED BY Zenon, <1>1, <1>7, <1>8 DEF Uses, checkIfUserAssignedMSI

\* A known MSI is told from others by its client ID, and is immutable or not.
LEMMA KnownMSI ==
  ASSUME OneClientIDPerMSI, NEW i \in IdName, NEW j \in IdName, NEW a, NEW b, Known(i, a), Known(j, b),
         checkIfUserAssignedMSI(a)
  PROVE  /\ a.cid = b.cid => checkIfUserAssignedMSI(b) /\ a.rid = b.rid
         /\ Mutable(a.rid) <=> ~checkIfIdentityImmutable(a)
<1>1. PICK ns1 \in Namespace : \E r \in KnownIDs(ns1, i) : r.type = a.type /\ r.rid = a.rid /\ r.cid = a.cid
  BY Zenon DEF Known
<1>2. PICK ns2 \in Namespace : \E s \in KnownIDs(ns2, j) : s.type = b.type /\ s.rid = b.rid /\ s.cid = b.cid
  BY Zenon DEF Known
<1>3. PICK r \in KnownIDs(ns1, i) : r.type = a.type /\ r.rid = a.rid /\ r.cid = a.cid
  BY Zenon, <1>1
<1>4. PICK s \in KnownIDs(ns2, j) : s.type = b.type /\ s.rid = b.rid /\ s.cid = b.cid
  BY Zenon, <1>2
<1>5. checkIfUserAssignedMSI(r)
  BY Zenon, <1>3 DEF checkIfUserAssignedMSI
<1>6. a.cid = b.cid => checkIfUserAssignedMSI(b) /\ a.rid = b.rid
  <2>1. r.cid = s.cid => checkIfUserAssignedMSI(s) /\ r.rid = s.rid
    BY <1>5 DEF OneClientIDPerMSI
  <2> QED BY Zenon, <1>3, <1>4, <2>1 DEF checkIfUserAssignedMSI
<1>7. \A ns \in Namespace, k \in IdName : \A y \in KnownIDs(ns, k) :
        checkIfUserAssignedMSI(y) /\ y.rid = a.rid => y.cid = a.cid
  <2>1. \A ns \in Namespace, k \in IdName : \A y \in KnownIDs(ns, k) :
          checkIfUserAssignedMSI(y) /\ r.rid = y.rid => r.cid = y.cid
    BY <1>5 DEF OneClientIDPerMSI
  <2> QED BY Zenon, <1>3, <2>1
<1>8. ~checkIfIdentityImmutable(a) => Mutable(a.rid)
  BY Zenon, <1>7 DEF Mutable, checkIfIdentityImmutable
<1>9. Mutable(a.rid) => ~checkIfIdentityImmutable(a)
  BY Zenon, <1>3, <1>5 DEF Mutable, checkIfIdentityImmutable
<1> QED BY Zenon, <1>6, <1>8, <1>9

\* HeldInv under a call to Azure.
LEMMA HeldWorker ==
  ASSUME RecordedFaults, OneTargetPerPod, OneMSIPerIdentity, OneClientIDPerMSI,
         TypeOK, Steady, Rest, KnownInv, PlaceInv, CycleInv, HeldInv, StatusInv, cycle = "sync", NEW t \in Target, Worker(t)
  PROVE  HeldInv' /\ StatusInv'
<1>0. /\ plan[t] # None /\ UNCHANGED <<api, nodes, cycle, snap>>
      /\ \A u \in Target \ {t} : cloud'[u] = cloud[u]
      /\ \A n \in Name : ~(At(n, t) /\ task[n].step = "cloud") => task'[n] = task[n]
  BY Zenon, WorkerEffect
<1>1. snap # None /\ (\A n \in Name : TaskInv(n)) /\ (\A n \in Name : IdleInv(n, t)) /\ ListInv(t)
  BY Zenon DEF CycleInv
<1>2. \A n \in Name : At(n, t) => task[n] # None /\ TargetOf(task[n].obj.node) = t /\ task[n].step = "cloud"
  BY Zenon, WorkerTasks
<1>3. StatusInv'
  BY Zenon, <1>0, <1>2 DEF StatusInv
<1>4. \A n \in Name : /\ api[n] # None => Around(n, api[n])
                      /\ snap.want[n] # None => Around(n, snap.want[n])
                      /\ task[n] # None => Around(n, task[n].obj)
  BY Zenon, <1>1 DEF Around
<1>5. \A x : \A u : Owned(x, u)' => Owned(x, u)
  BY Zenon, <1>0 DEF Owned, Uses
<1> SUFFICES ASSUME NEW u \in Target, NEW x \in cloud'[u], Owned(x, u)
             PROVE  \E m \in Name : Uses(api[m], x, u) /\ Holds(m)'
  BY <1>0, <1>3, <1>5 DEF HeldInv, Uses
<1>6. CASE u # t
  <2>1. PICK m \in Name : Uses(api[m], x, u) /\ Holds(m)
    BY Zenon, <1>0, <1>6 DEF HeldInv
  <2>2. task[m] # None => Uses(task[m].obj, x, u)
    BY <1>4, <2>1, SameUse DEF Uses
  <2>3. task'[m] = task[m]
    BY Zenon, <1>0, <1>6, <2>2 DEF At, Uses
  <2> QED BY Zenon, <1>0, <2>1, <2>3 DEF Holds
<1>7. CASE u = t /\ \E k \in Name : Uses(snap.want[k], x, t)
  <2>1. PICK k \in Name : Uses(snap.want[k], x, t)
    BY Zenon, <1>7
  <2>2. snap.want[k] # None /\ TargetOf(snap.want[k].node) = t
    BY Zenon, <2>1 DEF Uses
  <2>3. api[k] # None => Uses(api[k], x, t)
    BY Zenon, <1>4, <2>1, <2>2, SameUse
  <2>4. CASE task[k] = None
    <3>1. api[k] # None /\ api[k].status # "Created"
      BY Zenon, <1>0, <1>1, <2>2, <2>4 DEF IdleInv
    <3>2. api[k].status = "Assigned"
      BY Zenon, <2>4, <3>1 DEF StatusInv
    <3>3. task'[k] = None
      BY Zenon, <1>0, <2>4 DEF At
    <3> QED BY Zenon, <1>0, <1>7, <2>3, <3>1, <3>2, <3>3 DEF Holds
  <2>5. CASE task[k] # None
    <3>1. Uses(task[k].obj, x, t)
      BY Zenon, <1>4, <2>1, <2>2, <2>5, SameUse
    <3>2. At(k, t) /\ task[k].step = "cloud"
      BY Zenon, <1>2, <2>5, <3>1 DEF At, Uses
    <3>3. task[k].op # "delete" /\ CreateInv(k)
      BY Zenon, <1>1, <2>2, <2>5 DEF TaskInv, DeleteInv
    <3>4. api[k] # None
      BY Zenon, <3>2, <3>3 DEF CreateInv, RecordedFaults
    <3>5. task'[k] = WithStep(task[k], "patch")
      <4>1. CASE UpdateEffect(t)
        BY Zenon, <3>2, <3>3, <4>1 DEF UpdateEffect
      <4>2. CASE UpdateErrorEffect(t)
        <5>1. checkIfUserAssignedMSI(task[k].obj.id) /\ task[k].obj.id.rid \in cloud'[t]
          BY Zenon, <1>7, <3>1 DEF Uses
        <5> QED BY Zenon, <3>2, <3>3, <4>2, <5>1 DEF UpdateErrorEffect
      <4> QED BY Zenon, <4>1, <4>2, WorkerEffect
    <3>6. task'[k] # None /\ task'[k].op # "delete"
      <4>1. task[k] \in Task /\ "patch" \in Step
        BY Zenon, <2>5, TaskTarget DEF Step
      <4> QED BY <3>3, <3>5, <4>1, WithStepFields, NoneAssumption
    <3> QED BY Zenon, <1>7, <2>3, <3>4, <3>6 DEF Holds
  <2> QED BY Zenon, <2>4, <2>5
<1>8. CASE u = t /\ ~\E k \in Name : Uses(snap.want[k], x, t)
  <2>0. x \in Rid
    <3>1. x \in cloud[t] \/ x \in plan[t].add
      BY Zenon, <1>8, WorkerEffect DEF UpdateEffect, UpdateErrorEffect
    <3>2. cloud[t] \subseteq Rid /\ plan[t].add \subseteq Rid
      BY Zenon, <1>0 DEF TypeOK, Plan
    <3> QED BY Zenon, <3>1, <3>2
  <2>1. \A n \in Name : task[n] # None /\ Uses(task[n].obj, x, t) => task[n].op = "delete"
    <3> SUFFICES ASSUME NEW n \in Name, task[n] # None, Uses(task[n].obj, x, t), task[n].op # "delete" PROVE FALSE
      BY Zenon
    <3>1. snap.want[n] # None
      BY Zenon, <1>1 DEF TaskInv, CreateInv
    <3>2. Uses(snap.want[n], x, t)
      BY Zenon, <1>4, <3>1, SameUse
    <3> QED BY Zenon, <1>8, <3>2
  <2>2. x \notin plan[t].add
    BY Zenon, <1>0, <1>1, <2>0, <2>1 DEF ListInv, Assigns
  <2>3. x \in cloud[t]
    BY Zenon, <1>8, <2>2, WorkerEffect DEF UpdateEffect, UpdateErrorEffect
  <2>4. PICK m \in Name : Uses(api[m], x, t) /\ Holds(m)
    BY Zenon, <1>8, <2>3 DEF HeldInv
  <2>5. CASE task[m] = None
    <3>1. task'[m] = None
      BY Zenon, <1>0, <2>5 DEF At
    <3> QED BY <1>0, <1>8, <2>4, <2>5, <3>1 DEF Holds
  <2>6. CASE task[m] # None
    <3>1. Uses(task[m].obj, x, t)
      BY <1>4, <2>4, <2>6, SameUse DEF Uses
    <3>2. task[m].op = "delete" /\ At(m, t) /\ task[m].step = "cloud"
      BY Zenon, <1>2, <2>1, <2>6, <3>1 DEF At, Uses
    <3>3. DeleteInv(m) /\ api[m].status = "Assigned"
      BY Zenon, <1>1, <2>4, <2>6, <3>2 DEF TaskInv, Holds
    <3>4. ~checkIfInUse(m, task[m].obj, snap.want, nodes)
      <4> SUFFICES ASSUME NEW k \in Name, Shares(m, task[m].obj, snap.want, k),
                          task[m].obj.node = snap.want[k].node \/ SameVMSS(nodes, task[m].obj.node, snap.want[k].node)
                   PROVE  Uses(snap.want[k], x, t)
        BY Zenon, <1>8 DEF checkIfInUse
      <4>1. snap.want[k] # None /\ task[m].obj.id.cid = snap.want[k].id.cid
        BY Zenon DEF Shares
      <4>2. TargetOf(snap.want[k].node) = t
        BY Zenon, <3>1 DEF SameVMSS, TargetOf, Uses
      <4>3. Known(IdOf(m), task[m].obj.id) /\ Known(IdOf(k), snap.want[k].id) /\ IdOf(m) \in IdName /\ IdOf(k) \in IdName
        BY Zenon, <1>4, <2>6, <4>1 DEF KnownInv, Name, IdOf
      <4>4. checkIfUserAssignedMSI(snap.want[k].id) /\ snap.want[k].id.rid = task[m].obj.id.rid
        BY <3>1, <4>1, <4>3, KnownMSI DEF Uses
      <4> QED BY Zenon, <3>1, <4>1, <4>2, <4>4 DEF Uses
    <3>5. x \in plan[t].remove
      <4>1. Malformed = {}
        BY Zenon DEF RecordedFaults
      <4>2. ~VMSSGroupsError(nodes, snap.nodeRefs) /\ ~checkIfInUseError(m, task[m].obj, snap.want, nodes)
        BY Zenon, <4>1 DEF VMSSGroupsError, checkIfInUseError
      <4>3. ~checkIfIdentityImmutable(task[m].obj.id)
        <5>1. Known(IdOf(m), task[m].obj.id) /\ IdOf(m) \in IdName
          BY Zenon, <1>4, <2>6 DEF KnownInv, Name, IdOf
        <5> QED BY Zenon, <3>1, <5>1, KnownMSI DEF Owned, Uses
      <4>4. shouldRemoveID(m, task[m].obj, snap.want, nodes)
        BY Zenon, <3>1, <3>2, <3>3, <3>4, <4>2, <4>3 DEF shouldRemoveID, DeleteInv, Uses
      <4> QED BY Zenon, <1>0, <1>1, <2>0, <2>6, <3>1, <3>2, <4>2, <4>4 DEF ListInv, Deletes
    <3>6. UpdateErrorEffect(t)
      BY Zenon, <1>8, <2>2, <3>5, WorkerEffect DEF UpdateEffect
    <3>7. task'[m] = WithStep(task[m], "held")
      BY Zenon, <1>8, <3>1, <3>2, <3>6 DEF UpdateErrorEffect, Uses
    <3>8. task'[m].op = "delete" /\ task'[m].step = "held" /\ task'[m].obj = task[m].obj
      <4>1. task[m] \in Task /\ "held" \in Step
        BY Zenon, <2>6, TaskTarget DEF Step
      <4> QED BY <3>2, <3>7, <4>1, WithStepFields
    <3> QED BY Zenon, <1>0, <1>8, <2>4, <3>3, <3>4, <3>8 DEF Holds
  <2> QED BY Zenon, <2>5, <2>6
<1> QED BY Zenon, <1>6, <1>7, <1>8

\* HeldInv under a worker's call for one object.
LEMMA HeldTask ==
  ASSUME RecordedFaults, OneTargetPerPod, OneMSIPerIdentity,
         TypeOK, Steady, KnownInv, PlaceInv, CycleInv, HeldInv, StatusInv, cycle = "sync", NEW n \in Name, TaskStep(n)
  PROVE  HeldInv' /\ StatusInv'
<1>0. UNCHANGED <<nodes, cloud, snap>>
  BY Zenon, TaskStepFrame
<1>1. \A m \in Name \ {n} : task'[m] = task[m] /\ api'[m] = api[m]
  BY Zenon, TaskEffect
<1>2. task[n] \in Task /\ task[n] # None /\ task[n].obj \in AssignedID /\ TaskInv(n)
  BY Zenon, TaskEffect, TaskTarget DEF CycleInv
<1>3. \A s \in Step : /\ WithStep(task[n], s) # None
                      /\ WithStep(task[n], s).op = task[n].op /\ WithStep(task[n], s).obj = task[n].obj /\ WithStep(task[n], s).step = s
  BY Zenon, <1>2, WithStepFields, NoneAssumption
<1>4. "cloud" \in Step /\ "remove" \in Step
  BY Zenon DEF Step
<1>5. api[n] # None => api[n] \in AssignedID /\ Around(n, api[n])
  BY Zenon DEF TypeOK, Around
<1>6. Around(n, task[n].obj)
  BY Zenon, <1>2 DEF Around
<1> DEFINE Moves == /\ \A x : \A t : Uses(api[n], x, t) /\ Holds(n) => Uses(api'[n], x, t) /\ Holds(n)'
                    /\ \A x : \A t : Uses(api'[n], x, t) => Uses(api[n], x, t) \/ Holds(n)'
                    /\ api'[n] # None => api'[n].status \in {"Created", "Assigned"} \/ (task'[n] # None /\ task'[n].op = "delete" /\ task'[n].step = "remove")
<1>7. SUFFICES Moves
  <2>1. StatusInv'
    BY Zenon, <1>1, <1>7 DEF StatusInv
  <2>2. ASSUME NEW t \in Target, NEW x \in cloud[t], Owned(x, t)'
        PROVE  \E m \in Name : Uses(api'[m], x, t) /\ Holds(m)'
    <3>1. CASE Owned(x, t)
      <4>1. PICK m \in Name : Uses(api[m], x, t) /\ Holds(m)
        BY Zenon, <3>1 DEF HeldInv
      <4>2. m # n => Holds(m)'
        BY Zenon, <1>0, <1>1, <4>1 DEF Holds
      <4> QED BY Zenon, <1>1, <1>7, <4>1, <4>2
    <3>2. CASE ~Owned(x, t)
      <4>1. PICK m \in Name : Uses(api'[m], x, t) /\ ~Uses(api[m], x, t)
        BY Zenon, <2>2, <3>2 DEF Owned, Mutable, Uses
      <4> QED BY Zenon, <1>1, <1>7, <4>1
    <3> QED BY Zenon, <3>1, <3>2
  <2> QED BY Zenon, <1>0, <2>1, <2>2 DEF HeldInv, Uses
<1>8. CASE WriteEffect(n)
  <2>1. task[n].op # "delete" /\ task'[n] # None /\ task'[n].op # "delete"
    BY Zenon, <1>2, <1>3, <1>4, <1>8 DEF WriteEffect, TaskInv, DeleteInv
  <2>2. Holds(n)'
    BY Zenon, <2>1 DEF Holds
  <2>3. CASE api'[n] = api[n]
    BY Zenon, <1>2, <2>1, <2>2, <2>3 DEF StatusInv
  <2>4. CASE api'[n] = SetStatus(task[n].obj, "Created")
    <3>1. api'[n] # None /\ api'[n].status = "Created" /\ api'[n].id = task[n].obj.id /\ api'[n].node = task[n].obj.node
      <4>1. SetStatus(task[n].obj, "Created") \in AssignedID
        BY Zenon, <1>2, SetStatusType DEF Status
      <4> QED BY <1>2, <2>4, <4>1, SetStatusFields, NoneAssumption
    <3>2. \A x : \A t : Uses(api[n], x, t) => Uses(task[n].obj, x, t)
      BY <1>5, <1>6, SameUse DEF Uses
    <3> QED BY Zenon, <2>2, <3>1, <3>2 DEF Uses
  <2> QED BY Zenon, <1>8, <2>3, <2>4 DEF WriteEffect
<1>9. CASE AssignedEffect(n)
  <2>1. CASE api[n] = None
    BY Zenon, <1>9, <2>1 DEF AssignedEffect, Uses
  <2>2. CASE api[n] # None
    <3>1. task'[n] = None /\ api'[n].status = "Assigned" /\ api'[n].id = api[n].id /\ api'[n].node = api[n].node
      BY <1>5, <1>9, <2>2, SetStatusFields DEF AssignedEffect
    <3>2. api'[n] # None
      <4>1. SetStatus(api[n], "Assigned") \in AssignedID
        BY Zenon, <1>5, <2>2, SetStatusType DEF Status
      <4> QED BY Zenon, <1>9, <2>2, <4>1, NoneAssumption DEF AssignedEffect
    <3> QED BY Zenon, <3>1, <3>2 DEF Holds, Uses
  <2> QED BY Zenon, <2>1, <2>2
<1>10. CASE UnassignedEffect(n)
  <2>1. task[n].step = "unassign" /\ task[n].op = "delete" /\ DeleteInv(n)
    BY Zenon, <1>2, <1>10 DEF UnassignedEffect, TaskInv, CreateInv
  <2>2. ~Holds(n)
    BY Zenon, <1>2, <2>1 DEF Holds
  <2>3. api[n] # None /\ task'[n] = WithStep(task[n], "remove") /\ api'[n] = SetStatus(api[n], "Unassigned")
    BY Zenon, <1>10, <2>1 DEF UnassignedEffect, DeleteInv
  <2>4. \A x : \A t : Uses(api'[n], x, t) => Uses(api[n], x, t)
    BY <1>5, <2>3, SetStatusFields DEF Uses
  <2> QED BY Zenon, <1>3, <1>4, <2>1, <2>2, <2>3, <2>4
<1>11. CASE RemoveEffect(n)
  <2>1. task[n].step = "remove" /\ task[n].op = "delete" /\ api'[n] = None
    BY Zenon, <1>2, <1>11 DEF RemoveEffect, TaskInv, CreateInv, RecordedFaults
  <2>2. ~Holds(n)
    BY Zenon, <1>2, <2>1 DEF Holds
  <2> QED BY Zenon, <2>1, <2>2 DEF Uses
<1>12. CASE AfterErrorEffect(n)
  <2>1. task[n].step \in {"held", "gone"} /\ task[n].op = "delete" /\ DeleteInv(n) /\ api'[n] = api[n]
    <3>1. task[n].step \in {"held", "gone"} /\ api'[n] = api[n]
      BY Zenon, <1>12 DEF AfterErrorEffect
    <3> QED BY Zenon, <1>2, <3>1 DEF TaskInv, CreateInv
  <2>2. api[n].status \in {"Created", "Assigned"}
    BY Zenon, <1>2, <2>1 DEF StatusInv, DeleteInv
  <2>3. Holds(n) => task'[n] = None /\ api[n].status = "Assigned"
    <3>1. Holds(n) => api[n].status = "Assigned" /\ task[n].step = "held" /\ ~checkIfInUse(n, task[n].obj, snap.want, nodes)
      BY Zenon, <1>2, <2>1 DEF Holds
    <3>2. task[n].step = "held" /\ ~checkIfInUse(n, task[n].obj, snap.want, nodes) => task'[n] = None
      <4>1. "held" # "gone"
        BY Zenon
      <4> QED BY Zenon, <1>12, <4>1 DEF AfterErrorEffect
    <3> QED BY Zenon, <3>1, <3>2
  <2>4. Holds(n) => Holds(n)'
    BY Zenon, <2>1, <2>3 DEF Holds
  <2> QED BY Zenon, <2>1, <2>2, <2>4
<1> QED BY Zenon, <1>8, <1>9, <1>10, <1>11, <1>12, TaskEffect

\* HeldInv is inductive.
LEMMA HeldStep ==
  ASSUME RecordedFaults, OneTargetPerPod, OneMSIPerIdentity, OneClientIDPerMSI,
         Steady, TypeOK, Rest, KnownInv, PlaceInv, CycleInv, ReconcileInv, HeldInv, StatusInv, [Next]_vars
  PROVE  HeldInv' /\ StatusInv'
<1>1. CASE Quiet
  <2>1. UNCHANGED <<api, nodes, snap, task>> /\ \A t \in Target : cloud'[t] \subseteq cloud[t]
    BY Zenon, <1>1 DEF Quiet
  <2>2. \A m \in Name : Holds(m) => Holds(m)'
    BY Zenon, <2>1 DEF Holds
  <2> QED BY <2>1, <2>2 DEF HeldInv, StatusInv, Owned, Mutable, Uses
<1>2. CASE Sync
  <2>1. UNCHANGED <<api, cloud>> /\ \A n \in Name : task[n] = None /\ task'[n] = Planned(n)
    BY Zenon, <1>2, SyncTask DEF Sync, store, Rest, Settled
  <2>2. \A op, o, s : NewTaskFor(op, o, s).op = op /\ NewTaskFor(op, o, s).step = s
    BY Zenon DEF NewTaskFor
  <2>3. \A m \in Name : Holds(m) => Holds(m)'
    BY <2>1, <2>2 DEF Holds, Planned
  <2> QED BY <2>1, <2>3 DEF HeldInv, StatusInv, Owned, Mutable, Uses
<1>3. CASE CycleEnd \/ Reconcile
  <2>1. UNCHANGED <<api, cloud, task>> /\ \A n \in Name : task[n] = None
    BY Zenon, <1>3 DEF CycleEnd, Reconcile, store, Rest, Settled, NoTasks
  <2>2. \A m \in Name : Holds(m) => Holds(m)'
    BY Zenon, <2>1 DEF Holds
  <2> QED BY <2>1, <2>2 DEF HeldInv, StatusInv, Owned, Mutable, Uses
<1>4. CASE \E n \in Name : TaskStep(n)
  <2> PICK n \in Name : TaskStep(n)
    BY Zenon, <1>4
  <2>1. cycle = "sync"
    BY Zenon, TaskStepFrame DEF Rest, Settled
  <2> QED BY Zenon, <2>1, HeldTask
<1>5. CASE \E t \in Target : Worker(t)
  <2> PICK t \in Target : Worker(t)
    BY Zenon, <1>5
  <2>1. CASE cycle = "sync"
    BY Zenon, <2>1, HeldWorker
  <2>2. CASE cycle # "sync"
    <3>1. /\ UNCHANGED <<api, task>> /\ \A n \in Name : task[n] = None
          /\ \A u \in Target : \A x : x \in cloud'[u] \ cloud[u] => \E m \in Name : Uses(api[m], x, u) /\ api[m].status = "Assigned"
      BY Zenon, <2>2, ReconcileEffect DEF Rest
    <3>2. \A m \in Name : Holds(m) => Holds(m)'
      BY Zenon, <3>1 DEF Holds
    <3>3. \A m \in Name : api[m].status = "Assigned" => Holds(m)'
      BY Zenon, <3>1 DEF Holds
    <3>4. StatusInv'
      BY Zenon, <3>1 DEF StatusInv
    <3>5. ASSUME NEW u \in Target, NEW x \in cloud'[u], Owned(x, u)' PROVE \E m \in Name : Uses(api[m], x, u) /\ Holds(m)'
      <4>1. Owned(x, u)
        BY Zenon, <3>1, <3>5 DEF Owned, Mutable, Uses
      <4> QED BY Zenon, <3>1, <3>2, <3>3, <4>1 DEF HeldInv
    <3> QED BY <3>1, <3>4, <3>5 DEF HeldInv, Uses
  <2> QED BY Zenon, <2>1, <2>2
<1> QED BY Zenon, <1>1, <1>2, <1>3, <1>4, <1>5, Steps

\* At first MIC answers for nothing.
LEMMA HeldInit == ASSUME Init PROVE HeldInv /\ StatusInv
<1>1. cloud = InitCloud /\ \A n \in Name : api[n] = None
  BY Zenon DEF Init
<1> QED BY Zenon, <1>1 DEF HeldInv, StatusInv, Owned, Uses

\* What the theorems on records rest on.
RecordInv == Rest /\ KnownInv /\ PlaceInv /\ CycleInv /\ ReconcileInv /\ HeldInv /\ StatusInv

\* RecordInv is an invariant.
LEMMA RecordAlways ==
  ASSUME Steady, RecordedFaults, OneTargetPerPod, OneMSIPerIdentity, OneClientIDPerMSI
  PROVE  Spec => []RecordInv
<1>1. Init => RecordInv
  BY Zenon, KnownInit, RecordsInit, HeldInit DEF RecordInv
<1>2. TypeOK /\ TypeOK' /\ RecordInv /\ [Next]_vars => RecordInv'
  <2> SUFFICES ASSUME TypeOK, TypeOK', RecordInv, [Next]_vars PROVE RecordInv'
    BY Zenon
  <2>0. Rest /\ KnownInv /\ PlaceInv /\ CycleInv /\ ReconcileInv /\ HeldInv /\ StatusInv
    BY Zenon DEF RecordInv
  <2>1. Anchored
    BY Zenon DEF Anchored
  <2>2. Rest' /\ ReconcileInv' /\ KnownInv' /\ PlaceInv'
    BY Zenon, <2>0, RestStep, ReconcileStep, KnownStep, PlaceStep DEF Rest
  <2>3. CycleInv'
    BY Zenon, <2>0, <2>1, CycleStep
  <2>4. HeldInv' /\ StatusInv'
    BY Zenon, <2>0, HeldStep
  <2> QED BY Zenon, <2>2, <2>3, <2>4 DEF RecordInv
<1> QED BY <1>1, <1>2, TypeCorrect, PTL DEF Spec

\* Recorded holds of every behaviour: of any number of pods, identities, nodes and
\* edits, with UpdateUserMSI calls and updates that fail, if pods come back on the
\* VM/VMSS they were on and an identity name stands for one MSI with one client ID.
THEOREM RecordedAlways ==
  ASSUME Steady, RecordedFaults, OneTargetPerPod, OneMSIPerIdentity, OneClientIDPerMSI
  PROVE  Spec => []Recorded
<1>1. RecordInv => Recorded
  BY Zenon DEF RecordInv, HeldInv, Owned, Recorded
<1> QED BY <1>1, RecordAlways, PTL

\* An object is removed by its own last step only.
LEMMA RemovedAt ==
  ASSUME TypeOK, [Next]_vars, NEW n \in Name, api[n] # None, api'[n] = None
  PROVE  task[n] # None /\ task[n].step = "remove"
<1>1. \E m \in Name : TaskStep(m)
  BY Zenon DEF Next, Environment, SetPod, SetIdentity, SetBinding, RemoveNode, AddNode, Detach, Edit, Deliver, Sync,
     CycleEnd, Worker, UpdateUserMSI, UpdateUserMSIError, ReconcileNode, Reconcile, Crash, store, vars
<1>2. PICK m \in Name : TaskStep(m)
  BY Zenon, <1>1
<1>3. m = n /\ task[n] # None
  BY Zenon, <1>2, TaskStepFrame, PutEffect DEF store
<1>4. \A s \in Status : SetStatus(api[n], s) # None /\ SetStatus(task[n].obj, s) # None
  <2>1. api[n] \in AssignedID /\ task[n].obj \in AssignedID
    BY Zenon, <1>3, TaskTarget DEF TypeOK
  <2> QED BY Zenon, <2>1, SetStatusType, NoneAssumption
<1>5. \A o : Put(n, o) => o = None
  BY Zenon, PutEffect
<1>6. ~UNCHANGED store
  BY Zenon DEF store
<1>7. {"Created", "Assigned", "Unassigned"} \subseteq Status
  BY Zenon DEF Status
<1>8. ~Write(n) /\ ~PatchAssigned(n) /\ ~PatchUnassigned(n) /\ ~DeleteAfterError(n)
  BY Zenon, <1>4, <1>5, <1>6, <1>7 DEF Write, PatchAssigned, PatchUnassigned, DeleteAfterError
<1> QED BY Zenon, <1>2, <1>3, <1>8 DEF TaskStep, RemoveAssignedIdentity

\* That is the end of a delete.
LEMMA RemovedBy ==
  ASSUME Steady, TypeOK, Rest, CycleInv, [Next]_vars, NEW n \in Name, api[n] # None, api'[n] = None
  PROVE  task[n] # None /\ task[n].op = "delete" /\ task[n].step = "remove"
<1>1. task[n] # None /\ task[n].step = "remove"
  BY Zenon, RemovedAt
<1>2. cycle = "sync" /\ TaskInv(n)
  BY Zenon, <1>1 DEF Rest, Settled, CycleInv
<1> QED BY Zenon, <1>1, <1>2 DEF TaskInv, CreateInv

\* DeletedAfterCleanup holds of every behaviour, under the same hypotheses: whoever
\* still finds the identity on the VM/VMSS finds another object that accounts for it.
THEOREM CleanupFirst ==
  ASSUME Steady, RecordedFaults, OneTargetPerPod, OneMSIPerIdentity, OneClientIDPerMSI
  PROVE  Spec => DeletedAfterCleanup
<1> DEFINE Clean ==
  \A n \in Keys(api) :
    LET x == api[n].id.rid
        t == TargetOf(api[n].node)
    IN /\ api'[n] = None
       /\ api[n].node \in nodes
       /\ checkIfUserAssignedMSI(api[n].id) /\ ~checkIfIdentityImmutable(api[n].id)
       => \/ x \notin cloud[t]
          \/ \E m \in Name \ {n} : Uses(api[m], x, t) \/ Uses(snap.want[m], x, t)
<1>1. TypeOK /\ RecordInv /\ [Next]_vars => [Clean]_vars
  <2> SUFFICES ASSUME TypeOK, RecordInv, [Next]_vars, NEW n \in Name, api[n] # None, api'[n] = None,
                      checkIfUserAssignedMSI(api[n].id), ~checkIfIdentityImmutable(api[n].id),
                      api[n].id.rid \in cloud[TargetOf(api[n].node)]
               PROVE  \E m \in Name \ {n} : Uses(api[m], api[n].id.rid, TargetOf(api[n].node))
    BY Zenon DEF Keys
  <2>0. Rest /\ KnownInv /\ PlaceInv /\ CycleInv /\ HeldInv
    BY Zenon DEF RecordInv
  <2>1. ~Holds(n)
    BY Zenon, <2>0, RemovedBy DEF Holds
  <2>2. Mutable(api[n].id.rid)
    <3>1. IdOf(n) \in IdName /\ Known(IdOf(n), api[n].id)
      BY Zenon, <2>0 DEF KnownInv, Around, Name, IdOf
    <3> QED BY Zenon, <3>1, KnownMSI
  <2>3. Uses(api[n], api[n].id.rid, TargetOf(api[n].node)) /\ TargetOf(api[n].node) \in Target
    BY Zenon, TargetType DEF TypeOK, AssignedID, Uses
  <2>4. PICK m \in Name : Uses(api[m], api[n].id.rid, TargetOf(api[n].node)) /\ Holds(m)
    BY Zenon, <2>0, <2>2, <2>3 DEF HeldInv, Owned
  <2> QED BY Zenon, <2>1, <2>4
<1> QED BY <1>1, TypeCorrect, RecordAlways, PTL DEF Spec, DeletedAfterCleanup

-----------------------------------------------------------------------------
\* The record comes first, whatever happens to MIC and to the nodes.

\* The call of n is about to put an identity on a VM/VMSS.
Adding(n) == task[n] # None /\ task[n].op # "delete" /\ task[n].step \in {"write", "cloud"}

\* Its object will be accepted, or is there.
AheadOf(n) ==
  Adding(n) =>
    /\ task[n].step = "write" => IF task[n].op = "create" THEN api[n] = None ELSE task[n].fresh
    /\ task[n].step = "cloud" => api[n] # None /\ api[n].id = task[n].obj.id /\ api[n].node = task[n].obj.node

\* What is to be put on t is what such calls are for.
AddsOf(t) ==
  plan[t] # None => \A x \in plan[t].add : \E n \in Name : Adding(n) /\ Uses(task[n].obj, x, t)

AheadInv == cycle = "sync" => (\A n \in Name : AheadOf(n)) /\ (\A t \in Target : AddsOf(t))

\* A cycle that starts from what is stored makes such calls.
LEMMA AheadSync == ASSUME TypeOK, Settled, Sync PROVE AheadInv'
<1> DEFINE add == getAzureAssignedIDsToCreate(api, Desired)
           del == getAzureAssignedIDsToDelete(api, Desired)
           refs == NodeRefs(pods, bindings)
<1>1. cache = api /\ api' = api /\ \A n \in Name : Current(n)
  BY Zenon, CaughtUp DEF Sync, store
<1>2. \A n \in Name : Current(n) = TRUE
  BY Zenon, <1>1 DEF Current
<1>3. /\ task' = [n \in Name |-> NewTask(add, del, n)]
      /\ plan' = [t \in Target |-> NewPlan(add, del, Desired, refs, t)]
  BY Zenon, <1>1 DEF Sync, Desired
<1>4. ASSUME NEW n \in Name PROVE AheadOf(n)'
  <2>1. /\ Desired[n] = None => add[n] = None /\ del[n] = api[n]
        /\ Desired[n] # None /\ api[n] = None => add[n] = Desired[n] /\ del[n] = None
        /\ Desired[n] # None /\ api[n] # None /\ ~matchAssignedID(api[n], Desired[n]) => add[n] = Desired[n] /\ del[n] = api[n]
        /\ Desired[n] # None /\ api[n] # None /\ matchAssignedID(api[n], Desired[n])
           => del[n] = None /\ add[n] = IF api[n].status = "Created" THEN api[n] ELSE None
    BY Zenon, Difference
  <2>2. Desired[n] # None => Desired[n].status = NoStatus
    BY Zenon, DesiredMap
  <2> HIDE DEF add, del
  <2>3. /\ n \in Keys(add) <=> add[n] # None
        /\ n \in ToUpdate(add, del) <=> add[n] # None /\ del[n] # None
    BY Zenon DEF Keys, ToUpdate
  <2> DEFINE op == IF del[n] # None THEN "update" ELSE "create"
             step == IF add[n].status = NoStatus THEN "write" ELSE "cloud"
  <2>4. task'[n] # None /\ task'[n].op # "delete" => add[n] # None /\ task'[n] = NewTaskFor(op, add[n], step)
    BY Zenon, <1>2, <1>3, <2>3 DEF NewTask, NewTaskFor
  <2>5. /\ del[n] = None => op = "create"
        /\ del[n] # None => op = "update"
        /\ add[n].status = NoStatus => step = "write"
        /\ add[n].status # NoStatus => step = "cloud"
        /\ "Created" # NoStatus
    BY Zenon DEF NoStatus
  <2> HIDE DEF op, step
  <2> SUFFICES ASSUME Adding(n)'
               PROVE  /\ task'[n].step = "write" => IF task'[n].op = "create" THEN api'[n] = None ELSE task'[n].fresh
                      /\ task'[n].step = "cloud" => /\ api'[n] # None /\ api'[n].id = task'[n].obj.id
                                                   /\ api'[n].node = task'[n].obj.node
    BY Zenon DEF AheadOf
  <2>6. add[n] # None /\ task'[n].op = op /\ task'[n].obj = add[n] /\ task'[n].fresh /\ task'[n].step = step
    <3>1. /\ NewTaskFor(op, add[n], step).op = op /\ NewTaskFor(op, add[n], step).obj = add[n]
          /\ NewTaskFor(op, add[n], step).fresh /\ NewTaskFor(op, add[n], step).step = step
      BY Zenon DEF NewTaskFor
    <3>2. add[n] # None /\ task'[n] = NewTaskFor(op, add[n], step)
      BY Zenon, <2>4 DEF Adding
    <3> QED BY <3>1, <3>2
  <2>7. step = "write" => (op = "create" => api[n] = None)
    BY Zenon, <2>1, <2>5, <2>6
  <2>8. step = "cloud" => add[n] = api[n]
    BY Zenon, <2>1, <2>2, <2>5, <2>6
  <2> QED BY Zenon, <1>1, <2>6, <2>7, <2>8
<1>5. ASSUME NEW t \in Target PROVE AddsOf(t)'
  <2> HIDE DEF add, del
  <2> SUFFICES ASSUME plan'[t] # None, NEW x \in plan'[t].add
               PROVE  \E n \in Name : Adding(n)' /\ Uses(task'[n].obj, x, t)
    BY Zenon DEF AddsOf, Uses
  <2>1. plan'[t].add = getListOfIdsToAssign(add, nodes, t)
    BY Zenon, <1>3 DEF NewPlan
  <2>2. PICK n \in Keys(add) : shouldAssignID(add[n]) /\ consolidateVMSSNodes(add[n], nodes, t) /\ x = add[n].id.rid
    BY Zenon, <2>1 DEF getListOfIdsToAssign
  <2>3. n \in Name /\ add[n] # None
    BY Zenon DEF Keys
  <2>4. Uses(add[n], x, t) /\ add[n].node \in nodes
    BY Zenon, <2>2, <2>3 DEF Uses, shouldAssignID, consolidateVMSSNodes
  <2> DEFINE op == IF n \in ToUpdate(add, del) THEN "update" ELSE "create"
             step == IF add[n].status = NoStatus THEN "write" ELSE "cloud"
  <2>5. task'[n] = NewTaskFor(op, add[n], step) /\ op \in {"create", "update"} /\ step \in {"write", "cloud"}
    <3>1. task'[n] = NewTaskFor(op, add[n], step)
      BY Zenon, <1>2, <1>3, <2>3, <2>4 DEF NewTask, NewTaskFor
    <3>2. op \in {"create", "update"} /\ step \in {"write", "cloud"}
      BY Zenon
    <3> QED BY Zenon, <3>1, <3>2
  <2> HIDE DEF op, step
  <2>6. task'[n].op \in {"create", "update"} /\ task'[n].obj = add[n] /\ task'[n].step \in {"write", "cloud"}
    <3>1. /\ NewTaskFor(op, add[n], step).op = op /\ NewTaskFor(op, add[n], step).obj = add[n]
          /\ NewTaskFor(op, add[n], step).fresh /\ NewTaskFor(op, add[n], step).step = step
      BY Zenon DEF NewTaskFor
    <3> QED BY <2>5, <3>1
  <2>7. task'[n] # None
    <3>1. add[n] \in AssignedID
      <4>1. api \in Maps
        BY Zenon DEF TypeOK, Maps
      <4> QED BY Zenon, <2>3, <4>1, DesiredMap, DiffType DEF Maps, add
    <3>2. task'[n] \in Task
      BY <2>5, <3>1 DEF NewTaskFor, Task, Step
    <3> QED BY Zenon, <3>2, NoneAssumption
  <2> QED BY Zenon, <2>3, <2>4, <2>6, <2>7 DEF Adding
<1> QED BY Zenon, <1>4, <1>5 DEF AheadInv

\* A worker's call for one object writes the object of its task, or is not for one
\* that is to be added any more.
LEMMA AheadTask ==
  ASSUME Faults \cap {"create", "update"} = {}, TypeOK, AheadInv, cycle = "sync", NEW n \in Name, TaskStep(n)
  PROVE  AheadInv'
<1>1. task[n] \in Task /\ task[n] # None /\ task[n].obj \in AssignedID
  BY Zenon, TaskKept DEF Task
<1>2. \A s : Goto(n, s) => task'[n] = WithStep(task[n], s) /\ \A m \in Name \ {n} : task'[m] = task[m]
  BY Zenon DEF TypeOK, Goto, WithStep
<1>3. Done(n) => task'[n] = None /\ \A m \in Name \ {n} : task'[m] = task[m]
  BY Zenon DEF TypeOK, Done
<1>4. UNCHANGED <<plan, cycle>> /\ \A m \in Name \ {n} : task'[m] = task[m] /\ api'[m] = api[m]
  <2>1. \A m \in Name \ {n} : task'[m] = task[m]
    BY Zenon, <1>2, <1>3 DEF TaskStep, Write, PatchAssigned, PatchUnassigned, RemoveAssignedIdentity, DeleteAfterError
  <2>2. \A m \in Name \ {n} : api'[m] = api[m]
    BY Zenon, PutEffect, TaskStepFrame DEF store
  <2> QED BY Zenon, <2>1, <2>2, TaskStepFrame
<1>5. SUFFICES AheadOf(n)' /\ (Adding(n) => Adding(n)' /\ task'[n].obj = task[n].obj)
  <2>1. ASSUME NEW m \in Name \ {n} PROVE (Adding(m) => Adding(m)' /\ task'[m].obj = task[m].obj) /\ AheadOf(m)'
    <3>1. task'[m] = task[m] /\ api'[m] = api[m] /\ AheadOf(m)
      BY Zenon, <1>4 DEF AheadInv
    <3> QED BY Zenon, <3>1 DEF Adding, AheadOf
  <2>2. ASSUME NEW t \in Target PROVE AddsOf(t)'
    <3> SUFFICES ASSUME plan[t] # None, NEW x \in plan[t].add
                 PROVE  \E m \in Name : Adding(m)' /\ Uses(task'[m].obj, x, t)
      BY Zenon, <1>4 DEF AddsOf, Uses
    <3>1. PICK m \in Name : Adding(m) /\ Uses(task[m].obj, x, t)
      BY Zenon DEF AheadInv, AddsOf
    <3>2. Adding(m)' /\ task'[m].obj = task[m].obj
      BY Zenon, <1>5, <2>1, <3>1
    <3> QED BY Zenon, <3>1, <3>2
  <2> QED BY Zenon, <1>5, <2>1, <2>2 DEF AheadInv
<1>6. CASE Write(n)
  <2>1. task'[n] = WithStep(task[n], "cloud") /\ task[n].step = "write"
    BY Zenon, <1>2, <1>6 DEF Write
  <2>2. task'[n] # None /\ task'[n].op = task[n].op /\ task'[n].obj = task[n].obj /\ task'[n].step = "cloud"
    <3>1. WithStep(task[n], "cloud") \in Task
      BY Zenon, <1>1, WithStepFields DEF Step
    <3> QED BY <1>1, <2>1, <3>1, WithStepFields, NoneAssumption DEF Step
  <2>3. CASE task[n].op = "delete"
    BY Zenon, <2>2, <2>3 DEF AheadOf, Adding
  <2>4. CASE task[n].op # "delete"
    <3>1. task[n].op \in {"create", "update"} /\ ~Fault(task[n].op)
      BY Zenon, <1>1, <2>4 DEF Task, Fault
    <3>2. IF task[n].op = "create" THEN api[n] = None ELSE task[n].fresh
      BY Zenon, <1>1, <2>1, <2>4 DEF AheadInv, AheadOf, Adding
    <3>3. Put(n, SetStatus(task[n].obj, "Created"))
      BY Zenon, <1>6, <3>1, <3>2 DEF Write
    <3>4. api'[n] = SetStatus(task[n].obj, "Created")
      BY Zenon, <3>3, PutEffect
    <3>5. SetStatus(task[n].obj, "Created") \in AssignedID
      BY Zenon, <1>1, SetStatusType DEF Status
    <3>6. api'[n] # None /\ api'[n].id = task[n].obj.id /\ api'[n].node = task[n].obj.node
      BY <1>1, <3>4, <3>5, SetStatusFields, NoneAssumption
    <3> QED BY Zenon, <2>2, <2>4, <3>6 DEF AheadOf, Adding
  <2> QED BY Zenon, <2>3, <2>4
<1>7. CASE ~Write(n)
  <2>1. task[n].step \notin {"write", "cloud"}
    BY Zenon, <1>7 DEF TaskStep, PatchAssigned, PatchUnassigned, RemoveAssignedIdentity, DeleteAfterError
  <2>2. task'[n] = None \/ task'[n] = WithStep(task[n], "remove")
    BY Zenon, <1>2, <1>3, <1>7 DEF TaskStep, PatchAssigned, PatchUnassigned, RemoveAssignedIdentity, DeleteAfterError
  <2>3. WithStep(task[n], "remove").step = "remove"
    BY Zenon, <1>1, WithStepFields DEF Step
  <2>4. ~Adding(n) /\ ~Adding(n)'
    BY Zenon, <2>1, <2>2, <2>3 DEF Adding
  <2> QED BY Zenon, <2>4 DEF AheadOf
<1> QED BY Zenon, <1>6, <1>7

\* What a worker's call to Azure in a sync cycle does, whoever answers.
LEMMA AnyWorker ==
  ASSUME TypeOK, NEW t \in Target, Worker(t), cycle = "sync"
  PROVE  /\ plan[t] # None /\ plan' = [plan EXCEPT ![t] = None] /\ UNCHANGED <<api, cycle>> /\ Written(t)
         /\ \A u \in Target \ {t} : cloud'[u] = cloud[u]
         /\ \A x : x \in cloud'[t] \ cloud[t] => x \in plan[t].add
         /\ \A n \in Name : task'[n] = task[n] \/ (At(n, t) /\ (task'[n] = None \/ task'[n].step \notin {"write", "cloud"}))
<1>1. UpdateUserMSI(t) \/ UpdateUserMSIError(t)
  BY Zenon DEF Worker, ReconcileNode
<1>2. plan[t] # None /\ plan' = [plan EXCEPT ![t] = None] /\ UNCHANGED <<api, cycle>> /\ Written(t)
  BY Zenon, <1>1 DEF UpdateUserMSI, UpdateUserMSIError, store
<1>3. /\ \A u \in Target \ {t} : cloud'[u] = cloud[u]
      /\ \A x : x \in cloud'[t] \ cloud[t] => x \in plan[t].add
  <2>1. CASE UpdateUserMSI(t)
    BY Zenon, <2>1 DEF UpdateUserMSI, TypeOK
  <2>2. CASE UpdateUserMSIError(t)
    <3>1. UNCHANGED cloud \/ PartialUpdate(t)
      BY Zenon, <2>2 DEF UpdateUserMSIError, UpdateFails
    <3> QED BY Zenon, <3>1 DEF PartialUpdate, TypeOK
  <2> QED BY Zenon, <1>1, <2>1, <2>2
<1>4. ASSUME NEW n \in Name
      PROVE  task'[n] = task[n] \/ (At(n, t) /\ (task'[n] = None \/ task'[n].step \notin {"write", "cloud"}))
  <2>1. At(n, t) => task[n] \in Task
    BY Zenon DEF At, TypeOK
  <2>2. At(n, t) => \A s \in Step : WithStep(task[n], s).step = s
    BY Zenon, <2>1, WithStepFields
  <2>3. \/ task'[n] = task[n]
        \/ At(n, t) /\ (task'[n] = None \/ \E s \in {"unassign", "patch", "held", "gone"} : task'[n] = WithStep(task[n], s))
    <3>1. CASE UpdateUserMSI(t)
      BY Zenon, <3>1 DEF UpdateUserMSI, WithStep
    <3>2. CASE UpdateUserMSIError(t)
      BY Zenon, <3>2 DEF UpdateUserMSIError, AfterError, WithStep
    <3> QED BY Zenon, <1>1, <3>1, <3>2
  <2> QED BY Zenon, <2>2, <2>3 DEF Step
<1> QED BY Zenon, <1>2, <1>3, <1>4

\* AheadInv is inductive.
LEMMA AheadStep ==
  ASSUME Faults \cap {"create", "update"} = {}, TypeOK, Settled, AheadInv, [Next]_vars
  PROVE  AheadInv'
<1>1. CASE Environment \/ Deliver \/ UNCHANGED vars
  <2>1. UNCHANGED <<api, cycle, plan, task>>
    BY Zenon, <1>1 DEF Environment, SetPod, SetIdentity, SetBinding, RemoveNode, AddNode, Detach, Edit, Deliver, store, vars
  <2> QED BY <2>1 DEF AheadInv, AheadOf, AddsOf, Adding, Uses
<1>2. CASE CycleEnd \/ Reconcile \/ Crash
  BY Zenon, <1>2 DEF CycleEnd, Reconcile, Crash, AheadInv
<1>3. CASE Sync
  BY Zenon, <1>3, AheadSync
<1>4. CASE \E n \in Name : TaskStep(n)
  <2>1. cycle = "sync"
    BY Zenon, <1>4, TaskStepFrame DEF Settled
  <2> QED BY Zenon, <1>4, <2>1, AheadTask
<1>5. CASE \E t \in Target : Worker(t)
  <2> PICK t \in Target : Worker(t)
    BY Zenon, <1>5
  <2>1. UNCHANGED cycle
    BY Zenon DEF Worker, UpdateUserMSI, UpdateUserMSIError, ReconcileNode
  <2> SUFFICES ASSUME cycle = "sync" PROVE (\A n \in Name : AheadOf(n)') /\ (\A u \in Target : AddsOf(u)')
    BY Zenon, <2>1 DEF AheadInv
  <2>2. \A n \in Name : AheadOf(n)'
    <3> SUFFICES ASSUME NEW n \in Name PROVE AheadOf(n)'
      BY Zenon
    <3>0. api' = api /\ AheadOf(n)
      BY Zenon, AnyWorker DEF AheadInv
    <3>1. CASE task'[n] = task[n]
      BY Zenon, <3>0, <3>1 DEF AheadOf, Adding
    <3>2. CASE task'[n] # task[n]
      BY Zenon, <3>2, AnyWorker DEF AheadOf, Adding
    <3> QED BY Zenon, <3>1, <3>2
  <2>3. ASSUME NEW u \in Target PROVE AddsOf(u)'
    <3> SUFFICES ASSUME plan'[u] # None, NEW x \in plan'[u].add
                 PROVE  \E n \in Name : Adding(n)' /\ Uses(task'[n].obj, x, u)
      BY Zenon DEF AddsOf, Uses
    <3>1. u # t /\ plan'[u] = plan[u]
      BY Zenon, AnyWorker DEF TypeOK
    <3>2. PICK n \in Name : Adding(n) /\ Uses(task[n].obj, x, u)
      BY Zenon, <3>1 DEF AheadInv, AddsOf
    <3>3. task'[n] = task[n]
      BY Zenon, <3>1, <3>2, AnyWorker DEF At, Uses
    <3> QED BY Zenon, <3>2, <3>3 DEF Adding
  <2> QED BY Zenon, <2>2, <2>3
<1> QED BY Zenon, <1>1, <1>2, <1>3, <1>4, <1>5 DEF Next

\* RecordedAhead holds of every behaviour: of any number of pods, identities, nodes
\* and edits, across crashes, with nodes that go and come back and with removals,
\* status patches, GETs and UpdateUserMSI calls that fail.  It takes a cache that has
\* caught up when a cycle ends, and creates and updates that get through.
THEOREM AheadAlways ==
  ASSUME Settles, Faults \cap {"create", "update"} = {}
  PROVE  Spec => RecordedAhead
<1> DEFINE Ahead == \A t \in Target : \A x \in cloud'[t] \ cloud[t] : \E n \in Name : Uses(api[n], x, t)
           Inv == Settled /\ ReconcileInv /\ AheadInv
<1>1. Init => Inv
  BY Zenon, RestInit DEF Rest, Init, ReconcileInv, AheadInv
<1>2. TypeOK /\ Inv /\ [Next]_vars => Inv'
  BY Zenon, SettledStep, ReconcileStep, AheadStep
<1>3. TypeOK /\ Inv /\ [Next]_vars => [Ahead]_vars
  <2> SUFFICES ASSUME TypeOK, Inv, [Next]_vars, NEW t \in Target, NEW x \in cloud'[t] \ cloud[t]
               PROVE  \E n \in Name : Uses(api[n], x, t)
    BY Zenon
  <2>1. \E u \in Target : Worker(u)
    <3>1. CASE Environment
      <4>1. UNCHANGED cloud \/ (\E n \in Node : RemoveNode(n)) \/ (\E u \in Target : Detach(u))
        BY Zenon, <3>1 DEF Environment, SetPod, SetIdentity, SetBinding, AddNode
      <4>2. cloud'[t] \subseteq cloud[t]
        BY Zenon, <4>1 DEF RemoveNode, Detach, TypeOK
      <4> QED BY Zenon, <4>2
    <3>2. CASE Deliver \/ Sync \/ CycleEnd \/ Reconcile \/ Crash \/ UNCHANGED vars
      BY Zenon, <3>2 DEF Deliver, Sync, CycleEnd, Reconcile, Crash, vars
    <3>3. CASE \E n \in Name : TaskStep(n)
      BY Zenon, <3>3, TaskStepFrame
    <3> QED BY Zenon, <3>1, <3>2, <3>3 DEF Next
  <2>2. PICK u \in Target : Worker(u)
    BY Zenon, <2>1
  <2>3. CASE cycle # "sync"
    BY Zenon, <2>2, <2>3, ReconcileEffect
  <2>4. CASE cycle = "sync"
    <3>1. u = t /\ plan[t] # None /\ x \in plan[t].add /\ Written(t)
      BY Zenon, <2>2, <2>4, AnyWorker
    <3>2. PICK n \in Name : Adding(n) /\ Uses(task[n].obj, x, t)
      BY Zenon, <2>4, <3>1 DEF AheadInv, AddsOf
    <3>3. task[n].step = "cloud"
      BY Zenon, <3>1, <3>2 DEF Written, At, Adding, Uses
    <3>4. api[n] # None /\ api[n].id = task[n].obj.id /\ api[n].node = task[n].obj.node
      BY Zenon, <2>4, <3>2, <3>3 DEF AheadInv, AheadOf
    <3> QED BY Zenon, <3>2, <3>4 DEF Uses
  <2> QED BY Zenon, <2>3, <2>4
<1> QED BY <1>1, <1>2, <1>3, TypeCorrect, PTL DEF Spec, RecordedAhead

------------------------------------------------------------------
\* An object that was found Assigned goes after its identity, whatever fails.

\* Another pod of the cycle's desired list needs the identity of n's object.
Needed(n) == \E m \in Name \ {n} : Uses(snap.want[m], task[n].obj.id.rid, TargetOf(task[n].obj.node))

\* The cycle deletes the object of n, which said Assigned, and has to take its
\* identity off first.
Leaves(n) ==
  /\ task[n] # None /\ task[n].op = "delete"
  /\ task[n].obj.status = "Assigned" /\ task[n].obj.node \in snap.nodes
  /\ checkIfUserAssignedMSI(task[n].obj.id) /\ ~checkIfIdentityImmutable(task[n].obj.id)

\* Until the worker has called Azure the identity is on its remove list only; the
\* delete goes on after the call only if the identity is off.
CleanOf(n) ==
  LET x == task[n].obj.id.rid
      t == TargetOf(task[n].obj.node)
  IN /\ task[n].step = "cloud" => plan[t] # None /\ x \in plan[t].remove \ plan[t].add
     /\ task[n].step # "cloud" => plan[t] = None
     /\ task[n].step \in {"unassign", "remove", "gone"} => x \notin cloud[t]

\* Creates and updates write and patch their object, deletes unassign and remove it.
StepsOf(n) ==
  task[n] # None =>
    /\ task[n].op = "delete" => task[n].step \in {"cloud", "unassign", "remove", "held", "gone"}
    /\ task[n].op # "delete" => task[n].step \in {"write", "cloud", "patch"}

CleanInv ==
  /\ cycle # "sync" => \A n \in Name : task[n] = None
  /\ cycle = "sync" => snap # None
  /\ \A n \in Name : StepsOf(n) /\ (Leaves(n) => Needed(n) \/ CleanOf(n))

\* checkIfInUse goes by client IDs and by names of pods; what it finds needs the MSI.
LEMMA InUseNeeds ==
  ASSUME OneClientIDPerMSI, NEW n \in Name, NEW o, NEW new, NEW N, Known(IdOf(n), o.id),
         \A m \in Name : new[m] # None => Known(IdOf(m), new[m].id),
         checkIfInUse(n, o, new, N)
  PROVE  \E m \in Name \ {n} : Uses(new[m], o.id.rid, TargetOf(o.node))
<1>1. PICK m \in Name : Shares(n, o, new, m) /\ (o.node = new[m].node \/ SameVMSS(N, o.node, new[m].node))
  BY Zenon DEF checkIfInUse
<1>2. new[m] # None /\ checkIfUserAssignedMSI(o.id) /\ o.id.cid = new[m].id.cid /\ m # n
  BY Zenon, <1>1 DEF Shares
<1>3. checkIfUserAssignedMSI(new[m].id) /\ o.id.rid = new[m].id.rid
  <2>1. IdOf(n) \in IdName /\ IdOf(m) \in IdName /\ Known(IdOf(m), new[m].id)
    BY Zenon, <1>2 DEF Name, IdOf
  <2>2. o.id.cid = new[m].id.cid => checkIfUserAssignedMSI(new[m].id) /\ o.id.rid = new[m].id.rid
    BY <1>2, <2>1, KnownMSI
  <2> QED BY Zenon, <1>2, <2>2
<1>4. TargetOf(new[m].node) = TargetOf(o.node)
  BY Zenon, <1>1 DEF SameVMSS, TargetOf
<1> QED BY Zenon, <1>2, <1>3, <1>4 DEF Uses

\* What a cycle puts on a VM/VMSS its desired list needs there.
LEMMA AddNeeded ==
  ASSUME TypeOK, VersionInv, NEW t, NEW x \in getListOfIdsToAssign(getAzureAssignedIDsToCreate(cache, Desired), nodes, t)
  PROVE  \E m \in Keys(getAzureAssignedIDsToCreate(cache, Desired)) : Uses(Desired[m], x, t)
<1> DEFINE add == getAzureAssignedIDsToCreate(cache, Desired)
<1>0. ASSUME NEW m \in Name, add[m] # None
      PROVE  Desired[m] # None /\ (add[m] = Desired[m] \/ (add[m] = cache[m] /\ matchAssignedID(cache[m], Desired[m])))
  <2>1. /\ Desired[m] # None
        /\ ~SameID(cache, Desired, m) => add[m] = Desired[m]
        /\ SameID(cache, Desired, m) => add[m] = cache[m]
    BY <1>0 DEF getAzureAssignedIDsToCreate
  <2> QED BY Zenon, <2>1 DEF SameID
<1>1. PICK m \in Keys(add) : shouldAssignID(add[m]) /\ consolidateVMSSNodes(add[m], nodes, t) /\ x = add[m].id.rid
  BY Zenon DEF getListOfIdsToAssign
<1>2. m \in Name /\ add[m] # None /\ IdOf(m) \in IdName
  BY Zenon DEF Keys, Name, IdOf
<1> HIDE DEF add
<1>3. Desired[m] # None /\ (add[m] = Desired[m] \/ (add[m] = cache[m] /\ matchAssignedID(cache[m], Desired[m])))
  BY Zenon, <1>0, <1>2
<1>4. checkIfUserAssignedMSI(add[m].id) /\ TargetOf(add[m].node) = t
  BY Zenon, <1>1 DEF shouldAssignID, consolidateVMSSNodes
<1>5. CASE add[m] = Desired[m]
  BY Zenon, <1>1, <1>3, <1>4, <1>5 DEF Uses, add
<1>6. CASE add[m] = cache[m] /\ matchAssignedID(cache[m], Desired[m])
  <2>1. Carries(IdOf(m), cache[m].id) /\ Carries(IdOf(m), Desired[m].id)
    <3>1. Around(m, cache[m])
      BY Zenon, <1>2, <1>6 DEF Around
    <3>2. Carries(IdOf(m), cache[m].id)
      BY Zenon, <1>2, <3>1 DEF Carries
    <3> QED BY Zenon, <1>2, <1>3, <3>2, DesiredCarried
  <2>2. cache[m].id.rv = Desired[m].id.rv /\ cache[m].node = Desired[m].node
    BY Zenon, <1>6 DEF matchAssignedID
  <2>3. cache[m].id.type = Desired[m].id.type /\ cache[m].id.rid = Desired[m].id.rid
    BY Zenon, <1>2, <2>1, <2>2 DEF VersionInv
  <2> QED BY Zenon, <1>1, <1>3, <1>4, <1>6, <2>2, <2>3 DEF Uses, checkIfUserAssignedMSI, add
<1> QED BY Zenon, <1>3, <1>5, <1>6

\* A cycle starts with the identities to take off on the remove lists.
LEMMA CleanSync ==
  ASSUME OneClientIDPerMSI, Malformed = {}, TypeOK, KnownInv, VersionInv, Sync
  PROVE  CleanInv'
<1> DEFINE add == getAzureAssignedIDsToCreate(cache, Desired)
           del == getAzureAssignedIDsToDelete(cache, Desired)
           refs == NodeRefs(pods, bindings)
<1>1. /\ task' = [n \in Name |-> NewTask(add, del, n)]
      /\ plan' = [t \in Target |-> NewPlan(add, del, Desired, refs, t)]
      /\ snap' = [want |-> Desired, nodeRefs |-> refs, nodes |-> nodes]
      /\ cycle' = "sync"
  BY Zenon DEF Sync, Desired
<1>2. snap'.want = Desired /\ snap'.nodes = nodes
  BY Zenon, <1>1
<1>3. snap' # None
  <2>1. NodeRefs(pods, bindings) \subseteq Node
    BY Zenon DEF NodeRefs, BindingMatches, TypeOK, PodSpec
  <2>2. snap' \in Snap
    BY Zenon, <1>1, <2>1, DesiredMap DEF Snap, Maps, TypeOK
  <2> QED BY Zenon, <2>2, NoneAssumption
<1>4. ASSUME NEW n \in Name, task'[n] # None
      PROVE  /\ task'[n].op = "delete" => /\ add[n] = None /\ del[n] # None /\ task'[n].obj = del[n]
                                          /\ task'[n].step = IF del[n].node \in nodes THEN "cloud" ELSE "remove"
             /\ task'[n].op # "delete" => task'[n].step \in {"write", "cloud"}
  <2> HIDE DEF add, del
  <2>1. task'[n] = NewTask(add, del, n)
    BY Zenon, <1>1
  <2> DEFINE op == IF n \in ToUpdate(add, del) THEN "update" ELSE IF n \in Keys(add) THEN "create" ELSE "delete"
             o == IF n \in Keys(add) THEN add[n] ELSE del[n]
             step == IF o.node \notin nodes THEN "remove" ELSE IF op # "delete" /\ o.status = NoStatus THEN "write" ELSE "cloud"
  <2>2. /\ n \in Keys(add) \cup Keys(del) /\ (o.node \in nodes \/ op = "delete")
        /\ task'[n] = [op |-> op, obj |-> o, fresh |-> Current(n), step |-> step]
    BY Zenon, <1>4, <2>1 DEF NewTask
  <2>3. task'[n].op = op /\ task'[n].obj = o /\ task'[n].step = step
    <3> HIDE DEF op, o, step
    <3> QED BY <2>2
  <2>4. op = "delete" => n \notin Keys(add)
    BY Zenon DEF ToUpdate
  <2>5. op # "delete" => o.node \in nodes
    BY Zenon, <2>2
  <2>6. op = "delete" => add[n] = None /\ del[n] # None /\ o = del[n]
    BY Zenon, <2>2, <2>4 DEF Keys
  <2>7. /\ op = "delete" => step = IF o.node \in nodes THEN "cloud" ELSE "remove"
        /\ o.node \in nodes => step \in {"write", "cloud"}
    BY Zenon
  <2> HIDE DEF op, o, step
  <2> QED BY Zenon, <2>3, <2>5, <2>6, <2>7
<1>5. ASSUME NEW n \in Name, Leaves(n)' PROVE Needed(n)' \/ CleanOf(n)'
  <2> DEFINE x == del[n].id.rid
             t == TargetOf(del[n].node)
  <2>1. task'[n] # None /\ add[n] = None /\ del[n] # None /\ task'[n].obj = del[n]
    BY Zenon, <1>4, <1>5 DEF Leaves
  <2>2. /\ del[n].status = "Assigned" /\ del[n].node \in nodes
        /\ checkIfUserAssignedMSI(del[n].id) /\ ~checkIfIdentityImmutable(del[n].id)
    BY Zenon, <1>2, <1>5, <2>1 DEF Leaves
  <2>3. task'[n].step = "cloud"
    BY Zenon, <1>4, <1>5, <2>1, <2>2 DEF Leaves
  <2>4. del[n] = cache[n] /\ Known(IdOf(n), del[n].id)
    <3>1. del[n] = cache[n]
      BY Zenon, <2>1 DEF getAzureAssignedIDsToDelete
    <3>2. Around(n, cache[n])
      BY Zenon, <2>1, <3>1 DEF Around
    <3> QED BY Zenon, <3>1, <3>2 DEF KnownInv
  <2>5. t \in Target
    <3>1. nodes \subseteq Node
      BY Zenon DEF TypeOK
    <3> QED BY Zenon, <2>2, <3>1, TargetType
  <2> SUFFICES ASSUME ~ \E m \in Name \ {n} : Uses(Desired[m], x, t)
               PROVE  plan'[t] # None /\ x \in plan'[t].remove \ plan'[t].add
    <3>1. Needed(n)' <=> \E m \in Name \ {n} : Uses(Desired[m], x, t)
      BY Zenon, <1>2, <2>1 DEF Needed, Uses
    <3>2. plan'[t] # None /\ x \in plan'[t].remove \ plan'[t].add => CleanOf(n)'
      BY Zenon, <2>1, <2>3 DEF CleanOf
    <3> QED BY Zenon, <3>1, <3>2
  <2>6. ~checkIfInUse(n, del[n], Desired, nodes)
    <3>1. \A m \in Name : Desired[m] # None => Known(IdOf(m), Desired[m].id)
      BY Zenon, DesiredKnown
    <3> QED BY Zenon, <2>4, <3>1, InUseNeeds
  <2> HIDE DEF add, del, refs
  <2>7. x \in getListOfIdsToDelete(del, Desired, nodes, refs, t)
    <3>1. ~VMSSGroupsError(nodes, refs) /\ ~checkIfInUseError(n, del[n], Desired, nodes)
      BY Zenon DEF VMSSGroupsError, checkIfInUseError
    <3>2. n \in Keys(del) /\ shouldRemoveID(n, del[n], Desired, nodes) /\ consolidateVMSSNodes(del[n], nodes, t)
      BY Zenon, <2>1, <2>2, <2>6, <3>1 DEF Keys, shouldRemoveID, consolidateVMSSNodes
    <3> QED BY Zenon, <3>1, <3>2 DEF getListOfIdsToDelete
  <2>8. x \notin getListOfIdsToAssign(add, nodes, t)
    <3> SUFFICES ASSUME x \in getListOfIdsToAssign(add, nodes, t) PROVE FALSE
      BY Zenon
    <3>1. PICK m \in Keys(add) : Uses(Desired[m], x, t)
      BY Zenon, AddNeeded DEF add
    <3>2. m \in Name \ {n}
      BY Zenon, <2>1 DEF Keys
    <3> QED BY Zenon, <3>1, <3>2
  <2>9. plan'[t] = [add |-> getListOfIdsToAssign(add, nodes, t), remove |-> getListOfIdsToDelete(del, Desired, nodes, refs, t)]
    BY Zenon, <1>1, <2>5, <2>7 DEF NewPlan
  <2>10. plan'[t].add = getListOfIdsToAssign(add, nodes, t) /\ plan'[t].remove = getListOfIdsToDelete(del, Desired, nodes, refs, t)
    BY <2>9
  <2>11. plan'[t] # None
    <3>1. getListOfIdsToAssign(add, nodes, t) \subseteq Rid /\ getListOfIdsToDelete(del, Desired, nodes, refs, t) \subseteq Rid
      <4>1. cache \in Maps /\ Desired \in Maps
        BY Zenon, DesiredMap DEF TypeOK, Maps
      <4>2. add \in Maps /\ del \in Maps
        BY Zenon, <4>1, DiffType DEF add, del
      <4>3. \A m \in Name : /\ add[m] # None => add[m].id.rid \in Rid
                            /\ del[m] # None => del[m].id.rid \in Rid
        BY Zenon, <4>2 DEF Maps, AssignedID, AzureIdentity
      <4> QED BY Zenon, <4>3 DEF getListOfIdsToAssign, getListOfIdsToDelete, Keys
    <3>2. plan'[t] \in Plan
      BY <2>9, <3>1 DEF Plan
    <3> QED BY Zenon, <3>2, NoneAssumption
  <2> QED BY Zenon, <2>7, <2>8, <2>10, <2>11
<1>6. ASSUME NEW n \in Name PROVE StepsOf(n)'
  <2> HIDE DEF add, del
  <2> QED BY Zenon, <1>4 DEF StepsOf
<1> QED BY Zenon, <1>1, <1>3, <1>5, <1>6 DEF CleanInv

\* A worker's call for one object keeps the order.
LEMMA CleanTask ==
  ASSUME OneClientIDPerMSI, TypeOK, KnownInv, CleanInv, NEW n \in Name, TaskStep(n)
  PROVE  CleanInv'
<1>1. task[n] \in Task /\ task[n] # None
  BY Zenon, TaskKept
<1>2. UNCHANGED <<nodes, cloud, cycle, snap, plan>> /\ cycle = "sync" /\ snap # None
  BY Zenon, <1>1, TaskStepFrame DEF CleanInv
<1>3. \A s : Goto(n, s) => task'[n] = WithStep(task[n], s) /\ \A m \in Name \ {n} : task'[m] = task[m]
  BY Zenon DEF TypeOK, Goto, WithStep
<1>4. Done(n) => task'[n] = None /\ \A m \in Name \ {n} : task'[m] = task[m]
  BY Zenon DEF TypeOK, Done
<1>5. \A m \in Name \ {n} : task'[m] = task[m]
  BY Zenon, <1>3, <1>4 DEF TaskStep, Write, PatchAssigned, PatchUnassigned, RemoveAssignedIdentity, DeleteAfterError
<1>6. ASSUME NEW m \in Name \ {n} PROVE StepsOf(m)' /\ (Leaves(m)' => Needed(m)' \/ CleanOf(m)')
  <2>1. task'[m] = task[m] /\ StepsOf(m) /\ (Leaves(m) => Needed(m) \/ CleanOf(m))
    BY Zenon, <1>5 DEF CleanInv
  <2> QED BY Zenon, <1>2, <2>1 DEF StepsOf, Leaves, Needed, CleanOf, Uses
<1>7. StepsOf(n)' /\ (Leaves(n)' => Needed(n)' \/ CleanOf(n)')
  <2>1. CASE task'[n] = None
    BY Zenon, <2>1 DEF StepsOf, Leaves
  <2>2. StepsOf(n) /\ (Leaves(n) => Needed(n) \/ CleanOf(n))
    BY Zenon DEF CleanInv
  <2>3. CASE Write(n)
    <3>1. task'[n] = WithStep(task[n], "cloud") /\ task[n].op # "delete"
      BY Zenon, <1>1, <1>3, <2>2, <2>3 DEF Write, StepsOf
    <3>2. task'[n].op # "delete" /\ task'[n].step = "cloud"
      BY <1>1, <3>1, WithStepFields DEF Step
    <3> QED BY Zenon, <3>2 DEF StepsOf, Leaves
  <2>4. CASE task'[n] # None /\ ~Write(n)
    <3>1. /\ task'[n] = WithStep(task[n], "remove") /\ task[n].step \in {"unassign", "held", "gone"}
          /\ task[n].step = "held" => checkIfInUse(n, task[n].obj, snap.want, nodes)
      BY Zenon, <1>3, <1>4, <2>4 DEF TaskStep, PatchAssigned, PatchUnassigned, RemoveAssignedIdentity, DeleteAfterError
    <3>2. task'[n].op = task[n].op /\ task'[n].obj = task[n].obj /\ task'[n].step = "remove" /\ task[n].op = "delete"
      <4>1. task'[n].op = task[n].op /\ task'[n].obj = task[n].obj /\ task'[n].step = "remove"
        BY <1>1, <3>1, WithStepFields DEF Step
      <4> QED BY Zenon, <1>1, <2>2, <3>1, <4>1 DEF StepsOf
    <3>3. task[n].step = "held" => Needed(n)
      <4>1. Known(IdOf(n), task[n].obj.id) /\ \A m \in Name : snap.want[m] # None => Known(IdOf(m), snap.want[m].id)
        BY Zenon, <1>1, <1>2 DEF KnownInv, Around
      <4> QED BY Zenon, <3>1, <4>1, InUseNeeds DEF Needed
    <3>4. Leaves(n)' => Needed(n)' \/ CleanOf(n)'
      <4>1. (Leaves(n)' => Leaves(n)) /\ (Needed(n) => Needed(n)')
        BY Zenon, <1>1, <1>2, <3>2 DEF Leaves, Needed, Uses
      <4>2. CleanOf(n) /\ task[n].step # "held" => CleanOf(n)'
        BY Zenon, <1>2, <3>1, <3>2 DEF CleanOf
      <4> QED BY Zenon, <2>2, <3>3, <4>1, <4>2
    <3> QED BY Zenon, <3>2, <3>4 DEF StepsOf
  <2> QED BY Zenon, <2>1, <2>3, <2>4
<1> QED BY Zenon, <1>2, <1>6, <1>7 DEF CleanInv

\* So does its call to Azure, whatever that leaves half done: what follows for a
\* delete goes by what is on the VM/VMSS afterwards.
LEMMA CleanWorker ==
  ASSUME TypeOK, CleanInv, NEW t \in Target, Worker(t), cycle = "sync"
  PROVE  CleanInv'
<1>1. /\ plan[t] # None /\ plan'[t] = None /\ UNCHANGED <<cycle, snap>>
      /\ \A u \in Target \ {t} : cloud'[u] = cloud[u] /\ plan'[u] = plan[u]
  <2>1. UNCHANGED snap
    BY Zenon DEF Worker, UpdateUserMSI, UpdateUserMSIError, ReconcileNode
  <2> QED BY Zenon, <2>1, AnyWorker DEF TypeOK
<1>2. ASSUME NEW n \in Name, task'[n] = task[n], At(n, t) => task[n].step # "cloud"
      PROVE  StepsOf(n)' /\ (Leaves(n)' => Needed(n)' \/ CleanOf(n)')
  <2>1. StepsOf(n)' /\ (Leaves(n)' => Leaves(n)) /\ (Needed(n) => Needed(n)')
    BY Zenon, <1>1, <1>2 DEF CleanInv, StepsOf, Leaves, Needed, Uses
  <2>2. ASSUME Leaves(n), CleanOf(n) PROVE CleanOf(n)'
    <3>1. task[n] # None /\ TargetOf(task[n].obj.node) \in Target
      BY Zenon, <2>2, TaskTarget DEF Leaves
    <3>2. TargetOf(task[n].obj.node) # t
      BY Zenon, <1>1, <1>2, <2>2, <3>1 DEF CleanOf, At
    <3> QED BY Zenon, <1>1, <1>2, <2>2, <3>1, <3>2 DEF CleanOf
  <2> QED BY Zenon, <2>1, <2>2 DEF CleanInv
<1>3. ASSUME NEW n \in Name, At(n, t), task[n].step = "cloud"
      PROVE  StepsOf(n)' /\ (Leaves(n)' => Needed(n)' \/ CleanOf(n)')
  <2> DEFINE x == task[n].obj.id.rid
  <2>1. task[n] # None /\ task[n] \in Task
    BY Zenon, <1>3 DEF At, TypeOK
  <2>2. CASE task'[n] = None
    BY Zenon, <2>2 DEF StepsOf, Leaves
  <2>3. CASE task[n].op # "delete" /\ task'[n] # None
    <3>1. task'[n] = WithStep(task[n], "patch")
      <4>1. CASE UpdateUserMSI(t)
        BY Zenon, <1>3, <2>3, <4>1 DEF UpdateUserMSI, WithStep
      <4>2. CASE UpdateUserMSIError(t)
        BY Zenon, <1>3, <2>3, <4>2 DEF UpdateUserMSIError, AfterError, WithStep
      <4> QED BY Zenon, <4>1, <4>2 DEF Worker, ReconcileNode
    <3>2. task'[n].op # "delete" /\ task'[n].step = "patch"
      BY <2>1, <2>3, <3>1, WithStepFields DEF Step
    <3> QED BY Zenon, <3>2 DEF StepsOf, Leaves
  <2>4. CASE task[n].op = "delete" /\ task'[n] # None
    <3>1. PICK s \in {"unassign", "held", "gone"} :
             /\ task'[n] = WithStep(task[n], s)
             /\ x \in plan[t].remove \ plan[t].add /\ checkIfUserAssignedMSI(task[n].obj.id) /\ s # "held" => x \notin cloud'[t]
      <4>1. CASE UpdateUserMSI(t)
        <5>1. task'[n] = WithStep(task[n], "unassign")
          BY Zenon, <1>3, <2>4, <4>1 DEF UpdateUserMSI, WithStep
        <5>2. cloud'[t] = (cloud[t] \ plan[t].remove) \cup plan[t].add
          BY Zenon, <4>1 DEF UpdateUserMSI, TypeOK
        <5> QED BY Zenon, <5>1, <5>2
      <4>2. CASE UpdateUserMSIError(t)
        <5>1. task'[n] = AfterError(n, cloud'[t])
          BY Zenon, <1>3, <2>4, <4>2 DEF UpdateUserMSIError
        <5>2. CASE checkIfUserAssignedMSI(task[n].obj.id) /\ x \in cloud'[t]
          BY Zenon, <2>4, <5>1, <5>2 DEF AfterError, WithStep
        <5>3. CASE ~(checkIfUserAssignedMSI(task[n].obj.id) /\ x \in cloud'[t])
          BY Zenon, <2>4, <5>1, <5>3 DEF AfterError, WithStep
        <5> QED BY Zenon, <5>2, <5>3
      <4> QED BY Zenon, <4>1, <4>2 DEF Worker, ReconcileNode
    <3>2. task'[n].op = task[n].op /\ task'[n].obj = task[n].obj /\ task'[n].step = s
      BY <2>1, <3>1, WithStepFields DEF Step
    <3>3. StepsOf(n)' /\ (Leaves(n)' => Leaves(n)) /\ (Needed(n) => Needed(n)')
      BY Zenon, <1>1, <2>1, <2>4, <3>2 DEF StepsOf, Leaves, Needed, Uses
    <3>4. ASSUME Leaves(n), CleanOf(n) PROVE CleanOf(n)'
      <4>1. TargetOf(task[n].obj.node) = t
        BY Zenon, <1>3 DEF At
      <4>2. x \in plan[t].remove \ plan[t].add /\ checkIfUserAssignedMSI(task[n].obj.id)
        BY Zenon, <1>3, <3>4, <4>1 DEF CleanOf, Leaves
      <4>3. s # "held" => x \notin cloud'[t]
        BY Zenon, <3>1, <4>2
      <4> QED BY Zenon, <1>1, <3>2, <4>1, <4>3 DEF CleanOf
    <3> QED BY Zenon, <3>3, <3>4 DEF CleanInv
  <2> QED BY Zenon, <2>2, <2>3, <2>4
<1>4. \A n \in Name : task'[n] = task[n] \/ (At(n, t) /\ task[n].step = "cloud")
  BY Zenon DEF Worker, UpdateUserMSI, UpdateUserMSIError, ReconcileNode
<1>5. \A n \in Name : StepsOf(n)' /\ (Leaves(n)' => Needed(n)' \/ CleanOf(n)')
  BY Zenon, <1>2, <1>3, <1>4
<1> QED BY Zenon, <1>1, <1>5 DEF CleanInv

\* CleanInv is inductive.
LEMMA CleanStep ==
  ASSUME OneClientIDPerMSI, Malformed = {}, TypeOK, KnownInv, VersionInv, CleanInv, [Next]_vars
  PROVE  CleanInv'
<1>1. CASE Environment \/ Deliver \/ UNCHANGED vars
  <2>1. UNCHANGED <<cycle, snap, plan, task>>
    BY Zenon, <1>1 DEF Environment, SetPod, SetIdentity, SetBinding, RemoveNode, AddNode, Detach, Edit, Deliver, vars
  <2>2. \A t \in Target : cloud'[t] \subseteq cloud[t]
    <3>1. UNCHANGED cloud \/ (\E n \in Node : RemoveNode(n)) \/ (\E u \in Target : Detach(u))
      BY Zenon, <1>1 DEF Environment, SetPod, SetIdentity, SetBinding, AddNode, Deliver, vars
    <3> QED BY Zenon, <3>1 DEF RemoveNode, Detach, TypeOK
  <2>3. ASSUME NEW n \in Name PROVE StepsOf(n)' /\ (Leaves(n)' => Needed(n)' \/ CleanOf(n)')
    <3>1. StepsOf(n)' /\ (Leaves(n)' => Leaves(n)) /\ (Needed(n) => Needed(n)')
      BY Zenon, <2>1 DEF CleanInv, StepsOf, Leaves, Needed, Uses
    <3>2. ASSUME Leaves(n), CleanOf(n) PROVE CleanOf(n)'
      <4>1. TargetOf(task[n].obj.node) \in Target
        BY Zenon, <3>2, TaskTarget DEF Leaves
      <4> QED BY Zenon, <2>1, <2>2, <3>2, <4>1 DEF CleanOf
    <3> QED BY Zenon, <3>1, <3>2 DEF CleanInv
  <2> QED BY Zenon, <2>1, <2>3 DEF CleanInv
<1>2. CASE CycleEnd \/ Reconcile \/ Crash
  <2>1. cycle' # "sync" /\ \A n \in Name : task'[n] = None
    BY Zenon, <1>2 DEF CycleEnd, Reconcile, Crash, NoTasks, CleanInv
  <2> QED BY Zenon, <2>1 DEF CleanInv, StepsOf, Leaves
<1>3. CASE Sync
  BY Zenon, <1>3, CleanSync
<1>4. CASE \E n \in Name : TaskStep(n)
  BY Zenon, <1>4, CleanTask
<1>5. CASE \E t \in Target : Worker(t)
  <2> PICK t \in Target : Worker(t)
    BY Zenon, <1>5
  <2>1. CASE cycle = "sync"
    BY Zenon, <2>1, CleanWorker
  <2>2. CASE cycle # "sync"
    <3>1. cycle' = cycle /\ task' = task
      BY Zenon, <2>2 DEF Worker, UpdateUserMSI, UpdateUserMSIError, ReconcileNode
    <3>2. cycle' # "sync" /\ \A n \in Name : task'[n] = None
      BY Zenon, <2>2, <3>1 DEF CleanInv
    <3> QED BY Zenon, <3>2 DEF CleanInv, StepsOf, Leaves
  <2> QED BY Zenon, <2>1, <2>2
<1> QED BY Zenon, <1>1, <1>2, <1>3, <1>4, <1>5 DEF Next

\* AssignedCleanedUp holds of every behaviour: whatever fails, however far the cache
\* lags, across crashes and changes of nodes.  It takes client IDs that tell MSIs
\* apart, versions that tell an identity's edits apart, and provider IDs that parse.
THEOREM CleanedUpAlways ==
  ASSUME OneClientIDPerMSI, DistinctVersions, Malformed = {}
  PROVE  Spec => AssignedCleanedUp
<1> DEFINE Clean ==
  \A n \in Keys(api) :
    api'[n] = None =>
      LET o == task[n].obj
          t == TargetOf(o.node)
      IN /\ o.status = "Assigned" /\ o.node \in snap.nodes
         /\ checkIfUserAssignedMSI(o.id) /\ ~checkIfIdentityImmutable(o.id)
         => \/ o.id.rid \notin cloud[t]
            \/ \E m \in Name \ {n} : Uses(snap.want[m], o.id.rid, t)
           Inv == KnownInv /\ VersionInv /\ CleanInv
<1>1. Init => Inv
  <2> SUFFICES ASSUME Init PROVE Inv
    BY Zenon
  <2>1. cycle # "sync" /\ \A n \in Name : task[n] = None
    BY Zenon DEF Init, NoTasks
  <2>2. CleanInv
    BY Zenon, <2>1 DEF CleanInv, StepsOf, Leaves
  <2> QED BY Zenon, <2>2, KnownInit, VersionInit
<1>2. TypeOK /\ Inv /\ [Next]_vars => Inv'
  BY Zenon, KnownStep, VersionStep, CleanStep
<1>3. TypeOK /\ Inv /\ [Next]_vars => [Clean]_vars
  <2> SUFFICES ASSUME TypeOK, CleanInv, [Next]_vars, NEW n \in Name, api[n] # None, api'[n] = None,
                      task[n].obj.status = "Assigned", task[n].obj.node \in snap.nodes,
                      checkIfUserAssignedMSI(task[n].obj.id), ~checkIfIdentityImmutable(task[n].obj.id)
               PROVE  task[n].obj.id.rid \notin cloud[TargetOf(task[n].obj.node)] \/ Needed(n)
    BY Zenon DEF Keys, Needed
  <2>1. task[n] # None /\ task[n].step = "remove"
    BY Zenon, RemovedAt
  <2>2. task[n].op = "delete"
    BY Zenon, <2>1 DEF CleanInv, StepsOf
  <2> QED BY Zenon, <2>1, <2>2 DEF CleanInv, Leaves, CleanOf
<1> QED BY <1>1, <1>2, <1>3, TypeCorrect, PTL DEF Spec, AssignedCleanedUp
=============================================================================
