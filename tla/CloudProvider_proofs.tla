------------------------ MODULE CloudProvider_proofs ------------------------
(***************************************************************************)
(* Proofs about CloudProvider: its types, and that UpdateUserMSI keeps the *)
(* promise of module MSIUpdate and the system-assigned identities and      *)
(* isolates erroneous identities, for any number of resources, identities, *)
(* batches, retries and reloads.                                           *)
(***************************************************************************)
EXTENDS CloudProvider, FiniteSetTheorems, TLAPS

\* The types of what the calls change, and of the configuration.
CallType ==
  /\ azure \in [Resource -> Resources]
  /\ pc \in [Resource -> {"idle", "call", "get", "update", "patch", "return"}]
  /\ req \in [Resource -> [add : SUBSET ResourceID, remove : SUBSET ResourceID] \cup {None}]
  /\ vm \in [Resource -> [type : ResourceIdentityType, ids : [Rid -> Entry]]]
  /\ rest \in [Resource -> [Rid -> Entry]]
  /\ failed \in [Resource -> Errors]
  /\ retries \in [Resource -> 0..maxRetry]
  /\ result \in [Resource -> {"ok", "error"}]
DeadlineType ==
  /\ retryAfterReader \in [Kind -> BOOLEAN] /\ retryAfterWriter \in [Kind -> BOOLEAN]
  /\ window \in SUBSET (Kind \X {"read", "write"})
SentType == sent \in [Resource -> SUBSET {"lost", "old"}]
ConfType ==
  /\ file \in 0..MaxWrites /\ event \in BOOLEAN /\ loader \in {"wait", "read"} \cup Kind
  /\ Config \in 0..MaxWrites \cup {None} /\ client \in [Kind -> 0..MaxWrites]
  /\ loader \in Kind => Config # None

\* The parts of the type invariant.
LEMMA TypeParts == TypeOK <=> CallType /\ DeadlineType /\ SentType /\ ConfType
BY Zenon DEF TypeOK, CallType, DeadlineType, SentType, ConfType

\* A batch and the rest share out the keys of the list.
LEMMA BatchSplits ==
  ASSUME NEW ids \in [Rid -> Entry], NEW B
  PROVE  /\ Batch(ids, B) \in [Rid -> Entry] /\ Batch(ids, Rid \ B) \in [Rid -> Entry]
         /\ \A x \in Rid : \/ Batch(ids, B)[x] = ids[x] /\ Batch(ids, Rid \ B)[x] = "absent"
                           \/ Batch(ids, B)[x] = "absent" /\ Batch(ids, Rid \ B)[x] = ids[x]
BY Zenon DEF Batch, Entry

\* What SetUserIdentities sends is well typed.
LEMMA SetType ==
  ASSUME NEW res \in Resources, NEW p \in [Rid -> Entry]
  PROVE  SetUserIdentities(res, p) \in [type : ResourceIdentityType, ids : [Rid -> Entry]]
BY Zenon DEF SetUserIdentities, getUpdatedResourceIdentityType, Resources, ResourceIdentityType, Empty, Entry

\* So is the resource after a PATCH.
LEMMA PatchedType ==
  ASSUME NEW res \in Resources, NEW v \in [type : ResourceIdentityType, ids : [Rid -> Entry]]
  PROVE  Patched(res, v) \in Resources
BY Zenon DEF Patched, Resources, With

\* Replacing the identities of one resource's copy changes nothing else.
LEMMA SetIdsType ==
  ASSUME TypeOK, NEW r \in Resource, NEW p \in [Rid -> Entry]
  PROVE  /\ [vm EXCEPT ![r].ids = p] \in [Resource -> [type : ResourceIdentityType, ids : [Rid -> Entry]]]
         /\ [vm EXCEPT ![r].ids = p][r].ids = p /\ [vm EXCEPT ![r].ids = p][r].type = vm[r].type
         /\ \A u \in Resource : u # r => [vm EXCEPT ![r].ids = p][u] = vm[u]
<1>1. vm[r] \in [type : ResourceIdentityType, ids : [Rid -> Entry]]
  BY Zenon, TypeParts DEF CallType
<1>2. /\ [vm[r] EXCEPT !.ids = p] \in [type : ResourceIdentityType, ids : [Rid -> Entry]]
      /\ [vm[r] EXCEPT !.ids = p].ids = p /\ [vm[r] EXCEPT !.ids = p].type = vm[r].type
  BY Zenon, <1>1
<1> QED BY Zenon, <1>2, TypeParts DEF CallType

\* What Fail leaves.
LEMMA FailType ==
  ASSUME TypeOK, NEW r \in Resource, NEW names, Fail(r, names)
  PROVE  /\ failed' = [failed EXCEPT ![r] = WithError(failed[r], names)]
         /\ failed' \in [Resource -> Errors]
         /\ retries' \in [Resource -> 0..maxRetry]
         /\ vm' \in [Resource -> [type : ResourceIdentityType, ids : [Rid -> Entry]]]
         /\ \/ pc' = [pc EXCEPT ![r] = "update"]
            \/ pc' = [pc EXCEPT ![r] = "return"]
         /\ \A u \in Resource : u # r => vm'[u] = vm[u]
         /\ vm'[r].type = vm[r].type
         /\ \A x \in Rid : vm'[r].ids[x] \in {vm[r].ids[x], "absent"}
<1> DEFINE ids == [x \in Rid |-> IF x \in names THEN "absent" ELSE vm[r].ids[x]]
<1>0. vm[r] \in [type : ResourceIdentityType, ids : [Rid -> Entry]] /\ maxRetry \in Nat
  BY Zenon, CloudAssumption, TypeParts DEF CloudAssumption, CallType
<1>1. ids \in [Rid -> Entry]
  BY Zenon, <1>0 DEF Entry
<1>4. failed' = [failed EXCEPT ![r] = WithError(failed[r], names)] /\ failed' \in [Resource -> Errors]
  <2>1. WithError(failed[r], names) \in Errors
    BY Zenon DEF WithError, Errors
  <2>2. failed' = [failed EXCEPT ![r] = WithError(failed[r], names)]
    BY Zenon DEF Fail
  <2> QED BY Zenon, <2>1, <2>2, TypeParts DEF CallType
<1>2. CASE /\ retries[r] < maxRetry /\ Goto(r, "update")
           /\ retries' = [retries EXCEPT ![r] = @ + 1]
           /\ vm' = [vm EXCEPT ![r].ids = ids]
  <2>1. vm' \in [Resource -> [type : ResourceIdentityType, ids : [Rid -> Entry]]]
    BY Zenon, <1>1, <1>2, SetIdsType
  <2>2. vm'[r].ids = ids /\ vm'[r].type = vm[r].type /\ \A u \in Resource : u # r => vm'[u] = vm[u]
    BY Zenon, <1>1, <1>2, SetIdsType
  <2>3. retries' \in [Resource -> 0..maxRetry]
    BY <1>0, <1>2, TypeParts DEF CallType
  <2> QED BY <1>2, <1>4, <2>1, <2>2, <2>3 DEF Goto
<1>3. CASE Goto(r, "return") /\ UNCHANGED <<retries, vm>>
  BY Zenon, <1>3, <1>4, TypeParts DEF Goto, CallType
<1> QED BY Zenon, <1>2, <1>3 DEF Fail

\* What SendBatch leaves.
LEMMA SendType ==
  ASSUME TypeOK, NEW r \in Resource, NEW ids \in [Rid -> Entry], SendBatch(r, ids)
  PROVE  \E p, q \in [Rid -> Entry] :
           /\ vm' = [vm EXCEPT ![r].ids = p] /\ rest' = [rest EXCEPT ![r] = q]
           /\ \A x \in Rid : \/ p[x] = ids[x] /\ q[x] = "absent"
                             \/ p[x] = "absent" /\ q[x] = ids[x]
<1>1. PICK B : vm' = [vm EXCEPT ![r].ids = Batch(ids, B)] /\ rest' = [rest EXCEPT ![r] = Batch(ids, Rid \ B)]
  BY Zenon DEF SendBatch
<1>2. /\ Batch(ids, B) \in [Rid -> Entry] /\ Batch(ids, Rid \ B) \in [Rid -> Entry]
      /\ \A x \in Rid : \/ Batch(ids, B)[x] = ids[x] /\ Batch(ids, Rid \ B)[x] = "absent"
                        \/ Batch(ids, B)[x] = "absent" /\ Batch(ids, Rid \ B)[x] = ids[x]
  BY Zenon, BatchSplits
<1> DEFINE p == Batch(ids, B)
           q == Batch(ids, Rid \ B)
<1> p \in [Rid -> Entry] /\ q \in [Rid -> Entry]
  BY Zenon, <1>2
<1> WITNESS p \in [Rid -> Entry], q \in [Rid -> Entry]
<1> QED BY Zenon, <1>1, <1>2

\* Every step of a call keeps the types of the calls.
LEMMA CallTypeKept ==
  ASSUME TypeOK, NEW r \in Resource, Call(r) \/ Step(r)
  PROVE  CallType'
<1>1. CASE Call(r)
  BY Zenon, <1>1, CloudAssumption, TypeParts DEF CloudAssumption, Call, Goto, CallType
<1>2. CASE Begin(r)
  BY Zenon, <1>2, TypeParts DEF Begin, Goto, Errors, CallType
<1>3. CASE Get(r)
  <2>1. PICK p \in [Rid -> Entry] :
          /\ vm' = [vm EXCEPT ![r] = SetUserIdentities(azure[r], p)]
          /\ Goto(r, IF requiresUpdate(azure[r], p) THEN "update" ELSE "return")
    BY Zenon, <1>3 DEF Get
  <2>2. vm' \in [Resource -> [type : ResourceIdentityType, ids : [Rid -> Entry]]]
    BY Zenon, <2>1, SetType, TypeParts DEF CallType
  <2> QED BY Zenon, <1>3, <2>1, <2>2, TypeParts DEF Get, Goto, CallType
<1>4. CASE GetFails(r)
  BY Zenon, <1>4, TypeParts DEF GetFails, Goto, Errors, CallType
<1>5. CASE UpdateIdentities(r)
  <2>1. CASE Fail(r, {}) /\ UNCHANGED rest
    <3>1. /\ failed' \in [Resource -> Errors] /\ retries' \in [Resource -> 0..maxRetry]
          /\ vm' \in [Resource -> [type : ResourceIdentityType, ids : [Rid -> Entry]]]
      BY Zenon, <2>1, FailType
    <3>2. pc' = [pc EXCEPT ![r] = "update"] \/ pc' = [pc EXCEPT ![r] = "return"]
      BY Zenon, <2>1, FailType
    <3> QED BY Zenon, <1>5, <2>1, <3>1, <3>2, TypeParts DEF UpdateIdentities, CallType
  <2>2. CASE SendBatch(r, vm[r].ids) /\ Goto(r, "patch") /\ UNCHANGED <<failed, retries>>
    <3>1. PICK p, q \in [Rid -> Entry] : vm' = [vm EXCEPT ![r].ids = p] /\ rest' = [rest EXCEPT ![r] = q]
      <4>1. vm[r].ids \in [Rid -> Entry]
        BY Zenon, TypeParts DEF CallType
      <4> QED BY <2>2, <4>1, SendType
    <3>2. vm' \in [Resource -> [type : ResourceIdentityType, ids : [Rid -> Entry]]] /\ rest' \in [Resource -> [Rid -> Entry]]
      BY Zenon, <3>1, SetIdsType, TypeParts DEF CallType
    <3> QED BY Zenon, <1>5, <2>2, <3>2, TypeParts DEF UpdateIdentities, Goto, CallType
  <2> QED BY Zenon, <1>5, <2>1, <2>2 DEF UpdateIdentities
<1>6. CASE Update(r)
  <2>1. azure' \in [Resource -> Resources]
    BY Zenon, <1>6, PatchedType, TypeParts DEF Update, CallType
  <2>2. CASE rest[r] = Empty
    BY Zenon, <1>6, <2>1, <2>2, TypeParts DEF Update, Goto, CallType
  <2>3. CASE rest[r] # Empty
    <3>1. PICK p, q \in [Rid -> Entry] : vm' = [vm EXCEPT ![r].ids = p] /\ rest' = [rest EXCEPT ![r] = q]
      <4>1. rest[r] \in [Rid -> Entry]
        BY Zenon, TypeParts DEF CallType
      <4>2. SendBatch(r, rest[r])
        BY Zenon, <1>6, <2>3 DEF Update
      <4> QED BY <4>1, <4>2, SendType
    <3>2. vm' \in [Resource -> [type : ResourceIdentityType, ids : [Rid -> Entry]]] /\ rest' \in [Resource -> [Rid -> Entry]]
      BY Zenon, <3>1, SetIdsType, TypeParts DEF CallType
    <3> QED BY Zenon, <1>6, <2>1, <2>3, <3>2, TypeParts DEF Update, CallType
  <2> QED BY Zenon, <2>2, <2>3
<1>7. CASE UpdateFails(r)
  <2>1. azure' \in [Resource -> Resources]
    <3>1. UNCHANGED azure \/ azure' = [azure EXCEPT ![r] = Patched(azure[r], vm[r])]
      BY Zenon, <1>7 DEF UpdateFails
    <3>2. Patched(azure[r], vm[r]) \in Resources
      BY Zenon, PatchedType, TypeParts DEF CallType
    <3> QED BY Zenon, <3>1, <3>2, TypeParts DEF CallType
  <2>2. PICK names : Fail(r, names)
    BY Zenon, <1>7 DEF UpdateFails
  <2>3. /\ failed' \in [Resource -> Errors] /\ retries' \in [Resource -> 0..maxRetry]
        /\ vm' \in [Resource -> [type : ResourceIdentityType, ids : [Rid -> Entry]]]
    BY Zenon, <2>2, FailType
  <2>4. pc' = [pc EXCEPT ![r] = "update"] \/ pc' = [pc EXCEPT ![r] = "return"]
    BY Zenon, <2>2, FailType
  <2> QED BY Zenon, <1>7, <2>1, <2>3, <2>4, TypeParts DEF UpdateFails, CallType
<1>8. CASE Return(r)
  <2>1. vm' \in [Resource -> [type : ResourceIdentityType, ids : [Rid -> Entry]]] /\ rest' \in [Resource -> [Rid -> Entry]]
    BY Zenon, <1>8, TypeParts DEF Return, NoVM, Empty, Entry, ResourceIdentityType, CallType
  <2>2. retries' \in [Resource -> 0..maxRetry]
    BY <1>8, CloudAssumption, TypeParts DEF CloudAssumption, Return, CallType
  <2> QED BY Zenon, <1>8, <2>1, <2>2, TypeParts DEF Return, Errors, CallType
<1> QED BY Zenon, <1>1, <1>2, <1>3, <1>4, <1>5, <1>6, <1>7, <1>8 DEF Step

\* Every step of a call keeps the types of the deadlines.
LEMMA DeadlineTypeKept ==
  ASSUME TypeOK, NEW r \in Resource, Call(r) \/ Step(r)
  PROVE  DeadlineType'
<1>1. DeadlineType /\ KindOf[r] \in Kind
  BY Zenon, TypeParts, CloudAssumption DEF CloudAssumption
<1>2. <<KindOf[r], "read">> \in Kind \X {"read", "write"} /\ <<KindOf[r], "write">> \in Kind \X {"read", "write"}
  BY Zenon, <1>1
<1>3. CASE UNCHANGED <<retryAfterReader, retryAfterWriter, window>>
  BY Zenon, <1>1, <1>3 DEF DeadlineType
<1>4. CASE GetFails(r)
  <2>1. window' \in {window, window \cup {<<KindOf[r], "read">>}} /\ retryAfterWriter' = retryAfterWriter
    BY Zenon, <1>4 DEF GetFails
  <2>2. window' \in SUBSET (Kind \X {"read", "write"})
    BY Zenon, <1>1, <1>2, <2>1 DEF DeadlineType
  <2>3. UNCHANGED retryAfterReader \/ \E e \in BOOLEAN : retryAfterReader' = [retryAfterReader EXCEPT ![KindOf[r]] = e]
    BY Zenon, <1>4 DEF GetFails
  <2>4. retryAfterReader' \in [Kind -> BOOLEAN]
    BY Zenon, <1>1, <2>3 DEF DeadlineType
  <2> QED BY Zenon, <1>1, <2>1, <2>2, <2>4 DEF DeadlineType
<1>5. CASE UpdateFails(r)
  <2>1. window' \in {window, window \cup {<<KindOf[r], "write">>}} /\ retryAfterReader' = retryAfterReader
    BY Zenon, <1>5 DEF UpdateFails
  <2>2. window' \in SUBSET (Kind \X {"read", "write"})
    BY Zenon, <1>1, <1>2, <2>1 DEF DeadlineType
  <2>3. UNCHANGED retryAfterWriter \/ \E e \in BOOLEAN : retryAfterWriter' = [retryAfterWriter EXCEPT ![KindOf[r]] = e]
    BY Zenon, <1>5 DEF UpdateFails
  <2>4. retryAfterWriter' \in [Kind -> BOOLEAN]
    BY Zenon, <1>1, <2>3 DEF DeadlineType
  <2> QED BY Zenon, <1>1, <2>1, <2>2, <2>4 DEF DeadlineType
<1>6. Call(r) \/ Begin(r) \/ Get(r) \/ UpdateIdentities(r) \/ Update(r) \/ Return(r)
      => UNCHANGED <<retryAfterReader, retryAfterWriter, window>>
  BY Zenon DEF Call, Begin, Get, UpdateIdentities, Update, Return, deadlines
<1> QED BY Zenon, <1>3, <1>4, <1>5, <1>6 DEF Step

\* A step of a call marks its own request only, and leaves the configuration alone.
LEMMA SentTypeKept ==
  ASSUME TypeOK, NEW r \in Resource, Call(r) \/ Step(r)
  PROVE  SentType' /\ ConfType'
<1>1. SentType /\ ConfType
  BY Zenon, TypeParts
<1>2. UNCHANGED conf
  BY Zenon DEF Step, Call, Begin, Get, GetFails, UpdateIdentities, Update, UpdateFails, Return, deadlines
<1>3. \/ UNCHANGED sent
      \/ \E m \in SUBSET {"lost", "old"} : sent' = [sent EXCEPT ![r] = m]
  <2>1. {} \in SUBSET {"lost", "old"} /\ {"lost"} \in SUBSET {"lost", "old"}
    BY Zenon
  <2>2. CASE Call(r) \/ GetFails(r) \/ Update(r) \/ UpdateFails(r)
    BY Zenon, <2>2 DEF Call, GetFails, Update, UpdateFails
  <2>3. CASE Begin(r)
    BY Zenon, <2>1, <2>3 DEF Begin
  <2>4. CASE Get(r) \/ UpdateIdentities(r) \/ Return(r)
    BY Zenon, <2>1, <2>4 DEF Get, UpdateIdentities, Return
  <2> QED BY Zenon, <2>2, <2>3, <2>4 DEF Step
<1> QED BY Zenon, <1>1, <1>2, <1>3 DEF SentType, ConfType, conf

\* The watcher leaves the calls alone, but not their deadlines, and makes clients only
\* from a configuration that it has read.
LEMMA WatchTypeKept ==
  ASSUME TypeOK, WriteFile \/ Watch
  PROVE  CallType' /\ DeadlineType' /\ SentType' /\ ConfType'
<1>0. CallType /\ DeadlineType /\ SentType /\ ConfType
  BY Zenon, TypeParts
<1>1. UNCHANGED calls
  BY Zenon DEF WriteFile, Watch, Reload, ReadConfig, NewClient
<1>2. CallType'
  BY Zenon, <1>0, <1>1 DEF CallType, calls
<1>3. CASE WriteFile
  <2>1. file' \in 0..MaxWrites
    BY <1>0, <1>3, CloudAssumption DEF CloudAssumption, WriteFile, ConfType
  <2> QED BY Zenon, <1>0, <1>2, <1>3, <2>1 DEF WriteFile, DeadlineType, SentType, ConfType
<1>4. CASE Reload
  BY Zenon, <1>0, <1>2, <1>4 DEF Reload, DeadlineType, SentType, ConfType, Kind
<1>5. CASE ReadConfig
  BY <1>0, <1>2, <1>5, CloudAssumption DEF CloudAssumption, ReadConfig, DeadlineType, SentType, ConfType, Kind
<1>6. ASSUME NEW k \in Kind, NewClient(k)
      PROVE  DeadlineType' /\ SentType' /\ ConfType'
  <2>1. DeadlineType'
    BY Zenon, <1>0, <1>6 DEF NewClient, DeadlineType
  <2>2. SentType'
    BY Zenon, <1>0, <1>6 DEF NewClient, SentType
  <2>3. client' \in [Kind -> 0..MaxWrites]
    BY Zenon, <1>0, <1>6 DEF NewClient, ConfType
  <2>4. ConfType'
    BY Zenon, <1>0, <1>6, <2>3 DEF NewClient, ConfType, Kind
  <2> QED BY Zenon, <2>1, <2>2, <2>4
<1> QED BY Zenon, <1>2, <1>3, <1>4, <1>5, <1>6 DEF Watch

\* CloudProvider keeps its types: the retry counter stays within maxRetry, and no client
\* is made from an empty configuration.
THEOREM CloudTypeCorrect == Spec => []TypeOK
<1>1. Init => TypeOK
  <2> SUFFICES ASSUME Init PROVE TypeOK
    BY Zenon
  <2>1. CallType
    BY CloudAssumption DEF CloudAssumption, Init, Errors, CallType, NoVM, Empty, Entry, ResourceIdentityType
  <2>2. DeadlineType /\ SentType
    BY Zenon DEF Init, DeadlineType, SentType
  <2>3. ConfType
    <3>1. 0 \in 0..MaxWrites /\ None # 0
      BY CloudAssumption DEF CloudAssumption
    <3>2. event \in BOOLEAN /\ loader = "wait" /\ file = 0 /\ Config = 0 /\ client = [k \in Kind |-> 0]
      BY Zenon DEF Init
    <3> QED BY Zenon, <3>1, <3>2 DEF ConfType, Kind
  <2> QED BY Zenon, <2>1, <2>2, <2>3, TypeParts
<1>2. TypeOK /\ [Next]_vars => TypeOK'
  <2> SUFFICES ASSUME TypeOK, [Next]_vars PROVE CallType' /\ DeadlineType' /\ SentType' /\ ConfType'
    BY Zenon DEF TypeOK, CallType, DeadlineType, SentType, ConfType
  <2>1. CASE \E r \in Resource : Call(r) \/ Step(r)
    BY Zenon, <2>1, CallTypeKept, DeadlineTypeKept, SentTypeKept
  <2>2. CASE \E k \in Kind : Expire(k)
    BY Zenon, <2>2, TypeParts DEF Expire, CallType, DeadlineType, SentType, ConfType, conf
  <2>3. CASE WriteFile \/ Watch
    BY Zenon, <2>3, WatchTypeKept
  <2>4. CASE UNCHANGED vars
    BY Zenon, <2>4, TypeParts DEF vars, conf, CallType, DeadlineType, SentType, ConfType
  <2> QED BY Zenon, <2>1, <2>2, <2>3, <2>4 DEF Next
<1> QED BY <1>1, <1>2, PTL DEF Spec

-----------------------------------------------------------------------------
\* The promise.  The strengthening says, of a call under way, that what it still
\* has to PATCH is on its lists, and that until an attempt fails everything on its
\* lists is done or still to be PATCHed.

Add(r) == Canonical(req[r]).add
Remove(r) == Canonical(req[r]).remove \ Canonical(req[r]).add
User(type) == type \in {"UserAssigned", "SystemAssignedUserAssigned"}

Listed(r, p) == \A x \in Rid : (p[x] = "add" => x \in Add(r)) /\ (p[x] = "del" => x \in Remove(r))
Pending(r, x, e) == vm[r].ids[x] = e \/ (pc[r] = "patch" /\ rest[r][x] = e)
Done(r) == Add(r) \subseteq azure[r].ids /\ Remove(r) \cap azure[r].ids = {}

CallInv(r) ==
  /\ pc[r] = "idle" <=> req[r] = None
  /\ req[r] # None => req[r] \in Requests
  /\ pc[r] \in {"update", "patch"} => Listed(r, vm[r].ids)
  /\ pc[r] = "patch" => Listed(r, rest[r])
  /\ pc[r] \in {"update", "patch"} /\ ~User(vm[r].type) => azure[r].ids \subseteq Remove(r) /\ Add(r) = {}
  /\ pc[r] \in {"update", "patch"} /\ User(vm[r].type) /\ failed[r] = "none" =>
       \A x \in Rid : /\ x \in Add(r) => x \in azure[r].ids \/ Pending(r, x, "add")
                      /\ x \in Remove(r) => x \notin azure[r].ids \/ Pending(r, x, "del")
  /\ pc[r] = "return" /\ failed[r] = "none" => Done(r)

\* The lists hold identities.
LEMMA ListsType ==
  ASSUME TypeOK, NEW r \in Resource, CallInv(r), pc[r] # "idle"
  PROVE  Add(r) \subseteq Rid /\ Remove(r) \subseteq Rid /\ req[r] \in Requests
<1>1. req[r] \in Requests
  BY Zenon DEF CallInv
<1>2. req[r].add \subseteq Rid \X Spelling /\ req[r].remove \subseteq Rid \X Spelling
  BY Zenon, <1>1, CloudAssumption DEF CloudAssumption, ResourceID
<1>3. {x[1] : x \in req[r].add} \subseteq Rid /\ {x[1] : x \in req[r].remove} \subseteq Rid
  BY Zenon, <1>2
<1> QED BY Zenon, <1>1, <1>3 DEF Add, Remove, Canonical

\* A step that leaves the call on u alone keeps its part of the invariant.
LEMMA CallFrame ==
  ASSUME NEW u \in Resource, CallInv(u),
         azure'[u] = azure[u], pc'[u] = pc[u], req'[u] = req[u], vm'[u] = vm[u],
         rest'[u] = rest[u], failed'[u] = failed[u]
  PROVE  CallInv(u)'
BY Zenon DEF CallInv, Listed, Pending, Done, Add, Remove

\* With one spelling per identity, the maps of UpdateUserMSI say of each identity
\* that it is to be assigned, or un-assigned, or neither.
LEMMA WantedIs ==
  ASSUME OneSpelling, NEW q \in Requests, NEW x \in Rid
  PROVE  /\ x \in Canonical(q).add => Wanted(q, x) = {TRUE}
         /\ x \in Canonical(q).remove \ Canonical(q).add => Wanted(q, x) = {FALSE}
         /\ x \notin Canonical(q).add \cup Canonical(q).remove => Wanted(q, x) = {}
<1>1. x \in Canonical(q).add <=> \E s \in q.add : s[1] = x
  BY Zenon DEF Canonical
<1>2. x \in Canonical(q).remove <=> \E s \in q.remove : s[1] = x
  BY Zenon DEF Canonical
<1>3. TRUE \in Wanted(q, x) <=> \E s \in q.add : s[1] = x
  BY Zenon DEF Wanted
<1>4. FALSE \in Wanted(q, x) <=> \E s \in q.remove \ q.add : s[1] = x
  BY Zenon DEF Wanted
<1>5. Wanted(q, x) \subseteq {TRUE, FALSE}
  BY Zenon DEF Wanted
<1>6. \A s, u \in q.add \cup q.remove : s[1] = u[1] => s = u
  BY Zenon DEF OneSpelling
<1>7. (\E s \in q.add : s[1] = x) => ~ \E s \in q.remove \ q.add : s[1] = x
  BY Zenon, <1>6
<1>8. (\E s \in q.remove : s[1] = x) /\ (~ \E s \in q.add : s[1] = x) => \E s \in q.remove \ q.add : s[1] = x
  BY Zenon
<1>9. (~ \E s \in q.remove : s[1] = x) => ~ \E s \in q.remove \ q.add : s[1] = x
  BY Zenon
<1>10. CASE x \in Canonical(q).add
  <2>1. TRUE \in Wanted(q, x) /\ FALSE \notin Wanted(q, x)
    BY Zenon, <1>1, <1>3, <1>4, <1>7, <1>10
  <2>2. Wanted(q, x) = {TRUE}
    BY Zenon, <1>5, <2>1
  <2> QED BY Zenon, <1>10, <2>2
<1>11. CASE x \in Canonical(q).remove \ Canonical(q).add
  <2>1. TRUE \notin Wanted(q, x) /\ FALSE \in Wanted(q, x)
    BY Zenon, <1>1, <1>2, <1>3, <1>4, <1>8, <1>11
  <2>2. Wanted(q, x) = {FALSE}
    BY Zenon, <1>5, <2>1
  <2> QED BY Zenon, <1>11, <2>2
<1>12. CASE x \notin Canonical(q).add \cup Canonical(q).remove
  <2>1. TRUE \notin Wanted(q, x) /\ FALSE \notin Wanted(q, x)
    BY Zenon, <1>1, <1>2, <1>3, <1>4, <1>9, <1>12
  <2>2. Wanted(q, x) = {}
    BY Zenon, <1>5, <2>1
  <2> QED BY Zenon, <1>12, <2>2
<1> QED BY Zenon, <1>10, <1>11, <1>12

\* What SetUserIdentities PATCHes is exactly what is missing.
LEMMA EntriesAre ==
  ASSUME OneSpelling, NEW q \in Requests, NEW cur, NEW p \in [Rid -> Entry],
         \A x \in Rid : p[x] \in Entries(cur, Wanted(q, x), x), NEW x \in Rid
  PROVE  /\ p[x] = "add" <=> x \in Canonical(q).add /\ x \notin cur
         /\ p[x] = "del" <=> x \in (Canonical(q).remove \ Canonical(q).add) /\ x \in cur
<1>1. {TRUE} # {FALSE} /\ {TRUE} # {TRUE, FALSE} /\ {FALSE} # {TRUE, FALSE} /\ {} # {TRUE} /\ {} # {FALSE} /\ {} # {TRUE, FALSE}
  BY Zenon
<1>2. p[x] \in Entries(cur, Wanted(q, x), x)
  BY Zenon
<1>3. CASE x \in Canonical(q).add
  <2>1. Wanted(q, x) = {TRUE}
    BY Zenon, <1>3, WantedIs
  <2>2. Entries(cur, {TRUE}, x) = IF x \in cur THEN {"absent"} ELSE {"add"}
    BY Zenon, <1>1 DEF Entries
  <2>3. p[x] = IF x \in cur THEN "absent" ELSE "add"
    BY Zenon, <1>2, <2>1, <2>2
  <2> QED BY Zenon, <1>3, <2>3
<1>4. CASE x \in Canonical(q).remove \ Canonical(q).add
  <2>1. Wanted(q, x) = {FALSE}
    BY Zenon, <1>4, WantedIs
  <2>2. Entries(cur, {FALSE}, x) = IF x \in cur THEN {"del"} ELSE {"absent"}
    BY Zenon, <1>1 DEF Entries
  <2>3. p[x] = IF x \in cur THEN "del" ELSE "absent"
    BY Zenon, <1>2, <2>1, <2>2
  <2> QED BY Zenon, <1>4, <2>3
<1>5. CASE x \notin Canonical(q).add \cup Canonical(q).remove
  <2>1. Wanted(q, x) = {}
    BY Zenon, <1>5, WantedIs
  <2>2. Entries(cur, {}, x) = {"absent"}
    BY Zenon, <1>1 DEF Entries
  <2>3. p[x] = "absent"
    BY Zenon, <1>2, <2>1, <2>2
  <2> QED BY Zenon, <1>5, <2>3
<1> QED BY Zenon, <1>3, <1>4, <1>5

\* The GET and SetUserIdentities establish the invariant of the call.
LEMMA GetInv ==
  ASSUME OneSpelling, TypeOK, NEW r \in Resource, CallInv(r), Get(r)
  PROVE  CallInv(r)'
<1>1. PICK p \in [Rid -> Entry] :
        /\ \A x \in Rid : p[x] \in Entries(azure[r].ids, Wanted(req[r], x), x)
        /\ vm' = [vm EXCEPT ![r] = SetUserIdentities(azure[r], p)]
        /\ Goto(r, IF requiresUpdate(azure[r], p) THEN "update" ELSE "return")
  BY Zenon DEF Get
<1>2. /\ azure' = azure /\ req' = req /\ failed' = failed /\ pc[r] = "get"
      /\ pc'[r] = IF requiresUpdate(azure[r], p) THEN "update" ELSE "return"
      /\ vm'[r] = SetUserIdentities(azure[r], p)
  BY Zenon, <1>1, TypeParts DEF Get, Goto, CallType
<1>3. /\ req[r] \in Requests /\ req[r] # None
      /\ Add(r) \subseteq Rid /\ Remove(r) \subseteq Rid /\ azure[r].ids \subseteq Rid
  <2>1. req[r] \in Requests /\ req[r] # None
    BY Zenon, <1>2 DEF CallInv
  <2>2. Add(r) \subseteq Rid /\ Remove(r) \subseteq Rid
    BY Zenon, <1>2, ListsType
  <2>3. azure[r].ids \subseteq Rid
    BY Zenon, TypeParts DEF Resources, CallType
  <2> QED BY Zenon, <2>1, <2>2, <2>3
<1>4. \A x \in Rid : /\ p[x] = "add" <=> x \in Add(r) /\ x \notin azure[r].ids
                     /\ p[x] = "del" <=> x \in Remove(r) /\ x \in azure[r].ids
  <2>1. \A x \in Rid : p[x] \in Entries(azure[r].ids, Wanted(req[r], x), x)
    BY Zenon, <1>1
  <2>2. \A x \in Rid :
          /\ p[x] = "add" <=> x \in Canonical(req[r]).add /\ x \notin azure[r].ids
          /\ p[x] = "del" <=> x \in (Canonical(req[r]).remove \ Canonical(req[r]).add) /\ x \in azure[r].ids
    BY <1>3, <2>1, EntriesAre
  <2> QED BY Zenon, <2>2 DEF Add, Remove
<1>5. Add(r)' = Add(r) /\ Remove(r)' = Remove(r)
  BY Zenon, <1>2 DEF Add, Remove
<1>6. CASE nodeList(azure[r].ids, p) = {}
  <2>1. pc'[r] = "update" /\ vm'[r].ids = Empty /\ ~User(vm'[r].type)
    <3>1. requiresUpdate(azure[r], p)
      BY Zenon, <1>6 DEF requiresUpdate
    <3>2. SetUserIdentities(azure[r], p).ids = Empty /\ SetUserIdentities(azure[r], p).type \in {"SystemAssigned", "None"}
      BY Zenon, <1>6 DEF SetUserIdentities
    <3> QED BY Zenon, <1>2, <3>1, <3>2 DEF User
  <2>2. \A x \in Rid : p[x] # "add" /\ (x \in azure[r].ids => p[x] = "del")
    BY Zenon, <1>6 DEF nodeList
  <2>3. Add(r) = {}
    <3>1. Add(r) \cap Remove(r) = {}
      BY Zenon DEF Add, Remove
    <3> QED BY Zenon, <1>3, <1>4, <2>2, <3>1
  <2>4. azure[r].ids \subseteq Remove(r)
    BY Zenon, <1>3, <1>4, <2>2
  <2>5. Listed(r, Empty)
    BY Zenon DEF Listed, Empty
  <2> QED BY Zenon, <1>2, <1>3, <1>5, <2>1, <2>3, <2>4, <2>5 DEF CallInv, Listed
<1>7. CASE nodeList(azure[r].ids, p) # {} /\ p # Empty
  <2>1. pc'[r] = "update" /\ vm'[r].ids = p /\ User(vm'[r].type)
    <3>1. requiresUpdate(azure[r], p)
      BY Zenon, <1>7 DEF requiresUpdate
    <3>2. /\ SetUserIdentities(azure[r], p).ids = p
          /\ SetUserIdentities(azure[r], p).type = getUpdatedResourceIdentityType(azure[r].type)
      BY Zenon, <1>7 DEF SetUserIdentities
    <3> QED BY Zenon, <1>2, <3>1, <3>2 DEF User, getUpdatedResourceIdentityType
  <2>2. Listed(r, p)
    BY Zenon, <1>4 DEF Listed
  <2>3. \A x \in Rid : /\ x \in Add(r) => x \in azure[r].ids \/ p[x] = "add"
                       /\ x \in Remove(r) => x \notin azure[r].ids \/ p[x] = "del"
    BY Zenon, <1>4
  <2> QED BY Zenon, <1>2, <1>3, <1>5, <2>1, <2>2, <2>3 DEF CallInv, Listed, Pending
<1>8. CASE nodeList(azure[r].ids, p) # {} /\ p = Empty
  <2>1. pc'[r] = "return"
    BY Zenon, <1>2, <1>8 DEF requiresUpdate
  <2>2. \A x \in Rid : p[x] = "absent"
    BY Zenon, <1>8 DEF Empty
  <2>3. Done(r)
    BY Zenon, <1>3, <1>4, <2>2 DEF Done
  <2> QED BY Zenon, <1>2, <1>3, <1>5, <2>1, <2>3 DEF CallInv, Done
<1> QED BY Zenon, <1>6, <1>7, <1>8

\* A failed attempt leaves what is listed, and gives up on the rest.
LEMMA FailInv ==
  ASSUME TypeOK, NEW r \in Resource, CallInv(r), pc[r] \in {"update", "patch"},
         NEW names, Fail(r, names), req' = req,
         ~User(vm[r].type) => azure'[r].ids \subseteq Remove(r)
  PROVE  CallInv(r)'
<1>0. WithError(failed[r], names) # "none"
  BY Zenon DEF WithError
<1>1. /\ pc'[r] \in {"update", "return"} /\ failed'[r] # "none"
      /\ vm'[r].type = vm[r].type
      /\ \A x \in Rid : vm'[r].ids[x] \in {vm[r].ids[x], "absent"}
  <2>1. DOMAIN pc = Resource /\ DOMAIN failed = Resource
    BY Zenon, TypeParts DEF CallType
  <2>2. /\ failed' = [failed EXCEPT ![r] = WithError(failed[r], names)]
        /\ \/ pc' = [pc EXCEPT ![r] = "update"]
           \/ pc' = [pc EXCEPT ![r] = "return"]
        /\ vm'[r].type = vm[r].type
        /\ \A x \in Rid : vm'[r].ids[x] \in {vm[r].ids[x], "absent"}
    BY Zenon, FailType, Zenon
  <2>3. failed'[r] # "none"
    BY Zenon, <1>0, <2>1, <2>2
  <2>4. pc'[r] \in {"update", "return"}
    BY Zenon, <2>1, <2>2
  <2> QED BY Zenon, <2>2, <2>3, <2>4
<1>2. Add(r)' = Add(r) /\ Remove(r)' = Remove(r)
  BY Zenon DEF Add, Remove
<1>3. Listed(r, vm[r].ids)
  BY Zenon DEF CallInv
<1>4. Listed(r, vm[r].ids)'
  BY Zenon, <1>1, <1>2, <1>3 DEF Listed
<1>5. req[r] # None /\ req[r] \in Requests
  BY Zenon DEF CallInv
<1>6. ~User(vm[r].type) => Add(r) = {}
  BY Zenon DEF CallInv
<1> QED BY Zenon, <1>1, <1>2, <1>4, <1>5, <1>6 DEF CallInv

\* Sending a batch moves entries between the batch and the rest.
LEMMA SendInv ==
  ASSUME TypeOK, NEW r \in Resource, NEW ids \in [Rid -> Entry], Listed(r, ids),
         SendBatch(r, ids), req' = req
  PROVE  /\ Listed(r, vm[r].ids)' /\ Listed(r, rest[r])'
         /\ vm'[r].type = vm[r].type
         /\ \A x \in Rid : ids[x] # "absent" => vm'[r].ids[x] = ids[x] \/ rest'[r][x] = ids[x]
<1>1. PICK p, q \in [Rid -> Entry] :
        /\ vm' = [vm EXCEPT ![r].ids = p] /\ rest' = [rest EXCEPT ![r] = q]
        /\ \A x \in Rid : \/ p[x] = ids[x] /\ q[x] = "absent"
                          \/ p[x] = "absent" /\ q[x] = ids[x]
  BY Zenon, SendType
<1>2. vm'[r].ids = p /\ vm'[r].type = vm[r].type /\ rest'[r] = q
  BY <1>1, SetIdsType, TypeParts DEF CallType
<1>3. Add(r)' = Add(r) /\ Remove(r)' = Remove(r)
  BY Zenon DEF Add, Remove
<1> QED BY Zenon, <1>1, <1>2, <1>3 DEF Listed

\* What a PATCH of listed entries does to the identities.
LEMMA PatchedIds ==
  ASSUME TypeOK, NEW r \in Resource, CallInv(r), pc[r] = "patch"
  PROVE  /\ User(vm[r].type) => Patched(azure[r], vm[r]).ids =
                                  (azure[r].ids \ With(vm[r].ids, "del")) \cup With(vm[r].ids, "add")
         /\ ~User(vm[r].type) => Patched(azure[r], vm[r]).ids = {}
         /\ With(vm[r].ids, "add") \subseteq Add(r)
         /\ With(vm[r].ids, "del") \subseteq Remove(r)
<1>1. vm[r].type \in ResourceIdentityType
  BY Zenon, TypeParts DEF CallType
<1>2. Listed(r, vm[r].ids)
  BY Zenon DEF CallInv
<1>3. With(vm[r].ids, "add") \subseteq Add(r) /\ With(vm[r].ids, "del") \subseteq Remove(r)
  BY Zenon, <1>2 DEF Listed, With
<1> QED BY Zenon, <1>1, <1>3 DEF Patched, User, ResourceIdentityType

\* A PATCH that is carried out keeps the invariant.
LEMMA UpdateInv ==
  ASSUME TypeOK, NEW r \in Resource, CallInv(r), Update(r)
  PROVE  CallInv(r)'
<1> DEFINE v == vm[r]
<1>1. /\ pc[r] = "patch" /\ req' = req /\ failed' = failed
      /\ azure'[r] = Patched(azure[r], vm[r])
  BY Zenon, TypeParts DEF Update, CallType
<1>2. Add(r)' = Add(r) /\ Remove(r)' = Remove(r) /\ Add(r) \cap Remove(r) = {}
  BY Zenon, <1>1 DEF Add, Remove
<1>3. /\ req[r] \in Requests /\ req[r] # None
      /\ Add(r) \subseteq Rid /\ Remove(r) \subseteq Rid
  BY Zenon, <1>1, ListsType DEF CallInv
<1>4. ~User(vm[r].type) => azure'[r].ids = {} /\ Add(r) = {}
  BY Zenon, <1>1, PatchedIds DEF CallInv
<1>5. User(vm[r].type) /\ failed[r] = "none" =>
        \A x \in Rid : /\ x \in Add(r) => x \in azure'[r].ids \/ rest[r][x] = "add"
                       /\ x \in Remove(r) => x \notin azure'[r].ids \/ rest[r][x] = "del"
  <2> SUFFICES ASSUME User(vm[r].type), failed[r] = "none", NEW x \in Rid
               PROVE  /\ x \in Add(r) => x \in azure'[r].ids \/ rest[r][x] = "add"
                      /\ x \in Remove(r) => x \notin azure'[r].ids \/ rest[r][x] = "del"
    BY Zenon
  <2>1. /\ x \in Add(r) => x \in azure[r].ids \/ vm[r].ids[x] = "add" \/ rest[r][x] = "add"
        /\ x \in Remove(r) => x \notin azure[r].ids \/ vm[r].ids[x] = "del" \/ rest[r][x] = "del"
    BY Zenon, <1>1 DEF CallInv, Pending
  <2>2. /\ azure'[r].ids = (azure[r].ids \ With(vm[r].ids, "del")) \cup With(vm[r].ids, "add")
        /\ With(vm[r].ids, "add") \subseteq Add(r) /\ With(vm[r].ids, "del") \subseteq Remove(r)
    BY Zenon, <1>1, PatchedIds
  <2>3. (x \in With(vm[r].ids, "add") <=> vm[r].ids[x] = "add") /\ (x \in With(vm[r].ids, "del") <=> vm[r].ids[x] = "del")
    BY Zenon DEF With
  <2> QED BY Zenon, <1>2, <2>1, <2>2, <2>3
<1>6. CASE rest[r] = Empty
  <2>1. pc'[r] = "return"
    BY Zenon, <1>6, TypeParts DEF Update, Goto, CallType
  <2>2. \A x \in Rid : rest[r][x] = "absent"
    BY Zenon, <1>6 DEF Empty
  <2>3. failed[r] = "none" => Done(r)'
    BY Zenon, <1>2, <1>3, <1>4, <1>5, <2>2 DEF Done
  <2> QED BY Zenon, <1>1, <1>3, <2>1, <2>3 DEF CallInv
<1>7. CASE rest[r] # Empty
  <2>1. SendBatch(r, rest[r])
    BY Zenon, <1>7 DEF Update
  <2>2. pc'[r] = "patch"
    BY Zenon, <1>1, <1>7 DEF Update
  <2>3. rest[r] \in [Rid -> Entry] /\ Listed(r, rest[r])
    BY Zenon, <1>1, TypeParts DEF CallInv, CallType
  <2>4. /\ Listed(r, vm[r].ids)' /\ Listed(r, rest[r])'
        /\ vm'[r].type = vm[r].type
        /\ \A x \in Rid : rest[r][x] # "absent" => vm'[r].ids[x] = rest[r][x] \/ rest'[r][x] = rest[r][x]
    BY Zenon, <1>1, <2>1, <2>3, SendInv
  <2>5. User(vm'[r].type) /\ failed'[r] = "none" =>
          \A x \in Rid : /\ x \in Add(r) => x \in azure'[r].ids \/ vm'[r].ids[x] = "add" \/ rest'[r][x] = "add"
                         /\ x \in Remove(r) => x \notin azure'[r].ids \/ vm'[r].ids[x] = "del" \/ rest'[r][x] = "del"
    BY Zenon, <1>1, <1>5, <2>4
  <2> QED BY Zenon, <1>1, <1>2, <1>3, <1>4, <2>2, <2>4, <2>5 DEF CallInv, Pending
<1> QED BY Zenon, <1>6, <1>7

\* Every step of the call on r keeps the invariant of that call.
LEMMA CallStepInv ==
  ASSUME OneSpelling, TypeOK, NEW r \in Resource, CallInv(r), Call(r) \/ Step(r)
  PROVE  CallInv(r)'
<1>1. CASE Call(r)
  <2>1. PICK q \in Requests : req' = [req EXCEPT ![r] = q]
    BY Zenon, <1>1 DEF Call
  <2>2. q # None
    BY Zenon, CloudAssumption DEF CloudAssumption
  <2> QED BY Zenon, <1>1, <2>1, <2>2, TypeParts DEF Call, Goto, CallInv, CallType
<1>2. CASE Begin(r)
  <2>1. req' = req /\ azure' = azure /\ req[r] # None /\ req[r] \in Requests
    BY Zenon, <1>2 DEF Begin, CallInv
  <2>2. CASE req[r].add \cup req[r].remove = {} /\ Goto(r, "return") /\ UNCHANGED failed
    <3>1. req[r].add = {} /\ req[r].remove = {}
      BY Zenon, <2>2
    <3>2. Add(r)' = {} /\ Remove(r)' = {}
      BY Zenon, <2>1, <3>1 DEF Add, Remove, Canonical
    <3> QED BY Zenon, <2>1, <2>2, <3>2, TypeParts DEF CallInv, Done, Goto, CallType
  <2>3. CASE Goto(r, "return") /\ failed' = [failed EXCEPT ![r] = "other"]
    BY Zenon, <2>1, <2>3, TypeParts DEF CallInv, Goto, CallType
  <2>4. CASE Goto(r, "get") /\ UNCHANGED failed
    BY Zenon, <2>1, <2>4, TypeParts DEF CallInv, Goto, CallType
  <2> QED BY Zenon, <1>2, <2>2, <2>3, <2>4 DEF Begin
<1>3. CASE Get(r)
  BY Zenon, <1>3, GetInv
<1>4. CASE GetFails(r)
  BY Zenon, <1>4, TypeParts DEF GetFails, CallInv, Goto, CallType
<1>5. CASE UpdateIdentities(r)
  <2>0. pc[r] = "update" /\ req' = req /\ azure' = azure
    BY Zenon, <1>5 DEF UpdateIdentities
  <2>1. CASE Fail(r, {})
    <3>1. ~User(vm[r].type) => azure'[r].ids \subseteq Remove(r)
      BY Zenon, <2>0 DEF CallInv
    <3> QED BY Zenon, <2>0, <2>1, <3>1, FailInv
  <2>2. CASE SendBatch(r, vm[r].ids) /\ Goto(r, "patch") /\ UNCHANGED <<failed, retries>>
    <3>1. SendBatch(r, vm[r].ids)
      BY Zenon, <2>2
    <3>2. vm[r].ids \in [Rid -> Entry] /\ Listed(r, vm[r].ids)
      BY Zenon, <2>0, TypeParts DEF CallInv, CallType
    <3>3. /\ Listed(r, vm[r].ids)' /\ Listed(r, rest[r])'
          /\ vm'[r].type = vm[r].type
          /\ \A x \in Rid : vm[r].ids[x] # "absent" => vm'[r].ids[x] = vm[r].ids[x] \/ rest'[r][x] = vm[r].ids[x]
      BY Zenon, <2>0, <3>1, <3>2, SendInv
    <3>4. pc'[r] = "patch" /\ failed' = failed
      BY Zenon, <2>2, TypeParts DEF Goto, CallType
    <3>5. Add(r)' = Add(r) /\ Remove(r)' = Remove(r)
      BY Zenon, <2>0 DEF Add, Remove
    <3>6. User(vm'[r].type) /\ failed'[r] = "none" =>
            \A x \in Rid : /\ x \in Add(r) => x \in azure'[r].ids \/ vm'[r].ids[x] = "add" \/ rest'[r][x] = "add"
                           /\ x \in Remove(r) => x \notin azure'[r].ids \/ vm'[r].ids[x] = "del" \/ rest'[r][x] = "del"
      <4>1. User(vm[r].type) /\ failed[r] = "none" =>
              \A x \in Rid : /\ x \in Add(r) => x \in azure[r].ids \/ vm[r].ids[x] = "add"
                             /\ x \in Remove(r) => x \notin azure[r].ids \/ vm[r].ids[x] = "del"
        BY Zenon, <2>0 DEF CallInv, Pending
      <4> QED BY Zenon, <2>0, <3>3, <3>4, <4>1
    <3>7. /\ req[r] # None /\ req[r] \in Requests
          /\ ~User(vm[r].type) => azure[r].ids \subseteq Remove(r) /\ Add(r) = {}
      BY Zenon, <2>0 DEF CallInv
    <3> QED BY Zenon, <2>0, <3>3, <3>4, <3>5, <3>6, <3>7 DEF CallInv, Pending
  <2> QED BY Zenon, <1>5, <2>1, <2>2 DEF UpdateIdentities
<1>6. CASE Update(r)
  BY Zenon, <1>6, UpdateInv
<1>7. CASE UpdateFails(r)
  <2>1. pc[r] = "patch" /\ req' = req /\ \E names : Fail(r, names)
    BY Zenon, <1>7 DEF UpdateFails
  <2>2. azure'[r] = azure[r] \/ azure'[r] = Patched(azure[r], vm[r])
    BY Zenon, <1>7, TypeParts DEF UpdateFails, CallType
  <2>3. ~User(vm[r].type) => azure'[r].ids \subseteq Remove(r)
    BY Zenon, <2>1, <2>2, PatchedIds DEF CallInv
  <2> QED BY Zenon, <2>1, <2>3, FailInv
<1>8. CASE Return(r)
  BY Zenon, <1>8, TypeParts DEF Return, CallInv, CallType
<1> QED BY Zenon, <1>1, <1>2, <1>3, <1>4, <1>5, <1>6, <1>7, <1>8 DEF Step

\* A failed attempt of one call leaves the other calls alone.
LEMMA FailOthers ==
  ASSUME TypeOK, NEW r \in Resource, NEW names, Fail(r, names), NEW u \in Resource, u # r
  PROVE  pc'[u] = pc[u] /\ failed'[u] = failed[u] /\ vm'[u] = vm[u]
<1>1. vm'[u] = vm[u]
  BY Zenon, FailType
<1>2. failed' = [failed EXCEPT ![r] = WithError(failed[r], names)]
  BY Zenon, FailType
<1>3. pc' = [pc EXCEPT ![r] = "update"] \/ pc' = [pc EXCEPT ![r] = "return"]
  BY Zenon, FailType
<1> QED BY Zenon, <1>1, <1>2, <1>3, TypeParts DEF CallType

\* So does a batch.
LEMMA SendOthers ==
  ASSUME TypeOK, NEW r \in Resource, NEW ids \in [Rid -> Entry], SendBatch(r, ids),
         NEW u \in Resource, u # r
  PROVE  vm'[u] = vm[u] /\ rest'[u] = rest[u]
<1>1. PICK p, q \in [Rid -> Entry] : vm' = [vm EXCEPT ![r].ids = p] /\ rest' = [rest EXCEPT ![r] = q]
  BY SendType
<1> QED BY Zenon, <1>1, TypeParts DEF CallType

\* A batch carries the type of the attempt.
LEMMA SendKeeps ==
  ASSUME TypeOK, NEW r \in Resource, NEW ids \in [Rid -> Entry], SendBatch(r, ids)
  PROVE  vm'[r].type = vm[r].type
<1>1. PICK p \in [Rid -> Entry] : vm' = [vm EXCEPT ![r].ids = p]
  BY Zenon, SendType
<1> QED BY Zenon, <1>1, SetIdsType

\* A step of the call on r leaves the other calls alone.
LEMMA OthersAlone ==
  ASSUME TypeOK, NEW r \in Resource, Call(r) \/ Step(r), NEW u \in Resource, u # r
  PROVE  /\ azure'[u] = azure[u] /\ pc'[u] = pc[u] /\ req'[u] = req[u] /\ vm'[u] = vm[u]
         /\ rest'[u] = rest[u] /\ failed'[u] = failed[u]
<1>1. CASE Call(r) \/ Begin(r) \/ Get(r) \/ GetFails(r) \/ Return(r)
  BY Zenon, <1>1, TypeParts DEF Call, Begin, Get, GetFails, Return, Goto, CallType
<1>2. CASE UpdateIdentities(r)
  <2>1. CASE Fail(r, {}) /\ UNCHANGED rest
    <3>1. pc'[u] = pc[u] /\ failed'[u] = failed[u] /\ vm'[u] = vm[u]
      BY Zenon, <2>1, FailOthers
    <3> QED BY Zenon, <1>2, <2>1, <3>1 DEF UpdateIdentities
  <2>2. CASE SendBatch(r, vm[r].ids) /\ Goto(r, "patch") /\ UNCHANGED <<failed, retries>>
    <3>1. vm'[u] = vm[u] /\ rest'[u] = rest[u]
      BY Zenon, <2>2, SendOthers, TypeParts DEF CallType
    <3> QED BY Zenon, <1>2, <2>2, <3>1, TypeParts DEF UpdateIdentities, Goto, CallType
  <2> QED BY Zenon, <1>2, <2>1, <2>2 DEF UpdateIdentities
<1>3. CASE Update(r)
  <2>1. CASE rest[r] = Empty
    BY Zenon, <1>3, <2>1, TypeParts DEF Update, Goto, CallType
  <2>2. CASE rest[r] # Empty
    <3>1. vm'[u] = vm[u] /\ rest'[u] = rest[u]
      BY Zenon, <1>3, <2>2, SendOthers, TypeParts DEF Update, CallType
    <3> QED BY Zenon, <1>3, <2>2, <3>1, TypeParts DEF Update, CallType
  <2> QED BY Zenon, <2>1, <2>2
<1>4. CASE UpdateFails(r)
  <2>1. PICK names : Fail(r, names)
    BY Zenon, <1>4 DEF UpdateFails
  <2>2. azure'[u] = azure[u]
    BY Zenon, <1>4, TypeParts DEF UpdateFails, CallType
  <2>3. req' = req /\ rest' = rest
    BY Zenon, <1>4 DEF UpdateFails
  <2>4. pc'[u] = pc[u] /\ failed'[u] = failed[u] /\ vm'[u] = vm[u]
    BY Zenon, <2>1, FailOthers
  <2> QED BY Zenon, <2>2, <2>3, <2>4
<1> QED BY Zenon, <1>1, <1>2, <1>3, <1>4 DEF Step

\* The running calls keep their invariants.
LEMMA AllCallsInv ==
  ASSUME OneSpelling, TypeOK, \A r \in Resource : CallInv(r), [Next]_vars
  PROVE  \A r \in Resource : CallInv(r)'
<1> SUFFICES ASSUME NEW u \in Resource PROVE CallInv(u)'
  BY Zenon
<1>1. CASE (\E k \in Kind : Expire(k)) \/ WriteFile \/ Watch
  BY Zenon, <1>1, CallFrame DEF Expire, WriteFile, Watch, Reload, ReadConfig, NewClient, calls
<1>2. CASE UNCHANGED vars
  BY Zenon, <1>2, CallFrame DEF vars
<1>3. ASSUME NEW r \in Resource, Call(r) \/ Step(r) PROVE CallInv(u)'
  <2>1. CASE u = r
    BY Zenon, <1>3, <2>1, CallStepInv
  <2>2. CASE u # r
    BY Zenon, <1>3, <2>2, OthersAlone, CallFrame
  <2> QED BY Zenon, <2>1, <2>2
<1> QED BY Zenon, <1>1, <1>2, <1>3 DEF Next

\* The lists of a call are not None.
LEMMA CanonicalSome == ASSUME NEW q \in Requests PROVE Canonical(q) # None
<1>1. q.add \in SUBSET ResourceID /\ q.remove \in SUBSET ResourceID
  BY Zenon, CloudAssumption DEF CloudAssumption
<1>2. {s[1] : s \in q.add} \subseteq Rid /\ {s[1] : s \in q.remove} \subseteq Rid
  BY Zenon, <1>1 DEF ResourceID
<1>3. Canonical(q) \in [add : SUBSET Rid, remove : SUBSET Rid]
  BY Zenon, <1>2 DEF Canonical
<1> QED BY Zenon, <1>3, CloudAssumption DEF CloudAssumption

\* The abstract state that stands for a concrete one.
AbsIds == [r \in Resource |-> azure[r].ids]
AbsReq == [r \in Resource |-> IF req[r] = None THEN None ELSE Canonical(req[r])]

\* Under the invariant, a step of a call is a step of the promise or changes
\* nothing that it speaks of.
LEMMA PromiseStep ==
  ASSUME TypeOK, NEW r \in Resource, CallInv(r), Call(r) \/ Step(r)
  PROVE  Promise!Next \/ UNCHANGED Promise!vars
<1>0. /\ AbsIds = [u \in Resource |-> azure[u].ids]
      /\ AbsReq = [u \in Resource |-> IF req[u] = None THEN None ELSE Canonical(req[u])]
  BY Zenon DEF AbsIds, AbsReq
<1>1. CASE Call(r)
  <2>1. PICK q \in Requests : req' = [req EXCEPT ![r] = q]
    BY Zenon, <1>1 DEF Call
  <2>2. q # None /\ req[r] = None /\ azure' = azure /\ result' = result
    BY Zenon, <1>1, CloudAssumption DEF CloudAssumption, Call, CallInv
  <2>3. AbsReq' = [AbsReq EXCEPT ![r] = Canonical(q)] /\ AbsReq[r] = None
    BY Zenon, <2>1, <2>2, TypeParts DEF AbsReq, CallType
  <2>4. Canonical(q) \in {Canonical(x) : x \in Requests}
    BY Zenon
  <2>5. Promise!Start(r)
    BY Zenon, <2>2, <2>3, <2>4 DEF Promise!Start, AbsReq
  <2> QED BY Zenon, <2>5 DEF Promise!Next
<1>2. CASE Begin(r) \/ Get(r) \/ GetFails(r) \/ UpdateIdentities(r)
  BY Zenon, <1>2 DEF Begin, Get, GetFails, UpdateIdentities, Promise!vars
<1>3. CASE Update(r) \/ UpdateFails(r)
  <2>1. pc[r] = "patch" /\ req' = req /\ result' = result /\ req[r] # None
    BY Zenon, <1>3 DEF Update, UpdateFails, CallInv
  <2>2. azure' = azure \/ azure' = [azure EXCEPT ![r] = Patched(azure[r], vm[r])]
    BY Zenon, <1>3 DEF Update, UpdateFails
  <2>3. CASE azure' = azure
    BY Zenon, <2>1, <2>3 DEF Promise!vars
  <2>4. CASE azure' = [azure EXCEPT ![r] = Patched(azure[r], vm[r])]
    <3>1. AbsIds' = [AbsIds EXCEPT ![r] = Patched(azure[r], vm[r]).ids]
      BY Zenon, <2>4, TypeParts DEF AbsIds, CallType
    <3>2. PICK A \in SUBSET Add(r), D \in SUBSET Remove(r) : Patched(azure[r], vm[r]).ids = (azure[r].ids \ D) \cup A
      <4>1. CASE User(vm[r].type)
        BY Zenon, <2>1, <4>1, PatchedIds
      <4>2. CASE ~User(vm[r].type)
        <5>1. azure[r].ids \subseteq Remove(r) /\ Patched(azure[r], vm[r]).ids = {}
          BY Zenon, <2>1, <4>2, PatchedIds DEF CallInv
        <5>2. {} = (azure[r].ids \ azure[r].ids) \cup {}
          BY Zenon
        <5> QED BY Zenon, <5>1, <5>2
      <4> QED BY Zenon, <4>1, <4>2
    <3>3. AbsReq[r].add = Add(r) /\ AbsReq[r].remove \ AbsReq[r].add = Remove(r) /\ AbsReq[r] # None
      <4>1. AbsReq[r] = Canonical(req[r])
        BY Zenon, <2>1 DEF AbsReq
      <4>2. Canonical(req[r]) # None
        BY Zenon, <2>1, CanonicalSome DEF CallInv
      <4> QED BY Zenon, <4>1, <4>2 DEF Add, Remove
    <3>4. AbsIds' = [AbsIds EXCEPT ![r] = (@ \ D) \cup A]
      BY Zenon, <3>1, <3>2 DEF AbsIds
    <3>5. Promise!Change(r)
      BY Zenon, <1>0, <2>1, <3>3, <3>4 DEF Promise!Change, AbsReq, AbsIds
    <3> QED BY Zenon, <3>5 DEF Promise!Next
  <2> QED BY Zenon, <2>2, <2>3, <2>4
<1>4. CASE Return(r)
  <2>1. pc[r] = "return" /\ req[r] # None /\ azure' = azure
    BY Zenon, <1>4 DEF Return, CallInv
  <2>2. AbsReq' = [AbsReq EXCEPT ![r] = None]
    BY Zenon, <1>4, TypeParts DEF Return, AbsReq, CallType
  <2>3. AbsReq[r] = Canonical(req[r])
    BY Zenon, <2>1 DEF AbsReq
  <2>4. AbsReq[r] # None
    BY Zenon, <2>1, <2>3, CanonicalSome DEF CallInv
  <2>5. CASE failed[r] # "none"
    <3>1. result' = [result EXCEPT ![r] = "error"]
      BY Zenon, <1>4, <2>5 DEF Return
    <3>2. Promise!Finish(r, "error")
      BY Zenon, <2>1, <2>2, <2>4, <3>1 DEF Promise!Finish, AbsReq
    <3> QED BY Zenon, <3>2 DEF Promise!Next
  <2>6. CASE failed[r] = "none"
    <3>1. result' = [result EXCEPT ![r] = "ok"]
      BY Zenon, <1>4, <2>6 DEF Return
    <3>2. Done(r)
      BY Zenon, <2>1, <2>6 DEF CallInv
    <3>3. AbsReq[r].add \subseteq AbsIds[r] /\ (AbsReq[r].remove \ AbsReq[r].add) \cap AbsIds[r] = {}
      BY Zenon, <2>3, <3>2 DEF Done, Add, Remove, AbsIds
    <3>4. Promise!Complete(r)
      BY Zenon, <3>3 DEF Promise!Complete, AbsReq, AbsIds
    <3>5. Promise!Finish(r, "ok")
      BY Zenon, <2>1, <2>2, <2>4, <3>1, <3>4 DEF Promise!Finish, AbsReq
    <3> QED BY Zenon, <3>5 DEF Promise!Next
  <2> QED BY Zenon, <2>5, <2>6
<1> QED BY Zenon, <1>1, <1>2, <1>3, <1>4 DEF Step

\* UpdateUserMSI implements its promise, if no call spells an identity in two ways.
THEOREM PromiseIsKept == ASSUME OneSpelling PROVE Spec => PromiseKept
<1>1. Init => Promise!Init
  BY Zenon DEF Init, Promise!Init
<1>2. Init => \A r \in Resource : CallInv(r)
  <2> SUFFICES ASSUME Init, NEW r \in Resource PROVE CallInv(r)
    BY Zenon
  <2>1. pc[r] = "idle" /\ req[r] = None
    BY Zenon DEF Init
  <2> QED BY Zenon, <2>1 DEF CallInv
<1>3. TypeOK /\ (\A r \in Resource : CallInv(r)) /\ [Next]_vars => (\A r \in Resource : CallInv(r))'
  BY Zenon, AllCallsInv
<1>4. TypeOK /\ (\A r \in Resource : CallInv(r)) /\ [Next]_vars => [Promise!Next]_(Promise!vars)
  <2> SUFFICES ASSUME TypeOK, \A r \in Resource : CallInv(r), [Next]_vars
               PROVE  [Promise!Next]_(Promise!vars)
    BY Zenon
  <2>1. CASE \E r \in Resource : Call(r) \/ Step(r)
    BY Zenon, <2>1, PromiseStep
  <2>2. CASE (\E k \in Kind : Expire(k)) \/ WriteFile \/ Watch \/ UNCHANGED vars
    <3>1. UNCHANGED <<azure, req, result>>
      BY Zenon, <2>2 DEF Expire, WriteFile, Watch, Reload, ReadConfig, NewClient, calls, vars
    <3> QED BY Zenon, <3>1 DEF Promise!vars
  <2> QED BY Zenon, <2>1, <2>2 DEF Next
<1> QED BY <1>1, <1>2, <1>3, <1>4, CloudTypeCorrect, PTL DEF Spec, PromiseKept, Promise!Spec

-----------------------------------------------------------------------------
\* The system-assigned identity.

UserTypes == {"UserAssigned", "SystemAssignedUserAssigned"}

\* What Azure keeps of every resource: one with user-assigned identities has a type that
\* says so.
UserTyped == \A r \in Resource : InitAzure[r].ids # {} => InitAzure[r].type \in UserTypes

\* The type that a call is about to send agrees with the resource's on the
\* system-assigned identity, or the resource has no user-assigned ones and is sent none.
SystemInv(r) ==
  /\ azure[r].ids # {} => azure[r].type \in UserTypes
  /\ pc[r] \in {"update", "patch"} =>
       \/ HasSystem(vm[r].type) <=> HasSystem(azure[r].type)
       \/ azure[r].ids = {} /\ vm[r].type \in {"None", "SystemAssigned"}

KeptAt(r) == azure[r].ids # {} => (HasSystem(azure'[r].type) <=> HasSystem(azure[r].type))

\* What SetUserIdentities sends agrees with the resource it was made from.
LEMMA SetSystem ==
  ASSUME NEW res \in Resources, NEW p \in [Rid -> Entry], res.ids # {} => res.type \in UserTypes
  PROVE  LET v == SetUserIdentities(res, p)
         IN \/ HasSystem(v.type) <=> HasSystem(res.type)
            \/ res.ids = {} /\ v.type \in {"None", "SystemAssigned"}
<1>1. CASE nodeList(res.ids, p) = {}
  BY Zenon, <1>1 DEF SetUserIdentities, HasSystem, UserTypes, Resources, ResourceIdentityType
<1>2. CASE nodeList(res.ids, p) # {}
  BY Zenon, <1>2 DEF SetUserIdentities, getUpdatedResourceIdentityType, HasSystem, Resources, ResourceIdentityType
<1> QED BY Zenon, <1>1, <1>2

\* A PATCH leaves the resource with the type it carried, and without user-assigned
\* identities if that type has none.
LEMMA PatchedSystem ==
  ASSUME NEW res \in Resources, NEW v \in [type : ResourceIdentityType, ids : [Rid -> Entry]]
  PROVE  /\ Patched(res, v).type = v.type
         /\ Patched(res, v).ids # {} => v.type \in UserTypes
BY Zenon DEF Patched, UserTypes, ResourceIdentityType

\* A step of the call on r keeps its invariant, and the system-assigned identity.
LEMMA SystemStep ==
  ASSUME TypeOK, NEW r \in Resource, SystemInv(r), Call(r) \/ Step(r)
  PROVE  SystemInv(r)' /\ KeptAt(r)
<1>0. azure[r] \in Resources /\ vm[r] \in [type : ResourceIdentityType, ids : [Rid -> Entry]]
      /\ pc \in [Resource -> {"idle", "call", "get", "update", "patch", "return"}]
      /\ azure \in [Resource -> Resources]
      /\ vm \in [Resource -> [type : ResourceIdentityType, ids : [Rid -> Entry]]]
  BY Zenon, TypeParts DEF CallType
<1>1. CASE Call(r) \/ Begin(r) \/ GetFails(r) \/ Return(r)
  <2>1. azure' = azure /\ pc'[r] \notin {"update", "patch"}
    BY Zenon, <1>0, <1>1 DEF Call, Begin, GetFails, Return, Goto
  <2> QED BY Zenon, <2>1 DEF SystemInv, KeptAt
<1>2. CASE Get(r)
  <2>1. azure' = azure
    BY Zenon, <1>2 DEF Get
  <2>2. PICK p \in [Rid -> Entry] : vm' = [vm EXCEPT ![r] = SetUserIdentities(azure[r], p)]
    BY Zenon, <1>2 DEF Get
  <2>3. vm'[r] = SetUserIdentities(azure[r], p)
    BY Zenon, <1>0, <2>2
  <2> QED BY Zenon, <1>0, <2>1, <2>3, SetSystem DEF SystemInv, KeptAt
<1>3. CASE UpdateIdentities(r)
  <2>1. azure' = azure /\ pc[r] = "update"
    BY Zenon, <1>3 DEF UpdateIdentities
  <2>2. vm'[r].type = vm[r].type
    <3>1. CASE Fail(r, {})
      BY Zenon, <3>1, FailType
    <3>2. CASE SendBatch(r, vm[r].ids)
      BY Zenon, <1>0, <3>2, SendKeeps
    <3> QED BY Zenon, <1>3, <3>1, <3>2 DEF UpdateIdentities
  <2> QED BY Zenon, <2>1, <2>2 DEF SystemInv, KeptAt
<1>4. ASSUME pc[r] = "patch", azure'[r] \in {azure[r], Patched(azure[r], vm[r])}, vm'[r].type = vm[r].type
      PROVE  SystemInv(r)' /\ KeptAt(r)
  <2>1. CASE azure'[r] = azure[r]
    BY Zenon, <1>4, <2>1 DEF SystemInv, KeptAt
  <2>2. CASE azure'[r] = Patched(azure[r], vm[r])
    <3>1. azure'[r].type = vm[r].type /\ (azure'[r].ids # {} => vm[r].type \in UserTypes)
      <4>1. /\ Patched(azure[r], vm[r]).type = vm[r].type
            /\ Patched(azure[r], vm[r]).ids # {} => vm[r].type \in UserTypes
        BY Zenon, <1>0, PatchedSystem
      <4> QED BY Zenon, <2>2, <4>1
    <3> QED BY Zenon, <1>4, <3>1 DEF SystemInv, KeptAt
  <2> QED BY Zenon, <1>4, <2>1, <2>2
<1>5. CASE Update(r)
  <2>1. pc[r] = "patch" /\ azure'[r] = Patched(azure[r], vm[r])
    BY Zenon, <1>0, <1>5 DEF Update
  <2>2. vm'[r].type = vm[r].type
    <3>1. CASE UNCHANGED vm
      BY Zenon, <3>1
    <3>2. CASE SendBatch(r, rest[r])
      <4>1. rest[r] \in [Rid -> Entry]
        BY Zenon, TypeParts DEF CallType
      <4> QED BY Zenon, <3>2, <4>1, SendKeeps
    <3> QED BY Zenon, <1>5, <3>1, <3>2 DEF Update
  <2> QED BY Zenon, <1>4, <2>1, <2>2
<1>6. CASE UpdateFails(r)
  <2>1. pc[r] = "patch" /\ (UNCHANGED azure \/ azure' = [azure EXCEPT ![r] = Patched(azure[r], vm[r])])
    BY Zenon, <1>6 DEF UpdateFails
  <2>2. azure'[r] \in {azure[r], Patched(azure[r], vm[r])}
    BY Zenon, <1>0, <2>1
  <2>3. PICK names : Fail(r, names)
    BY Zenon, <1>6 DEF UpdateFails
  <2>4. vm'[r].type = vm[r].type
    BY Zenon, <2>3, FailType
  <2> QED BY Zenon, <1>4, <2>1, <2>2, <2>4
<1> QED BY Zenon, <1>1, <1>2, <1>3, <1>5, <1>6 DEF Step

\* No step of a call, of time or of the watcher takes the system-assigned identity off a
\* resource that has user-assigned ones, or gives it one: whatever the batches, the
\* retries and the reloads in between, the type that a PATCH carries is still right.
THEOREM SystemIdentityKept == ASSUME UserTyped PROVE Spec => SystemKeptWithUser
<1>1. Init => \A r \in Resource : SystemInv(r)
  BY Zenon DEF Init, UserTyped, SystemInv
<1>2. TypeOK /\ (\A r \in Resource : SystemInv(r)) /\ [Next]_vars
      => (\A r \in Resource : SystemInv(r))' /\ \A r \in Resource : KeptAt(r)
  <2> SUFFICES ASSUME TypeOK, \A r \in Resource : SystemInv(r), [Next]_vars, NEW u \in Resource
               PROVE  SystemInv(u)' /\ KeptAt(u)
    BY Zenon
  <2>1. CASE (\E k \in Kind : Expire(k)) \/ WriteFile \/ Watch \/ UNCHANGED vars
    <3>1. UNCHANGED <<azure, pc, vm>>
      BY Zenon, <2>1 DEF Expire, WriteFile, Watch, Reload, ReadConfig, NewClient, calls, vars
    <3> QED BY Zenon, <3>1 DEF SystemInv, KeptAt
  <2>2. ASSUME NEW r \in Resource, Call(r) \/ Step(r) PROVE SystemInv(u)' /\ KeptAt(u)
    <3>1. CASE u = r
      BY Zenon, <2>2, <3>1, SystemStep
    <3>2. CASE u # r
      <4>1. azure'[u] = azure[u] /\ pc'[u] = pc[u] /\ vm'[u] = vm[u]
        BY Zenon, <2>2, <3>2, OthersAlone
      <4> QED BY Zenon, <4>1 DEF SystemInv, KeptAt
    <3> QED BY Zenon, <3>1, <3>2
  <2> QED BY Zenon, <2>1, <2>2 DEF Next
<1>3. (\A r \in Resource : KeptAt(r)) =>
        [\A r \in Resource : azure[r].ids # {} => (HasSystem(azure'[r].type) <=> HasSystem(azure[r].type))]_vars
  BY Zenon DEF KeptAt
<1> QED BY <1>1, <1>2, <1>3, CloudTypeCorrect, PTL DEF Spec, SystemKeptWithUser

-----------------------------------------------------------------------------
\* Erroneous identities.  The strengthening counts: the retries so far and the erroneous
\* identities still on the list are no more than those that the call was given, so a
\* retry is left as long as one can be refused; and all of the list is in one batch.

All(r) == Canonical(req[r]).add \cup Canonical(req[r]).remove
Small(r) == Cardinality(All(r)) <= maxIdentitiesCount /\ Cardinality(Add(r) \cap Erroneous) <= maxRetry
Isolated(r) == Add(r) \ Erroneous \subseteq azure[r].ids /\ Remove(r) \cap azure[r].ids = {}

\* What is missing, but for the erroneous identities, is on the list.
Missing(r) ==
  \A x \in Rid : /\ x \in Add(r) \ Erroneous => x \in azure[r].ids \/ vm[r].ids[x] = "add"
                 /\ x \in Remove(r) => x \notin azure[r].ids \/ vm[r].ids[x] = "del"

IsoInv(r) ==
  /\ pc[r] \in {"idle", "call", "get"} => retries[r] = 0 /\ failed[r] = "none"
  /\ pc[r] \in {"update", "patch"} /\ failed[r] # "other" /\ Small(r) =>
       /\ User(vm[r].type) => Missing(r)
       /\ pc[r] = "patch" => rest[r] = Empty
       /\ retries[r] + Cardinality(Refused(r)) <= Cardinality(Add(r) \cap Erroneous)
  /\ pc[r] = "return" /\ failed[r] # "other" /\ Small(r) => Isolated(r)

\* The identities of a call are finitely many.
LEMMA ListsFinite ==
  ASSUME FiniteLists, NEW r \in Resource, CallInv(r), pc[r] # "idle"
  PROVE  IsFiniteSet(All(r)) /\ IsFiniteSet(Add(r) \cap Erroneous)
<1>1. IsFiniteSet(req[r].add) /\ IsFiniteSet(req[r].remove)
  BY Zenon DEF CallInv, FiniteLists
<1>2. ASSUME NEW S, IsFiniteSet(S) PROVE IsFiniteSet({s[1] : s \in S})
  <2> DEFINE T == {s[1] : s \in S}
             f == [s \in S |-> s[1]]
  <2>1. f \in Surjection(S, T)
    BY Zenon DEF Surjection
  <2> HIDE DEF T, f
  <2>2. IsFiniteSet(T)
    BY Zenon, <1>2, <2>1, FS_Surjection
  <2> QED BY Zenon, <2>2 DEF T
<1>3. IsFiniteSet(Canonical(req[r]).add) /\ IsFiniteSet(Canonical(req[r]).remove)
  BY Zenon, <1>1, <1>2 DEF Canonical
<1>4. IsFiniteSet(All(r))
  BY Zenon, <1>3, FS_Union DEF All
<1>5. IsFiniteSet(Add(r) \cap Erroneous)
  BY Zenon, <1>3, FS_Intersection DEF Add
<1> QED BY Zenon, <1>4, <1>5

\* A list that fits is one batch.
LEMMA OneBatch ==
  ASSUME TypeOK, NEW r \in Resource, NEW ids \in [Rid -> Entry], Listed(r, ids),
         IsFiniteSet(All(r)), Cardinality(All(r)) <= maxIdentitiesCount, SendBatch(r, ids)
  PROVE  vm'[r].ids = ids /\ rest'[r] = Empty
<1> DEFINE keys == {x \in Rid : ids[x] # "absent"}
<1>1. keys \in SUBSET All(r)
  <2>1. \A x \in Rid : ids[x] # "absent" => ids[x] = "add" \/ ids[x] = "del"
    BY Zenon DEF Entry
  <2>2. Add(r) \subseteq All(r) /\ Remove(r) \subseteq All(r)
    BY Zenon DEF Add, Remove, All
  <2> QED BY Zenon, <2>1, <2>2 DEF Listed
<1>2. Cardinality(keys) <= maxIdentitiesCount
  <2>1. /\ Cardinality(keys) \in Nat /\ Cardinality(All(r)) \in Nat
        /\ Cardinality(keys) <= Cardinality(All(r))
    BY Zenon, <1>1, FS_Subset, FS_CardinalityType
  <2> QED BY <2>1, CloudAssumption DEF CloudAssumption
<1>3. truncateIdentities(ids) = {keys}
  BY Zenon, <1>2 DEF truncateIdentities
<1>4. vm' = [vm EXCEPT ![r].ids = Batch(ids, keys)] /\ rest' = [rest EXCEPT ![r] = Batch(ids, Rid \ keys)]
  BY Zenon, <1>3 DEF SendBatch
<1>5. Batch(ids, keys) = ids /\ Batch(ids, Rid \ keys) = Empty
  BY Zenon DEF Batch, Empty
<1>6. vm'[r].ids = ids
  <2>1. vm' = [vm EXCEPT ![r].ids = ids]
    BY Zenon, <1>4, <1>5
  <2> QED BY Zenon, <2>1, SetIdsType
<1>7. rest'[r] = Empty
  BY Zenon, <1>4, <1>5, TypeParts DEF CallType
<1> QED BY Zenon, <1>6, <1>7

\* After any other failure the invariant says no more.
LEMMA OtherFailure ==
  ASSUME NEW r \in Resource, pc'[r] \in {"update", "patch", "return"}, failed'[r] = "other"
  PROVE  IsoInv(r)'
BY Zenon DEF IsoInv

\* The failure of an attempt is another failure if it names no identities, or if there was
\* one before.
LEMMA FailOther ==
  ASSUME TypeOK, NEW r \in Resource, NEW names, Fail(r, names), names = {} \/ failed[r] = "other"
  PROVE  IsoInv(r)'
<1>1. failed' = [failed EXCEPT ![r] = "other"]
  BY Zenon, FailType DEF WithError
<1>2. pc' = [pc EXCEPT ![r] = "update"] \/ pc' = [pc EXCEPT ![r] = "return"]
  BY Zenon, FailType
<1>3. failed'[r] = "other" /\ pc'[r] \in {"update", "return"}
  BY Zenon, <1>1, <1>2, TypeParts DEF CallType
<1> QED BY Zenon, <1>3, OtherFailure

\* A refused PATCH is retried without some of the erroneous identities, or nothing else is
\* left to do.
LEMMA RefusedIso ==
  ASSUME FiniteLists, TypeOK, NEW r \in Resource, CallInv(r), IsoInv(r), pc[r] = "patch",
         NEW names \in SUBSET Refused(r), names # {}, Fail(r, names), azure' = azure, req' = req
  PROVE  IsoInv(r)'
<1>1. CASE failed[r] = "other" \/ ~Small(r)
  <2>1. CASE failed[r] = "other"
    BY Zenon, <2>1, FailOther
  <2>2. CASE ~Small(r)
    <3>1. ~Small(r)'
      BY Zenon, <2>2 DEF Small, All, Add
    <3>2. pc'[r] \in {"update", "return"}
      <4>1. pc' = [pc EXCEPT ![r] = "update"] \/ pc' = [pc EXCEPT ![r] = "return"]
        BY Zenon, FailType
      <4> QED BY Zenon, <4>1, TypeParts DEF CallType
    <3> QED BY Zenon, <3>1, <3>2 DEF IsoInv
  <2> QED BY Zenon, <1>1, <2>1, <2>2
<1>2. CASE failed[r] # "other" /\ Small(r)
  <2> DEFINE ids == [x \in Rid |-> IF x \in names THEN "absent" ELSE vm[r].ids[x]]
             n == Cardinality(Refused(r))
             m == Cardinality(Add(r) \cap Erroneous)
  <2>1. /\ vm[r].ids \in [Rid -> Entry] /\ retries \in [Resource -> 0..maxRetry] /\ maxRetry \in Nat
        /\ DOMAIN pc = Resource
    BY Zenon, TypeParts, CloudAssumption DEF CloudAssumption, CallType
  <2>2. Listed(r, vm[r].ids) /\ (~User(vm[r].type) => Add(r) = {})
    BY Zenon DEF CallInv
  <2>3. /\ User(vm[r].type) => Missing(r)
        /\ retries[r] + n <= m
        /\ m <= maxRetry
    BY Zenon, <1>2 DEF IsoInv, Small
  <2>4. Refused(r) \in SUBSET (Add(r) \cap Erroneous)
    BY Zenon, <2>2 DEF Refused, With, Listed
  <2>5. IsFiniteSet(Add(r) \cap Erroneous)
    BY Zenon, ListsFinite
  <2>6. IsFiniteSet(Refused(r)) /\ n \in Nat /\ m \in Nat
    BY Zenon, <2>4, <2>5, FS_Subset, FS_CardinalityType
  <2>7. PICK z : z \in names
    BY Zenon
  <2>8. /\ z \in Rid /\ z \in Refused(r) /\ vm[r].ids[z] = "add" /\ ids[z] = "absent"
        /\ \A x \in names : x \in Erroneous /\ vm[r].ids[x] = "add"
    BY Zenon, <2>7 DEF Refused, With
  <2>9. User(vm[r].type) /\ Missing(r)
    BY Zenon, <2>2, <2>3, <2>4, <2>8
  <2>10. retries[r] < maxRetry /\ ids # vm[r].ids
    <3>1. n # 0
      BY Zenon, <2>6, <2>8, FS_EmptySet
    <3>2. retries[r] \in Nat
      BY <2>1
    <3>3. retries[r] < maxRetry
      BY <2>1, <2>3, <2>6, <3>1, <3>2
    <3> QED BY Zenon, <2>8, <3>3
  <2>11. Add(r)' = Add(r) /\ Remove(r)' = Remove(r) /\ All(r)' = All(r)
    BY Zenon DEF Add, Remove, All
  <2>12. CASE ids = Empty
    <3>1. pc'[r] = "return"
      BY Zenon, <2>1, <2>12 DEF Fail, Goto
    <3>2. \A x \in Rid : x \notin names => vm[r].ids[x] = "absent"
      <4>1. \A x \in Rid : ids[x] = "absent"
        BY Zenon, <2>12 DEF Empty
      <4> QED BY Zenon, <4>1
    <3>3. Isolated(r)
      <4>1. Add(r) \subseteq Rid /\ Remove(r) \subseteq Rid
        BY Zenon, ListsType
      <4> QED BY Zenon, <2>8, <2>9, <3>2, <4>1 DEF Missing, Isolated
    <3>4. Isolated(r)'
      BY Zenon, <2>11, <3>3 DEF Isolated
    <3> QED BY Zenon, <3>1, <3>4 DEF IsoInv
  <2>13. CASE ids # Empty
    <3>1. pc'[r] = "update" /\ retries'[r] = retries[r] + 1 /\ vm' = [vm EXCEPT ![r].ids = ids]
      <4>1. Goto(r, "update") /\ retries' = [retries EXCEPT ![r] = @ + 1] /\ vm' = [vm EXCEPT ![r].ids = ids]
        BY Zenon, <2>10, <2>13 DEF Fail
      <4> QED BY Zenon, <2>1, <4>1 DEF Goto
    <3>2. ids \in [Rid -> Entry]
      BY Zenon, <2>1 DEF Entry
    <3>3. vm'[r].ids = ids /\ vm'[r].type = vm[r].type
      BY Zenon, <3>1, <3>2, SetIdsType
    <3>4. Missing(r)'
      BY Zenon, <2>8, <2>9, <2>11, <3>3 DEF Missing
    <3>5. Refused(r)' \in SUBSET (Refused(r) \ {z})
      <4>1. \A x \in Rid : ids[x] = "add" => vm[r].ids[x] = "add" /\ x \notin names
        BY Zenon
      <4>2. Refused(r)' = With(ids, "add") \cap Erroneous
        BY Zenon, <3>3 DEF Refused
      <4>3. With(ids, "add") \cap Erroneous \in SUBSET ((With(vm[r].ids, "add") \cap Erroneous) \ {z})
        BY Zenon, <2>7, <4>1 DEF With
      <4> QED BY Zenon, <4>2, <4>3 DEF Refused
    <3>6. Cardinality(Refused(r)') \in Nat /\ Cardinality(Refused(r)') <= n - 1
      <4>1. IsFiniteSet(Refused(r) \ {z}) /\ Cardinality(Refused(r) \ {z}) = n - 1
        BY Zenon, <2>6, <2>8, FS_RemoveElement
      <4>2. IsFiniteSet(Refused(r)') /\ Cardinality(Refused(r)') <= n - 1
        BY <3>5, <4>1, FS_Subset
      <4> QED BY Zenon, <4>2, FS_CardinalityType
    <3>7. retries'[r] + Cardinality(Refused(r)') <= m
      <4>1. retries[r] \in Nat
        BY <2>1
      <4> QED BY <2>3, <2>6, <3>1, <3>6, <4>1
    <3> QED BY Zenon, <2>11, <3>1, <3>4, <3>7 DEF IsoInv
  <2> QED BY Zenon, <2>12, <2>13
<1> QED BY Zenon, <1>1, <1>2

\* The GET finds what is missing, before any retry.
LEMMA GetIso ==
  ASSUME OneSpelling, FiniteLists, TypeOK, NEW r \in Resource, CallInv(r), IsoInv(r), Get(r)
  PROVE  IsoInv(r)'
<1>1. CallInv(r)'
  BY Zenon, GetInv
<1>2. /\ pc[r] = "get" /\ req' = req /\ failed' = failed /\ retries' = retries
      /\ pc'[r] \in {"update", "return"}
  BY Zenon, TypeParts DEF Get, Goto, CallType
<1>3. retries'[r] = 0 /\ failed'[r] = "none"
  BY Zenon, <1>2 DEF IsoInv
<1>4. CASE pc'[r] = "return"
  <2>1. Done(r)'
    BY Zenon, <1>1, <1>3, <1>4 DEF CallInv
  <2>2. Isolated(r)'
    BY Zenon, <2>1 DEF Done, Isolated
  <2> QED BY Zenon, <1>4, <2>2 DEF IsoInv
<1>5. CASE pc'[r] = "update"
  <2>1. User(vm'[r].type) => Missing(r)'
    BY Zenon, <1>1, <1>3, <1>5 DEF CallInv, Pending, Missing
  <2>2. Refused(r)' \in SUBSET (Add(r) \cap Erroneous)
    <3>1. Listed(r, vm[r].ids)'
      BY Zenon, <1>1, <1>5 DEF CallInv
    <3>2. Add(r)' = Add(r)
      BY Zenon, <1>2 DEF Add
    <3> QED BY Zenon, <3>1, <3>2 DEF Refused, With, Listed
  <2>3. IsFiniteSet(Add(r) \cap Erroneous)
    BY Zenon, <1>2, ListsFinite
  <2>4. Cardinality(Refused(r)') \in Nat /\ Cardinality(Refused(r)') <= Cardinality(Add(r) \cap Erroneous)
    BY Zenon, <2>2, <2>3, FS_Subset, FS_CardinalityType
  <2>5. retries'[r] + Cardinality(Refused(r)') <= Cardinality(Add(r) \cap Erroneous)
    BY <1>3, <2>4
  <2>6. Add(r)' = Add(r)
    BY Zenon, <1>2 DEF Add
  <2> QED BY Zenon, <1>5, <2>1, <2>5, <2>6 DEF IsoInv
<1> QED BY Zenon, <1>2, <1>4, <1>5

\* An attempt sends the whole list, or fails.
LEMMA AttemptIso ==
  ASSUME FiniteLists, TypeOK, NEW r \in Resource, CallInv(r), IsoInv(r), UpdateIdentities(r)
  PROVE  IsoInv(r)'
<1>1. pc[r] = "update" /\ req' = req /\ azure' = azure
  BY Zenon DEF UpdateIdentities
<1>2. CASE Fail(r, {})
  BY Zenon, <1>2, FailOther
<1>3. CASE SendBatch(r, vm[r].ids) /\ Goto(r, "patch") /\ UNCHANGED <<failed, retries>>
  <2>1. pc'[r] = "patch" /\ failed' = failed /\ retries' = retries
    BY Zenon, <1>3, TypeParts DEF Goto, CallType
  <2>2. Add(r)' = Add(r) /\ Remove(r)' = Remove(r) /\ All(r)' = All(r)
    BY Zenon, <1>1 DEF Add, Remove, All
  <2> SUFFICES ASSUME failed[r] # "other", Small(r)
               PROVE  /\ User(vm'[r].type) => Missing(r)'
                      /\ rest'[r] = Empty
                      /\ retries'[r] + Cardinality(Refused(r)') <= Cardinality(Add(r)' \cap Erroneous)
    BY Zenon, <2>1, <2>2 DEF IsoInv, Small
  <2>3. /\ vm[r].ids \in [Rid -> Entry] /\ Listed(r, vm[r].ids)
        /\ IsFiniteSet(All(r)) /\ Cardinality(All(r)) <= maxIdentitiesCount
    BY Zenon, <1>1, ListsFinite, TypeParts DEF CallInv, CallType, Small
  <2>4. vm'[r].ids = vm[r].ids /\ rest'[r] = Empty /\ vm'[r].type = vm[r].type
    BY Zenon, <1>3, <2>3, OneBatch, SendKeeps
  <2>5. /\ User(vm[r].type) => Missing(r)
        /\ retries[r] + Cardinality(Refused(r)) <= Cardinality(Add(r) \cap Erroneous)
    BY Zenon, <1>1 DEF IsoInv
  <2>6. Missing(r)' <=> Missing(r)
    BY Zenon, <1>1, <2>2, <2>4 DEF Missing
  <2>7. Refused(r)' = Refused(r)
    BY Zenon, <2>4 DEF Refused
  <2> QED BY Zenon, <2>1, <2>2, <2>4, <2>5, <2>6, <2>7
<1> QED BY Zenon, <1>2, <1>3 DEF UpdateIdentities

\* The one PATCH does all of it.
LEMMA PatchIso ==
  ASSUME TypeOK, NEW r \in Resource, CallInv(r), IsoInv(r), Update(r)
  PROVE  IsoInv(r)'
<1>1. /\ pc[r] = "patch" /\ req' = req /\ failed' = failed
      /\ azure'[r] = Patched(azure[r], vm[r]) /\ DOMAIN pc = Resource
  BY Zenon, TypeParts DEF Update, CallType
<1>2. pc'[r] \in {"patch", "return"}
  BY Zenon, <1>1 DEF Update, Goto
<1>3. Add(r)' = Add(r) /\ Remove(r)' = Remove(r) /\ All(r)' = All(r) /\ Add(r) \cap Remove(r) = {}
  BY Zenon, <1>1 DEF Add, Remove, All
<1>4. CASE failed[r] = "other" \/ ~Small(r)
  <2>1. failed'[r] = "other" \/ ~Small(r)'
    BY Zenon, <1>1, <1>3, <1>4 DEF Small
  <2> QED BY Zenon, <1>2, <2>1 DEF IsoInv
<1>5. CASE failed[r] # "other" /\ Small(r)
  <2>1. rest[r] = Empty /\ (User(vm[r].type) => Missing(r))
    BY Zenon, <1>1, <1>5 DEF IsoInv
  <2>2. pc'[r] = "return"
    BY Zenon, <1>1, <2>1 DEF Update, Goto
  <2>3. CASE User(vm[r].type)
    <3>1. /\ azure'[r].ids = (azure[r].ids \ With(vm[r].ids, "del")) \cup With(vm[r].ids, "add")
          /\ With(vm[r].ids, "add") \subseteq Add(r) /\ With(vm[r].ids, "del") \subseteq Remove(r)
      BY Zenon, <1>1, <2>3, PatchedIds
    <3>2. \A x \in Rid : /\ x \in With(vm[r].ids, "add") <=> vm[r].ids[x] = "add"
                         /\ x \in With(vm[r].ids, "del") <=> vm[r].ids[x] = "del"
      BY Zenon DEF With
    <3>3. \A x \in Rid : /\ x \in Add(r) \ Erroneous => x \in azure'[r].ids
                         /\ x \in Remove(r) => x \notin azure'[r].ids
      BY Zenon, <1>3, <2>1, <2>3, <3>1, <3>2 DEF Missing
    <3>4. Add(r) \subseteq Rid /\ Remove(r) \subseteq Rid
      BY Zenon, <1>1, ListsType
    <3>5. Isolated(r)'
      BY Zenon, <1>3, <3>3, <3>4 DEF Isolated
    <3> QED BY Zenon, <2>2, <3>5 DEF IsoInv
  <2>4. CASE ~User(vm[r].type)
    <3>1. azure'[r].ids = {} /\ Add(r) = {}
      BY Zenon, <1>1, <2>4, PatchedIds DEF CallInv
    <3>2. Isolated(r)'
      BY Zenon, <1>3, <3>1 DEF Isolated
    <3> QED BY Zenon, <2>2, <3>2 DEF IsoInv
  <2> QED BY Zenon, <2>3, <2>4
<1> QED BY Zenon, <1>4, <1>5

\* Every step of the call on r keeps the invariant of that call.
LEMMA IsoStep ==
  ASSUME OneSpelling, FiniteLists, TypeOK, NEW r \in Resource, CallInv(r), IsoInv(r), Call(r) \/ Step(r)
  PROVE  IsoInv(r)'
<1>0. DOMAIN pc = Resource /\ DOMAIN failed = Resource /\ DOMAIN retries = Resource
  BY Zenon, TypeParts DEF CallType
<1>1. CASE Call(r)
  <2>1. pc[r] = "idle" /\ pc'[r] = "call" /\ retries' = retries /\ failed' = failed
    BY Zenon, <1>0, <1>1 DEF Call, Goto
  <2> QED BY Zenon, <2>1 DEF IsoInv
<1>2. CASE Begin(r)
  <2>1. pc[r] = "call" /\ req' = req /\ azure' = azure /\ retries' = retries
    BY Zenon, <1>2 DEF Begin
  <2>2. retries[r] = 0 /\ failed[r] = "none"
    BY Zenon, <2>1 DEF IsoInv
  <2>3. CASE req[r].add \cup req[r].remove = {} /\ Goto(r, "return")
    <3>1. Add(r)' = {} /\ Remove(r)' = {}
      <4>1. req[r].add = {} /\ req[r].remove = {}
        BY Zenon, <2>3
      <4> QED BY Zenon, <2>1, <4>1 DEF Add, Remove, Canonical
    <3>2. Isolated(r)'
      BY Zenon, <3>1 DEF Isolated
    <3>3. pc'[r] = "return"
      BY Zenon, <1>0, <2>3 DEF Goto
    <3> QED BY Zenon, <3>2, <3>3 DEF IsoInv
  <2>4. CASE Goto(r, "return") /\ failed' = [failed EXCEPT ![r] = "other"]
    <3>1. pc'[r] = "return" /\ failed'[r] = "other"
      BY Zenon, <1>0, <2>4 DEF Goto
    <3> QED BY Zenon, <3>1, OtherFailure
  <2>5. CASE Goto(r, "get") /\ UNCHANGED failed
    <3>1. pc'[r] = "get" /\ failed' = failed
      BY Zenon, <1>0, <2>5 DEF Goto
    <3> QED BY Zenon, <2>1, <2>2, <3>1 DEF IsoInv
  <2> QED BY Zenon, <1>2, <2>3, <2>4, <2>5 DEF Begin
<1>3. CASE Get(r)
  BY Zenon, <1>3, GetIso
<1>4. CASE GetFails(r)
  <2>1. pc'[r] = "return" /\ failed'[r] = "other"
    BY Zenon, <1>0, <1>4 DEF GetFails, Goto
  <2> QED BY Zenon, <2>1, OtherFailure
<1>5. CASE UpdateIdentities(r)
  BY Zenon, <1>5, AttemptIso
<1>6. CASE Update(r)
  BY Zenon, <1>6, PatchIso
<1>7. CASE UpdateFails(r)
  <2>1. pc[r] = "patch" /\ req' = req
    BY Zenon, <1>7 DEF UpdateFails
  <2>2. \/ Fail(r, {})
        \/ azure' = azure /\ \E names \in SUBSET Refused(r) : names # {} /\ Fail(r, names)
    BY Zenon, <1>7 DEF UpdateFails
  <2> QED BY Zenon, <2>1, <2>2, FailOther, RefusedIso
<1>8. CASE Return(r)
  <2>1. pc'[r] = "idle" /\ failed'[r] = "none" /\ retries'[r] = 0
    BY Zenon, <1>0, <1>8 DEF Return
  <2> QED BY Zenon, <2>1 DEF IsoInv
<1> QED BY Zenon, <1>1, <1>2, <1>3, <1>4, <1>5, <1>6, <1>7, <1>8 DEF Step

\* A step of the call on r leaves the retries of the others alone.
LEMMA RetriesAlone ==
  ASSUME TypeOK, NEW r \in Resource, Call(r) \/ Step(r), NEW u \in Resource, u # r
  PROVE  retries'[u] = retries[u]
<1>1. ASSUME NEW names, Fail(r, names) PROVE retries'[u] = retries[u]
  BY Zenon, <1>1, TypeParts DEF Fail, CallType
<1>2. CASE Call(r) \/ Begin(r) \/ Get(r) \/ GetFails(r) \/ Update(r) \/ Return(r)
  BY Zenon, <1>2, TypeParts DEF Call, Begin, Get, GetFails, Update, Return, CallType
<1>3. CASE UpdateIdentities(r) \/ UpdateFails(r)
  BY Zenon, <1>1, <1>3 DEF UpdateIdentities, UpdateFails
<1> QED BY Zenon, <1>2, <1>3 DEF Step

\* A step that leaves the call on u alone keeps its part of the invariant.
LEMMA IsoFrame ==
  ASSUME NEW u \in Resource, IsoInv(u),
         azure'[u] = azure[u], pc'[u] = pc[u], req'[u] = req[u], vm'[u] = vm[u],
         rest'[u] = rest[u], failed'[u] = failed[u], retries'[u] = retries[u]
  PROVE  IsoInv(u)'
<1>1. Add(u)' = Add(u) /\ Remove(u)' = Remove(u) /\ All(u)' = All(u) /\ Refused(u)' = Refused(u)
  BY Zenon DEF Add, Remove, All, Refused
<1>2. (Small(u)' <=> Small(u)) /\ (Missing(u)' <=> Missing(u)) /\ (Isolated(u)' <=> Isolated(u))
  BY Zenon, <1>1 DEF Small, Missing, Isolated
<1> QED BY Zenon, <1>1, <1>2 DEF IsoInv

\* ErroneousIsolated holds of every behaviour: whatever ARM refuses, and in whatever order
\* it names what it refuses, the identities of a call that are not erroneous are done when
\* it returns, if no call spells an identity in two ways.
THEOREM IsolatedAlways == ASSUME OneSpelling, FiniteLists PROVE Spec => []ErroneousIsolated
<1> DEFINE Inv == \A r \in Resource : CallInv(r) /\ IsoInv(r)
<1>1. Init => Inv
  <2> SUFFICES ASSUME Init, NEW r \in Resource PROVE CallInv(r) /\ IsoInv(r)
    BY Zenon
  <2>1. pc[r] = "idle" /\ req[r] = None /\ retries[r] = 0 /\ failed[r] = "none"
    BY Zenon DEF Init
  <2> QED BY Zenon, <2>1 DEF CallInv, IsoInv
<1>2. TypeOK /\ Inv /\ [Next]_vars => Inv'
  <2> SUFFICES ASSUME TypeOK, Inv, [Next]_vars, NEW u \in Resource PROVE CallInv(u)' /\ IsoInv(u)'
    BY Zenon
  <2>1. CallInv(u)'
    BY Zenon, AllCallsInv
  <2>2. CASE (\E k \in Kind : Expire(k)) \/ WriteFile \/ Watch \/ UNCHANGED vars
    <3>1. UNCHANGED <<azure, pc, req, vm, rest, failed, retries>>
      BY Zenon, <2>2 DEF Expire, WriteFile, Watch, Reload, ReadConfig, NewClient, calls, vars
    <3> QED BY Zenon, <2>1, <3>1, IsoFrame
  <2>3. ASSUME NEW r \in Resource, Call(r) \/ Step(r) PROVE IsoInv(u)'
    <3>1. CASE u = r
      BY Zenon, <2>3, <3>1, IsoStep
    <3>2. CASE u # r
      BY Zenon, <2>3, <3>2, OthersAlone, RetriesAlone, IsoFrame
    <3> QED BY Zenon, <3>1, <3>2
  <2> QED BY Zenon, <2>1, <2>2, <2>3 DEF Next
<1>3. Inv => ErroneousIsolated
  <2> SUFFICES ASSUME Inv, NEW r \in Resource, pc[r] = "return", failed[r] # "other", Small(r) PROVE Isolated(r)
    BY Zenon DEF ErroneousIsolated, Small, Isolated, All, Add, Remove
  <2> QED BY Zenon DEF IsoInv
<1> QED BY <1>1, <1>2, <1>3, CloudTypeCorrect, PTL DEF Spec

=============================================================================
