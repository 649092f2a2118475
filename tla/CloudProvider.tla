--------------------------- MODULE CloudProvider ---------------------------
(***************************************************************************)
(* The Azure cloud provider of MIC: UpdateUserMSI on VMs and scale sets,   *)
(* with its GET and batched PATCH requests, the retries after an error     *)
(* that names erroneous identities, and the Retry-After deadlines that all *)
(* calls on VMs, and all calls on scale sets, share; and the watcher of    *)
(* the configuration file, which replaces both clients, with their         *)
(* deadlines, under the calls that use them.                               *)
(*                                                                         *)
(* MIC's workers run one call at a time per resource, and the calls on     *)
(* different resources interleave.  A request is sent in one step and      *)
(* answered in a later one.  A resource ID is a pair of an identity and a  *)
(* spelling: ARM and SetUserIdentities ignore the case of letters, the     *)
(* maps of UpdateUserMSI do not.  A configuration is the version of the    *)
(* file that it was read from; every one names the same resource group.    *)
(***************************************************************************)
EXTENDS Naturals, FiniteSets

CONSTANTS
  Resource,   \* VMs and scale sets
  KindOf,     \* KindOf[r]: "vm" or "vmss"
  Rid,        \* user-assigned identities
  Spelling,   \* the spellings of a resource ID; Lower is one of them
  Requests,   \* the add and remove lists of the calls
  InitAzure,  \* InitAzure[r]: the identities and identity type r starts with
  Erroneous,  \* identities that ARM refuses to assign
  Deleting,   \* resources in provisioning state Deleting
  Faults,     \* how requests may fail: "error", "throttled", "wait"
  MaxWrites,  \* bound: how often the configuration file is written
  Unreadable, \* the versions of it that Init fails on, as one that is half written
  maxIdentitiesCount, maxRetry,
  None

Kind == {"vm", "vmss"}
ResourceID == Rid \X Spelling
ResourceIdentityType == {"None", "SystemAssigned", "UserAssigned", "SystemAssignedUserAssigned"}
Entry == {"absent", "add", "del"}  \* a key of UserAssignedIdentities in a PATCH: not there, {} or null
Resources == [ids : SUBSET Rid, type : ResourceIdentityType]
Errors == {"none", "refused", "other"}  \* none, only errors that name identities, or others too

ASSUME CloudAssumption ==
  /\ KindOf \in [Resource -> Kind]
  /\ Requests \subseteq [add : SUBSET ResourceID, remove : SUBSET ResourceID]
  /\ InitAzure \in [Resource -> Resources]
  /\ Erroneous \subseteq Rid /\ Deleting \subseteq Resource
  /\ Faults \subseteq {"error", "throttled", "wait"}
  /\ maxIdentitiesCount \in Nat \ {0} /\ maxRetry \in Nat
  /\ MaxWrites \in Nat /\ None \notin Nat
  /\ None \notin [add : SUBSET ResourceID, remove : SUBSET ResourceID] \cup [add : SUBSET Rid, remove : SUBSET Rid]

VARIABLES
  azure,     \* azure[r]: the resource as Azure has it
  pc,        \* where the call on r is
  req,       \* its add and remove lists, or None
  vm,        \* its copy of the resource: identity type and UserAssignedIdentities
  rest,      \* remainingIDs of UpdateIdentities
  failed,    \* the errors of the attempts so far, the first of which Do will return
  retries,   \* the loop counter of Do
  result,    \* what the last call on r returned
  retryAfterReader, retryAfterWriter,  \* per kind: the deadline is in the future
  window,    \* the kinds and directions in which Azure has asked their client not to call now
  sent,      \* of the request under way on r: "lost" if it names no resource group, "old" if
             \* its client has been replaced
  file,      \* the version of the configuration file
  event,     \* the watcher has been told of a write
  loader,    \* where the watcher's goroutine is: it waits, reads the file, makes a client
  Config,    \* the configuration, or None
  client     \* client[k]: the configuration that the client of kind k was made from

conf == <<file, event, loader, Config, client>>
vars == <<azure, pc, req, vm, rest, failed, retries, result, retryAfterReader, retryAfterWriter, window, sent, conf>>

Empty == [x \in Rid |-> "absent"]
With(p, e) == {x \in Rid : p[x] = e}
NoVM == [type |-> "None", ids |-> Empty]

TypeOK ==
  /\ azure \in [Resource -> Resources]
  /\ pc \in [Resource -> {"idle", "call", "get", "update", "patch", "return"}]
  /\ req \in [Resource -> [add : SUBSET ResourceID, remove : SUBSET ResourceID] \cup {None}]
  /\ vm \in [Resource -> [type : ResourceIdentityType, ids : [Rid -> Entry]]]
  /\ rest \in [Resource -> [Rid -> Entry]]
  /\ failed \in [Resource -> Errors]
  /\ retries \in [Resource -> 0..maxRetry]
  /\ result \in [Resource -> {"ok", "error"}]
  /\ retryAfterReader \in [Kind -> BOOLEAN] /\ retryAfterWriter \in [Kind -> BOOLEAN]
  /\ window \in SUBSET (Kind \X {"read", "write"})
  /\ sent \in [Resource -> SUBSET {"lost", "old"}]
  /\ file \in 0..MaxWrites /\ event \in BOOLEAN /\ loader \in {"wait", "read"} \cup Kind
  /\ Config \in 0..MaxWrites \cup {None} /\ client \in [Kind -> 0..MaxWrites]
  /\ loader \in Kind => Config # None

Init ==
  /\ azure = InitAzure
  /\ pc = [r \in Resource |-> "idle"]
  /\ req = [r \in Resource |-> None]
  /\ vm = [r \in Resource |-> NoVM]
  /\ rest = [r \in Resource |-> Empty]
  /\ failed = [r \in Resource |-> "none"]
  /\ retries = [r \in Resource |-> 0]
  /\ result = [r \in Resource |-> "ok"]
  /\ retryAfterReader = [k \in Kind |-> FALSE] /\ retryAfterWriter = [k \in Kind |-> FALSE]
  /\ window = {}
  /\ sent = [r \in Resource |-> {}]
  /\ file = 0 /\ event = FALSE /\ loader = "wait"
  /\ Config = 0 /\ client = [k \in Kind |-> 0]

-----------------------------------------------------------------------------
\* What a PATCH is made of.

\* Mutant: system-assigned is forgotten.
UpdatedTypeUser(type) == "UserAssigned"

getUpdatedResourceIdentityType(type) ==
  IF type \in {"None", "UserAssigned"} THEN "UserAssigned" ELSE "SystemAssignedUserAssigned"

\* Mutant: remove wins over add.
WantedRemoveWins(q, x) ==
  {TRUE : s \in {s \in q.add \ q.remove : s[1] = x}} \cup {FALSE : s \in {s \in q.remove : s[1] = x}}

\* The values under the spellings of identity x in the map of UpdateUserMSI, where
\* add overwrites remove: TRUE to assign, FALSE to un-assign.
Wanted(q, x) ==
  {TRUE : s \in {s \in q.add : s[1] = x}} \cup {FALSE : s \in {s \in q.remove \ q.add : s[1] = x}}

\* What the loop of SetUserIdentities may leave under x: spellings that disagree
\* are met in either order, and the last one wins.
Entries(cur, want, x) ==
  CASE want = {TRUE, FALSE}           -> {"add", "del"}
    [] want = {TRUE} /\ x \notin cur  -> {"add"}
    [] want = {FALSE} /\ x \in cur    -> {"del"}
    [] OTHER                          -> {"absent"}

nodeList(cur, p) == {x \in Rid : p[x] = "add" \/ (x \in cur /\ p[x] # "del")}

\* The identities and type to PATCH when the loop has left p.
SetUserIdentities(res, p) ==
  IF nodeList(res.ids, p) = {}
  THEN [type |-> IF res.type = "SystemAssignedUserAssigned" THEN "SystemAssigned" ELSE "None", ids |-> Empty]
  ELSE [type |-> getUpdatedResourceIdentityType(res.type), ids |-> p]

requiresUpdate(res, p) == nodeList(res.ids, p) = {} \/ p # Empty

\* The keys that truncateVMIdentities may choose from ids, in the order of a map: at
\* most maxIdentitiesCount.
truncateIdentities(ids) ==
  LET keys == {x \in Rid : ids[x] # "absent"}
  IN IF Cardinality(keys) <= maxIdentitiesCount THEN {keys}
     ELSE {B \in SUBSET keys : Cardinality(B) = maxIdentitiesCount}

Batch(ids, B) == [x \in Rid |-> IF x \in B THEN ids[x] ELSE "absent"]

\* External: what Azure makes of the PATCH.
Patched(res, v) ==
  IF v.type \in {"None", "SystemAssigned"} THEN [ids |-> {}, type |-> v.type]
  ELSE [ids |-> (res.ids \ With(v.ids, "del")) \cup With(v.ids, "add"), type |-> v.type]

-----------------------------------------------------------------------------
\* UpdateUserMSI.

Goto(r, l) == pc' = [pc EXCEPT ![r] = l]

deadlines == <<retryAfterReader, retryAfterWriter, window, conf>>

Call(r) ==
  /\ pc[r] = "idle"
  /\ \E q \in Requests : req' = [req EXCEPT ![r] = q]
  /\ Goto(r, "call")
  /\ UNCHANGED <<azure, vm, rest, failed, retries, result, sent, deadlines>>

\* Return: the first error, even when a retry has succeeded.
Return(r) ==
  /\ pc[r] = "return"
  /\ result' = [result EXCEPT ![r] = IF failed[r] = "none" THEN "ok" ELSE "error"]
  /\ pc' = [pc EXCEPT ![r] = "idle"] /\ req' = [req EXCEPT ![r] = None]
  /\ vm' = [vm EXCEPT ![r] = NoVM] /\ rest' = [rest EXCEPT ![r] = Empty]
  /\ failed' = [failed EXCEPT ![r] = "none"] /\ retries' = [retries EXCEPT ![r] = 0]
  /\ sent' = [sent EXCEPT ![r] = {}]
  /\ UNCHANGED <<azure, deadlines>>

\* Nothing to do, or the GET is throttled, or it is sent, with the resource group of
\* the moment.
Begin(r) ==
  /\ pc[r] = "call"
  /\ \/ req[r].add \cup req[r].remove = {} /\ Goto(r, "return") /\ UNCHANGED <<failed, sent>>
     \/ /\ req[r].add \cup req[r].remove # {} /\ retryAfterReader[KindOf[r]]
        /\ Goto(r, "return") /\ failed' = [failed EXCEPT ![r] = "other"] /\ UNCHANGED sent
     \/ /\ req[r].add \cup req[r].remove # {} /\ ~retryAfterReader[KindOf[r]]
        /\ Goto(r, "get") /\ UNCHANGED failed
        /\ sent' = [sent EXCEPT ![r] = IF Config = None THEN {"lost"} ELSE {}]
  /\ UNCHANGED <<azure, req, vm, rest, retries, result, deadlines>>

\* The answer to the GET, and the identities to PATCH.
Get(r) ==
  /\ pc[r] = "get" /\ "lost" \notin sent[r]
  /\ \E p \in [Rid -> Entry] :
       /\ \A x \in Rid : p[x] \in Entries(azure[r].ids, Wanted(req[r], x), x)
       /\ vm' = [vm EXCEPT ![r] = SetUserIdentities(azure[r], p)]
       /\ Goto(r, IF requiresUpdate(azure[r], p) THEN "update" ELSE "return")
  /\ sent' = [sent EXCEPT ![r] = {}]
  /\ UNCHANGED <<azure, req, rest, failed, retries, result, deadlines>>

\* An error sets the deadline to now plus its Retry-After, which is 0 without one.
GetFails(r) ==
  /\ pc[r] = "get"
  /\ \E e \in (Faults \cap {"error", "throttled"}) \cup {"error" : l \in sent[r] \cap {"lost"}} :
       IF "old" \in sent[r] THEN UNCHANGED <<retryAfterReader, window>>
       ELSE /\ retryAfterReader' = [retryAfterReader EXCEPT ![KindOf[r]] = (e = "throttled")]
            /\ window' = IF e = "throttled" THEN window \cup {<<KindOf[r], "read">>} ELSE window
  /\ failed' = [failed EXCEPT ![r] = "other"]
  /\ Goto(r, "return")
  /\ UNCHANGED <<azure, req, vm, rest, retries, result, retryAfterWriter, sent, conf>>

-----------------------------------------------------------------------------
\* UpdateIdentities under RetryClient.Do.

\* Another error, which names the given identities or none.
WithError(e, names) == IF names = {} \/ e = "other" THEN "other" ELSE "refused"

\* Mutant: the identities that the error names stay in the list.
FailKeep(r, names) ==
  /\ failed' = [failed EXCEPT ![r] = WithError(@, names)]
  /\ IF retries[r] < maxRetry /\ names # {}
     THEN Goto(r, "update") /\ retries' = [retries EXCEPT ![r] = @ + 1]
     ELSE Goto(r, "return") /\ UNCHANGED retries
  /\ UNCHANGED vm

\* Mutant: every error is retried, however many attempts there were.
FailUnbounded(r, names) ==
  /\ failed' = [failed EXCEPT ![r] = WithError(@, names)]
  /\ Goto(r, "update") /\ retries' = [retries EXCEPT ![r] = @ + 1]
  /\ UNCHANGED vm

\* Mutant: the same, and the attempts are not counted.
FailUncounted(r, names) ==
  /\ failed' = [failed EXCEPT ![r] = WithError(@, names)]
  /\ Goto(r, "update")
  /\ UNCHANGED <<retries, vm>>

\* An attempt fails with an error that names identities (none, if it is not
\* retriable): shouldRetry drops those from what the last PATCH carried, and
\* another attempt follows if some were dropped and others are left.
Fail(r, names) ==
  LET ids == [x \in Rid |-> IF x \in names THEN "absent" ELSE vm[r].ids[x]]
      removedAny == ids # vm[r].ids
  IN /\ failed' = [failed EXCEPT ![r] = WithError(@, names)]
     /\ IF retries[r] < maxRetry /\ removedAny /\ ids # Empty
        THEN /\ Goto(r, "update")
             /\ retries' = [retries EXCEPT ![r] = @ + 1]
             /\ vm' = [vm EXCEPT ![r].ids = ids]
        ELSE Goto(r, "return") /\ UNCHANGED <<retries, vm>>

\* Requests are allowed again.
MaySend(r) == ~retryAfterWriter[KindOf[r]]

\* The next batch of ids is sent.
SendBatch(r, ids) ==
  \E B \in truncateIdentities(ids) : /\ vm' = [vm EXCEPT ![r].ids = Batch(ids, B)]
                                     /\ rest' = [rest EXCEPT ![r] = Batch(ids, Rid \ B)]

\* An attempt begins with the client of the moment, which its batches share.
UpdateIdentities(r) ==
  /\ pc[r] = "update"
  /\ IF r \in Deleting \/ ~MaySend(r)
     THEN Fail(r, {}) /\ UNCHANGED <<rest, sent>>
     ELSE /\ SendBatch(r, vm[r].ids)
          /\ Goto(r, "patch") /\ sent' = [sent EXCEPT ![r] = {}]
          /\ UNCHANGED <<failed, retries>>
  /\ UNCHANGED <<azure, req, result, deadlines>>

\* ARM refuses a PATCH that assigns an erroneous identity.
Refused(r) == With(vm[r].ids, "add") \cap Erroneous

\* The PATCH has been carried out; the next batch is sent, deadline or not.
Update(r) ==
  /\ pc[r] = "patch" /\ Refused(r) = {}
  /\ azure' = [azure EXCEPT ![r] = Patched(azure[r], vm[r])]
  /\ IF rest[r] = Empty
     THEN Goto(r, "return") /\ UNCHANGED <<vm, rest>>
     ELSE SendBatch(r, rest[r]) /\ UNCHANGED pc
  /\ UNCHANGED <<req, failed, retries, result, sent, deadlines>>

\* The PATCH fails, at once or while MIC waits for its completion.
UpdateFails(r) ==
  /\ pc[r] = "patch"
  /\ \/ /\ Refused(r) # {}
        /\ \E names \in (SUBSET Refused(r)) \ {{}} : Fail(r, names)
        /\ \/ /\ "old" \notin sent[r]
              /\ retryAfterWriter' = [retryAfterWriter EXCEPT ![KindOf[r]] = FALSE]
           \/ UNCHANGED retryAfterWriter
        /\ UNCHANGED <<azure, window>>
     \/ \E e \in Faults \cap {"error", "throttled"} :
          /\ Fail(r, {})
          /\ IF "old" \in sent[r] THEN UNCHANGED <<retryAfterWriter, window>>
             ELSE /\ retryAfterWriter' = [retryAfterWriter EXCEPT ![KindOf[r]] = (e = "throttled")]
                  /\ window' = IF e = "throttled" THEN window \cup {<<KindOf[r], "write">>} ELSE window
          /\ UNCHANGED azure
     \/ /\ "wait" \in Faults /\ Refused(r) = {}
        /\ Fail(r, {})
        /\ azure' \in {azure, [azure EXCEPT ![r] = Patched(azure[r], vm[r])]}
        /\ UNCHANGED <<retryAfterWriter, window>>
  /\ UNCHANGED <<req, rest, result, retryAfterReader, sent, conf>>

\* Time passes.
Expire(k) ==
  /\ retryAfterReader' = [retryAfterReader EXCEPT ![k] = FALSE]
  /\ retryAfterWriter' = [retryAfterWriter EXCEPT ![k] = FALSE]
  /\ window' = window \ {<<k, "read">>, <<k, "write">>}
  /\ UNCHANGED <<azure, pc, req, vm, rest, failed, retries, result, sent, conf>>

-----------------------------------------------------------------------------
\* The configuration file.

calls == <<azure, pc, req, vm, rest, failed, retries, result>>

\* External: the file is written.
WriteFile ==
  /\ file < MaxWrites
  /\ file' = file + 1 /\ event' = TRUE
  /\ UNCHANGED <<calls, retryAfterReader, retryAfterWriter, window, sent, loader, Config, client>>

\* The watcher calls Init, which empties the configuration first.
Reload ==
  /\ loader = "wait" /\ event
  /\ event' = FALSE /\ Config' = None /\ loader' = "read"
  /\ UNCHANGED <<calls, retryAfterReader, retryAfterWriter, window, sent, file, client>>

\* The file is read; if Init fails on it, the watcher is told no more than that, and the
\* configuration stays as it is then.
ReadConfig ==
  /\ loader = "read"
  /\ \/ file \notin Unreadable /\ Config' = file /\ loader' = "vmss"
     \/ file \in Unreadable /\ Config' \in {None, file} /\ loader' = "wait"
  /\ UNCHANGED <<calls, retryAfterReader, retryAfterWriter, window, sent, file, event, client>>

\* Mutant: Init returns after the first client.
NewClientFirst(k) ==
  /\ loader = k
  /\ client' = [client EXCEPT ![k] = Config] /\ loader' = "wait"
  /\ UNCHANGED <<calls, retryAfterReader, retryAfterWriter, window, sent, file, event, Config>>

\* NewVMSSClient, then NewVirtualMachinesClient: a client without deadlines takes the
\* place of the other, which keeps the requests that are under way.
NewClient(k) ==
  /\ loader = k
  /\ client' = [client EXCEPT ![k] = Config]
  /\ loader' = IF k = "vmss" THEN "vm" ELSE "wait"
  /\ retryAfterReader' = [retryAfterReader EXCEPT ![k] = FALSE]
  /\ retryAfterWriter' = [retryAfterWriter EXCEPT ![k] = FALSE]
  /\ window' = window \ {<<k, "read">>, <<k, "write">>}
  /\ sent' = [r \in Resource |-> IF KindOf[r] = k /\ pc[r] \in {"get", "patch"} THEN sent[r] \cup {"old"} ELSE sent[r]]
  /\ UNCHANGED <<calls, file, event, Config>>

Watch == Reload \/ ReadConfig \/ \E k \in Kind : NewClient(k)

Step(r) == Begin(r) \/ Get(r) \/ GetFails(r) \/ UpdateIdentities(r) \/ Update(r) \/ UpdateFails(r) \/ Return(r)

Next == (\E r \in Resource : Call(r) \/ Step(r)) \/ (\E k \in Kind : Expire(k)) \/ WriteFile \/ Watch

Spec == Init /\ [][Next]_vars

\* The goroutines of the workers and of the watcher run, and requests are answered.
FairSpec == Spec /\ WF_vars(Watch) /\ \A r \in Resource : WF_vars(Step(r))

-----------------------------------------------------------------------------
\* The properties.

\* The lists of a call without the spellings.
Canonical(q) == [add |-> {s[1] : s \in q.add}, remove |-> {s[1] : s \in q.remove}]

\* No call spells an identity in two ways.
OneSpelling == \A q \in Requests : \A s, u \in q.add \cup q.remove : s[1] = u[1] => s = u

\* The lists are lists.
FiniteLists == \A q \in Requests : IsFiniteSet(q.add) /\ IsFiniteSet(q.remove)

Promise == INSTANCE MSIUpdate WITH
  Requests <- {Canonical(q) : q \in Requests},
  InitIds <- [r \in Resource |-> InitAzure[r].ids],
  ids <- [r \in Resource |-> azure[r].ids],
  req <- [r \in Resource |-> IF req[r] = None THEN None ELSE Canonical(req[r])],
  result <- result

\* UpdateUserMSI keeps its promise: through batches, retries and errors it only
\* assigns what is on its add list and un-assigns what is on its remove list
\* alone, and a nil error means that all of it is done.
PromiseKept == Promise!Spec

\* Erroneous identities do not hold up the others: if nothing else fails, and the
\* lists fit in one batch and the erroneous identities in the retries, the call ends
\* with every other identity of its lists assigned or un-assigned, although it
\* returns an error.  That is what shouldRetry is for.
ErroneousIsolated ==
  \A r \in Resource :
    pc[r] = "return" /\ failed[r] # "other" =>
      LET q == Canonical(req[r])
      IN /\ Cardinality(q.add \cup q.remove) <= maxIdentitiesCount
         /\ Cardinality(q.add \cap Erroneous) <= maxRetry
         => q.add \ Erroneous \subseteq azure[r].ids /\ (q.remove \ q.add) \cap azure[r].ids = {}

HasSystem(type) == type \in {"SystemAssigned", "SystemAssignedUserAssigned"}

\* Assigning or un-assigning identities never takes the system-assigned identity off a
\* resource that has user-assigned ones, nor gives it one.
SystemKeptWithUser ==
  [][\A r \in Resource : azure[r].ids # {} => (HasSystem(azure'[r].type) <=> HasSystem(azure[r].type))]_vars

\* No client sends a request before the Retry-After of an earlier answer to a request of
\* its is over, as the comments where the deadlines are set have it.  (A client that is
\* new after a reload knows of no earlier answer.)  The calls on all VMs share a deadline,
\* and every error of any of them sets it anew.
ThrottleHonoured ==
  [][\A r \in Resource :
       /\ pc[r] = "call" /\ pc'[r] = "get" => <<KindOf[r], "read">> \notin window
       /\ pc'[r] = "patch" /\ (pc[r] = "update" \/ (rest'[r] # rest[r] /\ "old" \notin sent[r])) =>
            <<KindOf[r], "write">> \notin window]_vars

\* A change of the file is never missed, whatever it interrupts and however often Init
\* has failed before: in the end the configuration and both clients are those of the
\* last version, if that can be read.
Reloaded == <>[](file \notin Unreadable => Config = file /\ \A k \in Kind : client[k] = file)

\* Every call returns: neither the batches nor the retries go on for ever.
Returns == \A r \in Resource : pc[r] = "call" ~> pc[r] = "idle"
=============================================================================
