-------------------------------- MODULE NMI --------------------------------
(***************************************************************************)
(* A request at NMI, from its arrival to the answer: the route it takes,   *)
(* msiHandler, which finds the pod by its IP, hostHandler, which is told   *)
(* the pod, behind both the standard or the managed client, and the proxy  *)
(* to IMDS for what is not a token request.                                *)
(*                                                                         *)
(* Everything the handlers read is an informer cache, and it changes       *)
(* between two reads of a request: pods start and stop, MIC creates,       *)
(* assigns and deletes AzureAssignedIdentities, bindings and identities    *)
(* are edited.  Requests share no state, so one request at a time is       *)
(* modelled.  The lists come from caches that are Go maps, in any order: a *)
(* list is a set and its first element is any one of them.  A client ID or *)
(* resource ID is a pair of what it names and a spelling, and a path is    *)
(* the set of the routes' patterns that it matches.                        *)
(***************************************************************************)
EXTENDS Naturals, FiniteSets

CONSTANTS
  Pod,            \* pods, as <<namespace, name>>
  IP,             \* pod IPs of the node
  LabelOf,        \* LabelOf[p]: the value of the pod's aadpodidbinding label
  Excepted,       \* pods whose labels match an AzurePodIdentityException
  MICPods,        \* pods that isMIC accepts
  Identity,       \* AzureIdentities
  Assignable,     \* the <<pod, identity>> of which MIC makes AzureAssignedIdentities
  InitAssigned,   \* the status of those that are there at the start
  Binding,        \* AzureIdentityBindings (managed mode)
  Query,          \* the requests that may arrive
  mode,           \* "standard" or "managed"
  IsNamespaced, BlockInstanceMetadata, MetadataHeaderRequired, SetRetryAfterHeader,
  RetryAttemptsForCreated, RetryAttemptsForAssigned, getPodListRetries,
  None

\* No AzureAssignedIdentity, or one in state Unassigned, which no lookup reads; and
\* the states of those that NMI looks for.  "no status" is the empty one of an old MIC.
Status == {"absent", "no status", "Created", "Assigned"}

\* tokenPathPrefix, invalidTokenPathMatcher (which a token path matches too),
\* hostTokenPathPrefix and instancePathPrefix.
Pattern == {"token", "token-like", "host", "instance"}

ASSUME NMIAssumption ==
  /\ IsFiniteSet(Pod) /\ Excepted \subseteq Pod /\ MICPods \subseteq Pod
  /\ Assignable \subseteq Pod \X Identity
  /\ InitAssigned \in [Assignable -> Status]
  /\ mode \in {"standard", "managed"}
  /\ mode = "managed" => IsNamespaced  \* NewManagedTokenClient
  /\ {IsNamespaced, BlockInstanceMetadata, MetadataHeaderRequired, SetRetryAfterHeader} \subseteq BOOLEAN
  /\ {RetryAttemptsForCreated, RetryAttemptsForAssigned, getPodListRetries} \subseteq Nat
  /\ None \notin Pod \cup IP \cup Identity \cup (Pod \X IP)
  /\ \A u \in Query : /\ u.path \subseteq Pattern
                      /\ "token" \in u.path => "token-like" \in u.path
                      /\ u.remote \in {"pod", "localhost", "unparsable"}
                      /\ u.pod \in Pod \cup {None}

VARIABLES
  running,     \* running[p]: the IP that p has, or None
  podCache,    \* podCache[p]: IP and valid phase of p in the pod informer, or None
  assigned,    \* assigned[<<p, i>>]: the AzureAssignedIdentity in the informer
  bindings,    \* in their informers: the AzureIdentityBindings
  identities,  \* and the AzureIdentities
  rq           \* the request

env == <<running, podCache, assigned, bindings, identities>>
vars == <<env, rq>>

Idle == [pc |-> "idle", query |-> None, from |-> None, known |-> FALSE, tries |-> 0,
         pod |-> None, names |-> {}, attempt |-> 0, id |-> None, code |-> 0, panic |-> "none"]

Request ==
  [pc : {"idle", "validate", "proxy", "pods", "direct", "list", "getpod", "bindings", "ids",
         "token", "auth", "done"},
   query : Query \cup {None}, from : (Pod \X IP) \cup {None}, known : BOOLEAN,
   tries : 0..getPodListRetries, pod : Pod \cup {None},
   names : SUBSET {b.identity : b \in Binding},
   attempt : 0..RetryAttemptsForCreated + RetryAttemptsForAssigned,
   id : Identity \cup {None}, code : {0, 200, 400, 403, 404, 500, 503},
   panic : {"none", "index", "key"}]

TypeOK ==
  /\ running \in [Pod -> IP \cup {None}]
  /\ podCache \in [Pod -> [ip : IP, valid : BOOLEAN] \cup {None}]
  /\ assigned \in [Assignable -> Status]
  /\ bindings \subseteq Binding /\ identities \subseteq Identity
  /\ rq \in Request

Init ==
  /\ running = [p \in Pod |-> None] /\ podCache = [p \in Pod |-> None]
  /\ assigned = InitAssigned
  /\ bindings = Binding /\ identities = Identity
  /\ rq = Idle

-----------------------------------------------------------------------------
\* External: the node and the informers.

StartPod(p, ip) ==
  /\ running[p] = None /\ \A q \in Pod : running[q] # ip
  /\ running' = [running EXCEPT ![p] = ip]
  /\ UNCHANGED <<podCache, assigned, bindings, identities, rq>>

\* The IP of a pod that stops is free at once, whatever the API server knows.
StopPod(p) ==
  /\ running[p] # None
  /\ running' = [running EXCEPT ![p] = None]
  /\ UNCHANGED <<podCache, assigned, bindings, identities, rq>>

\* The informer learns of p: that it runs, has ended, or is gone.
CachePod(p) ==
  /\ \/ running[p] # None /\ podCache' = [podCache EXCEPT ![p] = [ip |-> running[p], valid |-> TRUE]]
     \/ /\ running[p] = None /\ podCache[p] # None
        /\ \E o \in {None, [podCache[p] EXCEPT !.valid = FALSE]} : podCache' = [podCache EXCEPT ![p] = o]
  /\ UNCHANGED <<running, assigned, bindings, identities, rq>>

StatusMoves ==
  {<<"absent", "Created">>, <<"Created", "Assigned">>, <<"Assigned", "Created">>, <<"no status", "Assigned">>}
  \cup {<<s, "absent">> : s \in Status \ {"absent"}}

\* What MIC does to an AzureAssignedIdentity.
MIC(a) ==
  /\ mode = "standard"
  /\ \E s \in Status : /\ <<assigned[a], s>> \in StatusMoves
                       /\ assigned' = [assigned EXCEPT ![a] = s]
  /\ UNCHANGED <<running, podCache, bindings, identities, rq>>

\* A binding or an identity is created or deleted.
EditBinding(b) ==
  /\ mode = "managed"
  /\ bindings' = IF b \in bindings THEN bindings \ {b} ELSE bindings \cup {b}
  /\ UNCHANGED <<running, podCache, assigned, identities, rq>>

EditIdentity(i) ==
  /\ mode = "managed"
  /\ identities' = IF i \in identities THEN identities \ {i} ELSE identities \cup {i}
  /\ UNCHANGED <<running, podCache, assigned, bindings, rq>>

\* A process of pod p, or of the host (p is None), sends a request.
Send(p) ==
  /\ rq.pc \in {"idle", "done"}
  /\ p # None => running[p] # None
  /\ \E u \in Query :
       /\ (u.remote = "localhost") <=> (p = None)
       /\ rq' = [Idle EXCEPT !.pc = "validate", !.query = u,
                             !.from = IF p = None THEN None ELSE <<p, running[p]>>]
  /\ UNCHANGED env

-----------------------------------------------------------------------------
\* The handlers up to the lookup of the identity.

Answer(code) == rq' = [Idle EXCEPT !.pc = "done", !.code = code]

\* ServeHTTP recovers from a panic: of an index, or of the type of a key.
Recover(panic) == rq' = [Idle EXCEPT !.pc = "done", !.code = 500, !.panic = panic]

\* Mutant: the handler of invalid token paths comes after the host's and the proxy's.
HandlerPrefixes(u) ==
  IF "token" \in u.path THEN "msi"
  ELSE IF "host" \in u.path THEN "host"
  ELSE IF "instance" \in u.path /\ BlockInstanceMetadata THEN "forbidden"
  ELSE "default"

\* The first route of Run that the path matches.
handler(u) ==
  IF "token" \in u.path THEN "msi"
  ELSE IF "token-like" \in u.path THEN "invalid"
  ELSE IF "host" \in u.path THEN "host"
  ELSE IF "instance" \in u.path /\ BlockInstanceMetadata THEN "forbidden"
  ELSE "default"

\* GetIdentities returns an error.
NotFound == Answer(IF handler(rq.query) = "msi" /\ SetRetryAfterHeader THEN 503 ELSE 404)

\* The code that a request is turned down with before anything is looked up, or 0.
msiError(u) ==
  CASE MetadataHeaderRequired /\ ~u.metadata -> 400
    [] u.remote = "unparsable"               -> 500
    [] ~u.resource                           -> 400
    [] OTHER                                 -> 0

hostError(u) ==
  CASE u.pod = None            -> 400
    [] u.remote # "localhost"  -> 500
    [] ~u.resource             -> 400
    [] OTHER                   -> 0

\* invalidTokenPathHandler, forbiddenHandler and the check of defaultPathHandler.
Refusal(u) ==
  IF handler(u) = "msi" THEN msiError(u)
  ELSE IF handler(u) = "host" THEN hostError(u)
  ELSE IF handler(u) = "forbidden" THEN 403
  ELSE IF handler(u) = "invalid" \/ (MetadataHeaderRequired /\ ~u.metadata) THEN 400
  ELSE 0

lookup == IF mode = "standard" THEN "list" ELSE "getpod"

Validate ==
  /\ rq.pc = "validate"
  /\ LET u == rq.query
     IN \/ Refusal(u) # 0 /\ Answer(Refusal(u))
        \/ /\ Refusal(u) = 0
           /\ \/ handler(u) = "msi" /\ rq' = [rq EXCEPT !.pc = "pods"]
              \/ handler(u) = "host" /\ rq' = [rq EXCEPT !.pc = lookup, !.pod = u.pod]
              \/ handler(u) = "default" /\ rq' = [rq EXCEPT !.pc = "proxy"]
  /\ UNCHANGED env

\* The request is sent on to IMDS, and the answer is what IMDS answers (200 stands for
\* it), or the call fails.
defaultPathHandler ==
  /\ rq.pc = "proxy"
  /\ \E code \in {200, 500} : Answer(code)
  /\ UNCHANGED env

getPodList(ip) == {p \in Pod : podCache[p] # None /\ podCache[p].ip = ip /\ podCache[p].valid}

\* The informer has seen that the sender runs with that IP.
Known(from) == podCache[from[1]] = [ip |-> from[2], valid |-> TRUE]

\* Mutant: the first pod of several is taken.
PodInfoFirst ==
  /\ rq.pc = "pods"
  /\ LET pods == getPodList(IF rq.query.remote = "pod" THEN rq.from[2] ELSE None)
     IN \/ pods = {} /\ rq.tries < getPodListRetries /\ rq' = [rq EXCEPT !.tries = @ + 1]
        \/ pods = {} /\ rq.tries = getPodListRetries /\ Answer(500)
        \/ \E p \in pods : rq' = [rq EXCEPT !.pod = p, !.known = rq.from # None /\ Known(rq.from),
                                    !.pc = IF p \in Excepted \cup MICPods THEN "direct" ELSE lookup]
  /\ UNCHANGED env

\* GetPodInfo: an empty list is read again, a list of several is an error; then the
\* exceptions are looked up.
GetPodInfo ==
  /\ rq.pc = "pods"
  /\ LET pods == getPodList(IF rq.query.remote = "pod" THEN rq.from[2] ELSE None)
     IN \/ pods = {} /\ rq.tries < getPodListRetries /\ rq' = [rq EXCEPT !.tries = @ + 1]
        \/ pods = {} /\ rq.tries = getPodListRetries /\ Answer(500)
        \/ Cardinality(pods) > 1 /\ Answer(500)
        \/ /\ Cardinality(pods) = 1
           /\ \E p \in pods : rq' = [rq EXCEPT !.pod = p, !.known = rq.from # None /\ Known(rq.from),
                                       !.pc = IF p \in Excepted \cup MICPods THEN "direct" ELSE lookup]
  /\ UNCHANGED env

\* The pod gets the token it asked for, from IMDS.
getTokenForExceptedPod ==
  /\ rq.pc = "direct"
  /\ \E code \in {200, 403} : Answer(code)
  /\ UNCHANGED env

-----------------------------------------------------------------------------
\* Which identity: the standard client.

EqualFold(x, y) == x # None /\ x[1] = y[1]

identityUnspecified(u) == u.client = None /\ u.rid = None
isRequestedIdentity(u, i) == EqualFold(u.client, i.client) \/ EqualFold(u.rid, i.rid)
Wanted(u, i) == identityUnspecified(u) \/ isRequestedIdentity(u, i)

\* The comparison of GetIdentities, which heeds the spelling.
Matches(u, i) == u.client = i.client \/ u.rid = i.rid

ListPodIds(p, s) == {a[2] : a \in {b \in Assignable : b[1] = p /\ assigned[b] = s}}

Found(u, p, s) == \E i \in ListPodIds(p, s) : Wanted(u, i)

\* Mutant: an identity of another namespace is dropped, namespaced or not.
FilterOthers(p, L) == {i \in L : i.ns = p[1]}

filterPodIdentities(p, L) == {i \in L : IsNamespaced \/ i.namespaced => i.ns = p[1]}

\* GetIdentities with the list L of listPodIDsWithRetry.
GetIdentities(L) ==
  LET u == rq.query
      filtered == filterPodIdentities(rq.pod, L)
      matching == IF identityUnspecified(u) THEN filtered ELSE {i \in filtered : Matches(u, i)}
  IN \/ \E i \in matching : rq' = [rq EXCEPT !.pc = "token", !.id = i]
     \/ matching = {} /\ identityUnspecified(u) /\ Recover("index")  \* filterPodIdentities[0]
     \/ matching = {} /\ ~identityUnspecified(u) /\ NotFound

\* Mutant: an attempt is not counted before the identity is created.
ListUncounted ==
  /\ rq.pc = "list" /\ rq.attempt < RetryAttemptsForCreated + RetryAttemptsForAssigned
  /\ IF Found(rq.query, rq.pod, "Assigned") THEN GetIdentities(ListPodIds(rq.pod, "Assigned"))
     ELSE rq' = [rq EXCEPT !.attempt = IF Found(rq.query, rq.pod, "Created") THEN @ + 1 ELSE @]
  /\ UNCHANGED env

\* Mutant: one attempt too many.
ListOverrun ==
  /\ rq.pc = "list"
  /\ IF Found(rq.query, rq.pod, "Assigned") THEN GetIdentities(ListPodIds(rq.pod, "Assigned"))
     ELSE rq' = [rq EXCEPT !.attempt = @ + 1]
  /\ UNCHANGED env

\* Mutant: objects without status hide the others, whatever is requested.
ListPreferOld ==
  /\ rq.pc = "list" /\ rq.attempt < RetryAttemptsForCreated + RetryAttemptsForAssigned
  /\ IF ListPodIds(rq.pod, "no status") # {} THEN GetIdentities(ListPodIds(rq.pod, "no status"))
     ELSE IF Found(rq.query, rq.pod, "Assigned") THEN GetIdentities(ListPodIds(rq.pod, "Assigned"))
     ELSE rq' = [rq EXCEPT !.attempt = @ + 1]
  /\ UNCHANGED env

\* One attempt of listPodIDsWithRetry.  Objects without status, of an old MIC, go
\* before those in state Assigned.
listPodIDsWithRetry ==
  /\ rq.pc = "list" /\ rq.attempt < RetryAttemptsForCreated + RetryAttemptsForAssigned
  /\ LET u == rq.query
         none == ~Found(u, rq.pod, "no status") /\ ~Found(u, rq.pod, "Assigned")
         over == ~Found(u, rq.pod, "Created") /\ rq.attempt >= RetryAttemptsForCreated
     IN \/ Found(u, rq.pod, "no status") /\ GetIdentities(ListPodIds(rq.pod, "no status"))
        \/ /\ ~Found(u, rq.pod, "no status") /\ Found(u, rq.pod, "Assigned")
           /\ GetIdentities(ListPodIds(rq.pod, "Assigned"))
        \/ none /\ over /\ NotFound
        \/ none /\ ~over /\ rq' = [rq EXCEPT !.attempt = @ + 1]
  /\ UNCHANGED env

\* The attempts are used up.
GiveUp ==
  /\ rq.pc = "list" /\ rq.attempt = RetryAttemptsForCreated + RetryAttemptsForAssigned
  /\ NotFound
  /\ UNCHANGED env

\* The client goes away during the wait after an attempt.
Disconnect ==
  /\ rq.pc = "list" /\ rq.attempt > 0
  /\ NotFound
  /\ UNCHANGED env

-----------------------------------------------------------------------------
\* Which identity: the managed client.

GetPod ==
  /\ rq.pc = "getpod"
  /\ IF podCache[rq.pod] = None THEN NotFound ELSE rq' = [rq EXCEPT !.pc = "bindings"]
  /\ UNCHANGED env

\* GetPodIDsWithBinding reads the bindings, and then the identities.
ListBindings ==
  /\ rq.pc = "bindings"
  /\ rq' = [rq EXCEPT !.pc = "ids",
              !.names = {b.identity : b \in {c \in bindings : c.selector = LabelOf[rq.pod] /\ c.ns = rq.pod[1]}}]
  /\ UNCHANGED env

\* Mutant: identities of any namespace.
PodIDsAnywhere(p, names) == {i \in identities : i.name \in names}

GetPodIDsWithBinding(p, names) == {i \in identities : i.name \in names /\ i.ns = p[1]}

ManagedGetIdentities ==
  /\ rq.pc = "ids"
  /\ LET matching == {i \in GetPodIDsWithBinding(rq.pod, rq.names) : identityUnspecified(rq.query) \/ Matches(rq.query, i)}
     IN \/ \E i \in matching : rq' = [rq EXCEPT !.pc = "token", !.id = i]
        \/ matching = {} /\ NotFound
  /\ UNCHANGED env

-----------------------------------------------------------------------------

\* GetTokens of either client: by the type of the identity, with the secret that it
\* refers to.
GetTokens ==
  /\ rq.pc = "token"
  /\ \/ rq.id.type \in {"msi", "sp", "certificate"} /\ rq' = [rq EXCEPT !.pc = "auth"]
     \/ rq.id.type # "msi" /\ Answer(503)  \* no such secret, or no such type
  /\ UNCHANGED env

\* IMDS or Azure AD gives the token, refuses it (403), or something else fails on the
\* way (503): the health check, what the secret holds, one of several tenants.  A
\* certificate whose key is not an RSA key fails a type assertion.
Authenticate ==
  /\ rq.pc = "auth"
  /\ \/ \E code \in {200, 403, 503} : Answer(code)
     \/ rq.id.type = "certificate" /\ Recover("key")
  /\ UNCHANGED env

Handle ==
  \/ Validate \/ defaultPathHandler
  \/ GetPodInfo \/ getTokenForExceptedPod
  \/ listPodIDsWithRetry \/ GiveUp \/ Disconnect
  \/ GetPod \/ ListBindings \/ ManagedGetIdentities
  \/ GetTokens \/ Authenticate

Next ==
  \/ \E p \in Pod : StopPod(p) \/ CachePod(p) \/ \E ip \in IP : StartPod(p, ip)
  \/ \E a \in Assignable : MIC(a)
  \/ (\E b \in Binding : EditBinding(b)) \/ (\E i \in Identity : EditIdentity(i))
  \/ \E p \in Pod \cup {None} : Send(p)
  \/ Handle

Spec == Init /\ [][Next]_vars

\* The goroutine of the request runs.
FairSpec == Spec /\ WF_vars(Handle)

-----------------------------------------------------------------------------
\* The properties.

InUse(a) == assigned[a] \in {"Assigned", "no status"}

\* Whatever starts, stops and changes during a request: if the informer knew its
\* sender when it looked the IP up, the identity that NMI asks a token for is one
\* that MIC has assigned to the sender at that moment, or in managed mode one of its
\* namespace that a binding of its namespace and label named when the bindings were
\* read; it is the one requested, and is not namespaced elsewhere; and only an
\* excepted pod goes without one.
OwnIdentity ==
  [][rq'.known =>
       LET p == rq'.from[1]
           i == rq'.id
       IN /\ rq'.pc = "direct" => p \in Excepted \cup MICPods
          /\ rq.pc # "ids" /\ rq'.pc = "ids" =>
               \A x \in rq'.names : \E b \in bindings : b.ns = p[1] /\ b.selector = LabelOf[p] /\ b.identity = x
          /\ rq.id = None /\ i # None =>
               /\ identityUnspecified(rq.query) \/ Matches(rq.query, i)
               /\ IsNamespaced \/ i.namespaced => i.ns = p[1]
               /\ mode = "standard" => <<p, i>> \in Assignable /\ InUse(<<p, i>>)
               /\ mode = "managed" => i.name \in rq.names]_vars

\* The lookup of an identity never indexes an empty list: the only panic that
\* ServeHTTP recovers from is that of a certificate's key.
LookupNeverPanics == rq.panic # "index"

\* Whatever the order of the routes and the patterns that a path matches, what is sent
\* on to IMDS as it came asks for no token, nor for instance metadata where that is
\* blocked, and has the metadata header where that is required; and only a process of
\* the host names the pod that it asks for.
Unclaimed ==
  /\ rq.pc = "proxy" =>
       /\ "token-like" \notin rq.query.path
       /\ BlockInstanceMetadata => "instance" \notin rq.query.path
       /\ MetadataHeaderRequired => rq.query.metadata
  /\ rq.pc = lookup /\ handler(rq.query) = "host" => rq.from = None

\* Every request is answered: neither loop goes on for ever.
Answered == rq.pc = "validate" ~> rq.pc = "done"

\* A well-formed request from ip that asks for i or for any identity.
AsksFor(i, ip) ==
  /\ rq.pc = "validate" /\ rq.from # None /\ rq.from[2] = ip
  /\ handler(rq.query) = "msi" /\ msiError(rq.query) = 0
  /\ Wanted(rq.query, i)

\* Pod p runs and is the only pod that the informer lists under ip, and identity i is
\* assigned to it.
Settled(p, i, ip) == running[p] = ip /\ getPodList(ip) = {p} /\ InUse(<<p, i>>)

\* While that stays so, the request gets to the token of an identity: the lookup does
\* not turn it down, whatever the other objects in the caches do.
ServedWhenAssigned ==
  \A p \in Pod \ (Excepted \cup MICPods), i \in Identity, ip \in IP :
    <<p, i>> \in Assignable =>
      ((AsksFor(i, ip) /\ []Settled(p, i, ip)) ~> (rq.id # None))
=============================================================================
