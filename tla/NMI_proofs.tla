----------------------------- MODULE NMI_proofs -----------------------------
(***************************************************************************)
(* That a request is served with an identity of its own pod, that only     *)
(* what asks for no token is sent on to IMDS, and that the lookup never    *)
(* panics, for every set of pods, identities and requests and every number *)
(* of attempts.                                                            *)
(***************************************************************************)
EXTENDS NMI, TLAPS, FiniteSetTheorems

\* MIC and NMI agree on which identities are namespaced: MIC assigns those to pods of
\* their own namespace only.
NamespacesKept == \A a \in Assignable : IsNamespaced \/ a[2].namespaced => a[2].ns = a[1][1]

\* What Unclaimed says of a request, by the route that it has taken.
Routed(r) ==
  /\ r.pc = "proxy" =>
       /\ "token-like" \notin r.query.path
       /\ BlockInstanceMetadata => "instance" \notin r.query.path
       /\ MetadataHeaderRequired => r.query.metadata
  /\ r.pc = "pods" => handler(r.query) = "msi"
  /\ r.pc = lookup /\ handler(r.query) = "host" => r.from = None

\* What holds of a request at each place of its handler, apart from its type: which
\* requests and which client come there, whether the identity is chosen, and that a
\* sender that the informer knew is the pod that the lookup is made for.
Where(r) ==
  /\ r.pc \notin {"idle", "done"} =>
       r.query \in Query /\ (r.query.remote = "localhost" <=> r.from = None)
  /\ r.pc = "pods" => r.query.remote # "unparsable"
  /\ r.pc \in {"direct", "list", "getpod", "bindings", "ids", "token", "auth"} => r.pod \in Pod
  /\ r.pc = "list" => mode = "standard"
  /\ r.pc \in {"getpod", "bindings", "ids"} => mode = "managed"
  /\ r.pc \notin {"token", "auth"} => r.id = None
  /\ r.pc \in {"token", "auth"} => r.id # None
  /\ r.known => r.from # None /\ r.pod = r.from[1]
  /\ r.pc \in {"validate", "proxy", "pods"} => ~r.known
  /\ r.pc = "direct" => r.pod \in Excepted \cup MICPods
  /\ Routed(r)
  /\ NamespacesKept => r.panic # "index"

\* The types of the fields of a request, by names that the provers need not expand.
PCs == {"idle", "validate", "proxy", "pods", "direct", "list", "getpod", "bindings", "ids",
        "token", "auth", "done"}
Queries == Query \cup {None}
Senders == (Pod \X IP) \cup {None}
Flags == BOOLEAN
Tries == 0..getPodListRetries
Pods == Pod \cup {None}
Names == SUBSET {b.identity : b \in Binding}
Attempts == 0..RetryAttemptsForCreated + RetryAttemptsForAssigned
Ids == Identity \cup {None}
Codes == {0, 200, 400, 403, 404, 500, 503}
Panics == {"none", "index", "key"}

\* The type of a request, with them.
LEMMA RequestFields ==
  Request = [pc : PCs, query : Queries, from : Senders, known : Flags, tries : Tries, pod : Pods,
             names : Names, attempt : Attempts, id : Ids, code : Codes, panic : Panics]
BY Zenon DEF Request, PCs, Queries, Senders, Flags, Tries, Pods, Names, Attempts, Ids, Codes, Panics

\* The request before it arrives is well typed.
LEMMA IdleType == Idle \in Request
BY NMIAssumption DEF NMIAssumption, Idle, Request

\* A request that has been answered, with or without a panic.
Finished(r) == r.pc = "done" /\ r.known = FALSE /\ r.id = None

\* Such a request is as it should be, unless an index has panicked.
LEMMA FinishedWhere ==
  ASSUME NEW r, Finished(r), NamespacesKept => r.panic # "index"
  PROVE  Where(r)
BY Zenon DEF Finished, Where, Routed, lookup

\* An answer starts from a fresh request.
LEMMA AnswerType ==
  ASSUME NEW code \in {200, 400, 403, 404, 500, 503}, Answer(code)
  PROVE  rq' \in Request /\ Where(rq') /\ Finished(rq')
<1>1. rq' \in Request
  <2>1. "done" \in PCs /\ code \in Codes
    BY DEF PCs, Codes
  <2>2. PICK done \in PCs : done = "done"
    BY <2>1
  <2>3. rq' = [Idle EXCEPT !.pc = done, !.code = code]
    BY <2>2, ZenonT(40) DEF Answer
  <2> QED
    BY ZenonT(40), <2>1, <2>3, IdleType, RequestFields
<1>2. Finished(rq') /\ rq'.panic # "index"
  <2>1. /\ rq'.pc = "done" /\ rq'.known = Idle.known /\ rq'.id = Idle.id
        /\ rq'.panic = Idle.panic
    BY IdleType DEF Request, Answer
  <2>2. Idle.known = FALSE /\ Idle.id = None /\ Idle.panic = "none"
    BY DEF Idle
  <2> QED
    BY <2>1, <2>2 DEF Finished
<1>3. Where(rq')
  BY <1>2, FinishedWhere
<1> QED
  BY <1>1, <1>2, <1>3

\* So does the answer after a panic.
LEMMA RecoverType ==
  ASSUME NEW panic \in Panics, Recover(panic), NamespacesKept => panic # "index"
  PROVE  rq' \in Request /\ Where(rq') /\ Finished(rq')
<1>1. rq' \in Request
  <2>1. "done" \in PCs /\ 500 \in Codes
    BY DEF PCs, Codes
  <2>2. PICK done \in PCs, code \in Codes : done = "done" /\ code = 500
    BY Zenon, <2>1, Zenon
  <2>3. rq' = [Idle EXCEPT !.pc = done, !.code = code, !.panic = panic]
    BY Zenon, <2>2, Zenon DEF Recover
  <2> QED
    BY Zenon, <2>3, IdleType, RequestFields
<1>2. Finished(rq') /\ rq'.panic = panic
  <2>1. rq'.pc = "done" /\ rq'.known = Idle.known /\ rq'.id = Idle.id /\ rq'.panic = panic
    BY IdleType DEF Request, Recover
  <2>2. Idle.known = FALSE /\ Idle.id = None
    BY Zenon DEF Idle
  <2> QED
    BY Zenon, <2>1, <2>2 DEF Finished
<1>3. Where(rq')
  BY Zenon, <1>2, FinishedWhere
<1> QED
  BY Zenon, <1>1, <1>2, <1>3

\* The answer when no identity is found.
LEMMA NotFoundType ==
  ASSUME NotFound
  PROVE  rq' \in Request /\ Where(rq') /\ Finished(rq')
BY AnswerType DEF NotFound

\* The step that OwnIdentity allows.
OwnStep ==
  rq'.known =>
    LET p == rq'.from[1]
        i == rq'.id
    IN /\ rq'.pc = "direct" => p \in Excepted \cup MICPods
       /\ rq.pc # "ids" /\ rq'.pc = "ids" =>
            \A x \in rq'.names : \E b \in bindings : b.ns = p[1] /\ b.selector = LabelOf[p] /\ b.identity = x
       /\ rq.id = None /\ i # None =>
            /\ identityUnspecified(rq.query) \/ Matches(rq.query, i)
            /\ IsNamespaced \/ i.namespaced => i.ns = p[1]
            /\ mode = "standard" => <<p, i>> \in Assignable /\ InUse(<<p, i>>)
            /\ mode = "managed" => i.name \in rq.names

\* A step of a request that keeps all of it.
Good == rq' \in Request /\ Where(rq') /\ OwnStep

\* A request that is answered is of no pod.
LEMMA FinishedGood ==
  ASSUME rq' \in Request, Where(rq'), Finished(rq')
  PROVE  Good
BY Zenon DEF Good, Finished, OwnStep

\* The environment leaves the request alone.
LEMMA UnchangedGood ==
  ASSUME rq \in Request, Where(rq), UNCHANGED rq
  PROVE  Good
BY Zenon DEF Good, OwnStep, Where

\* A request arrives.
LEMMA SendGood ==
  ASSUME TypeOK, Where(rq), NEW p \in Pod \cup {None}, Send(p)
  PROVE  Good
<1>1. PICK u \in Query :
        /\ (u.remote = "localhost") <=> (p = None)
        /\ rq' = [Idle EXCEPT !.pc = "validate", !.query = u,
                              !.from = IF p = None THEN None ELSE <<p, running[p]>>]
  BY Zenon DEF Send
<1>2. PICK from \in Senders : from = IF p = None THEN None ELSE <<p, running[p]>>
  BY Zenon DEF Senders, TypeOK, Send
<1>3. "validate" \in PCs /\ u \in Queries
  BY Zenon DEF PCs, Queries
<1>4. rq' = [Idle EXCEPT !.pc = "validate", !.query = u, !.from = from]
  BY Zenon, <1>1, <1>2
<1>5. rq' \in Request
  BY Zenon, <1>3, <1>4, IdleType, RequestFields
<1>6. rq'.pc = "validate" /\ rq'.query = u /\ rq'.from = from /\ rq'.known = Idle.known /\ rq'.id = Idle.id
      /\ rq'.panic = Idle.panic
  BY Zenon, <1>3, <1>4, IdleType, RequestFields
<1>7. Idle.known = FALSE /\ Idle.id = None /\ Idle.panic = "none"
  BY Zenon DEF Idle
<1>8. (u.remote = "localhost") <=> (from = None)
  BY <1>1, <1>2, NMIAssumption DEF NMIAssumption, TypeOK, Send
<1>9. ~rq'.known /\ rq'.id = None
  BY Zenon, <1>6, <1>7
<1>10. Where(rq')
  BY Zenon, <1>6, <1>7, <1>8, <1>9 DEF Where, Routed, lookup
<1> QED
  BY Zenon, <1>5, <1>9, <1>10 DEF Good, OwnStep

\* The codes that a request is turned down with are codes, and what is not turned down
\* has passed the checks of its route.
LEMMA ErrorCodes ==
  ASSUME NEW u
  PROVE  /\ msiError(u) \in {0, 400, 500} /\ hostError(u) \in {0, 400, 500}
         /\ msiError(u) = 0 => u.remote # "unparsable"
         /\ hostError(u) = 0 => u.pod # None /\ u.remote = "localhost"
BY DEF msiError, hostError

\* So is the code of any route.
LEMMA RefusalCodes ==
  ASSUME NEW u
  PROVE  /\ Refusal(u) \in {0, 400, 403, 500}
         /\ Refusal(u) = 0 /\ handler(u) = "msi" => u.remote # "unparsable"
         /\ Refusal(u) = 0 /\ handler(u) = "host" => u.pod # None /\ u.remote = "localhost"
         /\ Refusal(u) = 0 /\ handler(u) = "default" =>
              /\ "token-like" \notin u.path
              /\ BlockInstanceMetadata => "instance" \notin u.path
              /\ MetadataHeaderRequired => u.metadata
<1>1. handler(u) = "default" => /\ "token-like" \notin u.path
                                /\ BlockInstanceMetadata => "instance" \notin u.path
  BY Zenon DEF handler
<1>2. msiError(u) \in {0, 400, 403, 500} /\ hostError(u) \in {0, 400, 403, 500}
  BY ErrorCodes
<1> QED
  BY <1>1, <1>2, ErrorCodes DEF Refusal

\* Where the request goes after the pod is known.
LEMMA LookupPlace == lookup \in PCs /\ lookup = IF mode = "standard" THEN "list" ELSE "getpod"
BY Zenon DEF lookup, PCs

\* The request is checked, and goes on to the lookup of the pod or is told the pod.
LEMMA ValidateGood ==
  ASSUME TypeOK, Where(rq), Validate
  PROVE  Good
<1> DEFINE u == rq.query
<1>0. /\ u \in Query /\ (u.remote = "localhost" <=> rq.from = None) /\ rq.id = None /\ rq \in Request
      /\ NamespacesKept => rq.panic # "index"
  BY Zenon DEF Validate, Where, TypeOK
<1>1. ~rq.known
  BY Zenon DEF Validate, Where
<1>2. CASE Refusal(u) # 0 /\ Answer(Refusal(u))
  <2>1. Refusal(u) \in {400, 403, 500}
    BY <1>2, RefusalCodes
  <2> QED
    BY <1>2, <2>1, AnswerType, FinishedGood
<1>3. ASSUME Refusal(u) = 0,
             NEW place \in {"pods", "proxy"}, rq' = [rq EXCEPT !.pc = place],
             place = "pods" => handler(u) = "msi", place = "proxy" => handler(u) = "default"
      PROVE  Good
  <2>1. place \in PCs
    BY Zenon DEF PCs
  <2>2. rq' \in Request
    BY Zenon, <1>0, <1>3, <2>1, RequestFields
  <2>3. rq'.pc = place /\ rq'.query = u /\ rq'.from = rq.from /\ rq'.known = rq.known
        /\ rq'.panic = rq.panic /\ rq'.id = None /\ rq'.pod = rq.pod
    BY Zenon, <1>0, <1>3, <2>1, RequestFields
  <2>4. Routed(rq')
    BY <1>3, <2>3, RefusalCodes DEF Routed, lookup
  <2>5. Where(rq')
    BY <1>0, <1>3, <1>1, <2>3, <2>4, RefusalCodes DEF Where
  <2> QED
    BY Zenon, <1>1, <2>2, <2>3, <2>5 DEF Good, OwnStep
<1>4. CASE Refusal(u) = 0 /\ handler(u) = "host" /\ rq' = [rq EXCEPT !.pc = lookup, !.pod = u.pod]
  <2>1. PICK q \in Pod : q = u.pod
    BY <1>0, <1>4, RefusalCodes, NMIAssumption DEF NMIAssumption
  <2>2. rq' = [rq EXCEPT !.pc = lookup, !.pod = q] /\ lookup \in PCs /\ q \in Pods
    BY Zenon, <1>4, <2>1, LookupPlace DEF Pods
  <2>3. rq' \in Request
    BY Zenon, <1>0, <2>2, RequestFields
  <2>4. rq'.pc = lookup /\ rq'.query = u /\ rq'.from = rq.from /\ rq'.known = rq.known
        /\ rq'.panic = rq.panic /\ rq'.id = None /\ rq'.pod = q
    BY Zenon, <1>0, <2>2, RequestFields
  <2>5. Routed(rq')
    BY <1>0, <1>4, <2>4, RefusalCodes, LookupPlace DEF Routed
  <2>6. Where(rq')
    BY Zenon, <1>0, <1>1, <2>4, <2>5, LookupPlace, NMIAssumption DEF Where, NMIAssumption
  <2> QED
    BY Zenon, <1>1, <2>3, <2>4, <2>6 DEF Good, OwnStep
<1> QED
  BY Zenon, <1>2, <1>3, <1>4 DEF Validate

\* The pod is looked up by its IP: a sender that the informer knows under that IP is
\* in the list, hence the only one in it.
LEMMA GetPodInfoGood ==
  ASSUME TypeOK, Where(rq), GetPodInfo
  PROVE  Good
<1> DEFINE pods == getPodList(IF rq.query.remote = "pod" THEN rq.from[2] ELSE None)
<1>1. /\ rq.pc = "pods" /\ rq.query \in Query /\ (rq.query.remote = "localhost" <=> rq.from = None)
      /\ rq.query.remote # "unparsable" /\ rq.id = None /\ rq \in Request
  BY Zenon DEF GetPodInfo, Where, TypeOK
<1>2. ~rq.known
  BY Zenon, <1>1 DEF Where
<1>3. CASE pods = {} /\ rq.tries < getPodListRetries /\ rq' = [rq EXCEPT !.tries = @ + 1]
  <2>1. PICK n \in Tries : n = rq.tries + 1
    BY <1>1, <1>3, NMIAssumption DEF NMIAssumption, Tries, Request
  <2>2. rq' = [rq EXCEPT !.tries = n]
    BY Zenon, <1>3, <2>1
  <2>3. rq' \in Request
    BY Zenon, <1>1, <2>2, RequestFields
  <2>4. rq'.pc = "pods" /\ rq'.query = rq.query /\ rq'.from = rq.from /\ rq'.known = rq.known
        /\ rq'.panic = rq.panic
        /\ rq'.id = None /\ rq'.pod = rq.pod
    BY Zenon, <1>1, <2>2, RequestFields
  <2>5. Where(rq')
    BY Zenon, <1>1, <1>2, <2>4 DEF Where, Routed
  <2> QED
    BY Zenon, <1>2, <2>3, <2>4, <2>5 DEF Good, OwnStep
<1>4. CASE Answer(500)
  BY <1>4, AnswerType, FinishedGood
<1>5. ASSUME Cardinality(pods) = 1, NEW p \in pods,
             rq' = [rq EXCEPT !.pod = p, !.known = rq.from # None /\ Known(rq.from),
                              !.pc = IF p \in Excepted \cup MICPods THEN "direct" ELSE lookup]
      PROVE  Good
  <2>1. p \in Pod
    BY Zenon DEF getPodList
  <2>2. PICK place \in PCs : place = IF p \in Excepted \cup MICPods THEN "direct" ELSE lookup
    BY Zenon, LookupPlace DEF PCs
  <2>3. PICK known \in Flags : known = (rq.from # None /\ Known(rq.from))
    BY Zenon DEF Flags
  <2>4. rq' = [rq EXCEPT !.pod = p, !.known = known, !.pc = place]
    BY Zenon, <1>5, <2>2, <2>3, Zenon
  <2>5. p \in Pods
    BY Zenon, <2>1 DEF Pods
  <2>6. rq' \in Request
    BY Zenon, <1>1, <2>4, <2>5, RequestFields
  <2>7. rq'.pc = place /\ rq'.query = rq.query /\ rq'.from = rq.from /\ rq'.known = known
        /\ rq'.panic = rq.panic /\ rq'.id = None /\ rq'.pod = p
    BY Zenon, <1>1, <2>4, <2>5, RequestFields
  <2>8. ASSUME known
        PROVE  rq.from # None /\ p = rq.from[1]
    <3>1. rq.from # None /\ Known(rq.from)
      BY Zenon, <2>3, <2>8, Zenon
    <3>2. rq.from \in Pod \X IP /\ rq.query.remote = "pod"
      BY <1>1, <3>1, NMIAssumption DEF NMIAssumption, Request
    <3>3. rq.from[1] \in pods
      <4>1. podCache[rq.from[1]] = [ip |-> rq.from[2], valid |-> TRUE] /\ rq.from[1] \in Pod
        BY Zenon, <3>1, <3>2 DEF Known
      <4>2. podCache[p] # None /\ podCache[p].ip = rq.from[2] /\ podCache[p].valid
        BY Zenon, <3>2 DEF getPodList
      <4>3. podCache[p] \in [ip : IP, valid : BOOLEAN]
        BY Zenon, <2>1, <4>2 DEF TypeOK
      <4>4. podCache[p] = [ip |-> rq.from[2], valid |-> TRUE]
        BY Zenon, <4>2, <4>3
      <4>5. podCache[rq.from[1]] # None
        BY Zenon, <4>1, <4>2, <4>4
      <4> QED BY <3>2, <4>1, <4>5 DEF getPodList
    <3>4. IsFiniteSet(pods)
      BY Zenon, NMIAssumption, FS_Subset DEF NMIAssumption, getPodList
    <3> QED
      BY <1>5, <3>1, <3>3, <3>4, FS_Singleton
  <2>9. Where(rq')
    BY Zenon, <1>1, <2>1, <2>2, <2>7, <2>8, LookupPlace, NMIAssumption DEF Where, Routed, NMIAssumption
  <2> QED
    BY Zenon, <1>1, <2>2, <2>6, <2>7, <2>8, <2>9, LookupPlace DEF Good, OwnStep
<1> QED
  BY Zenon, <1>3, <1>4, <1>5 DEF GetPodInfo

\* The identity is chosen, and it is one that the step may choose.
LEMMA ChosenGood ==
  ASSUME TypeOK, Where(rq), rq.pc \in {"list", "ids"}, NEW i \in Identity,
         rq' = [rq EXCEPT !.pc = "token", !.id = i],
         identityUnspecified(rq.query) \/ Matches(rq.query, i),
         IsNamespaced \/ i.namespaced => i.ns = rq.pod[1],
         mode = "standard" => <<rq.pod, i>> \in Assignable /\ InUse(<<rq.pod, i>>),
         mode = "managed" => i.name \in rq.names
  PROVE  Good
<1>1. /\ rq.query \in Query /\ (rq.query.remote = "localhost" <=> rq.from = None)
      /\ rq.pod \in Pod /\ rq.id = None /\ rq \in Request
      /\ (rq.known => rq.from # None /\ rq.pod = rq.from[1])
  BY Zenon DEF Where, TypeOK
<1>2. "token" \in PCs /\ i \in Ids /\ i # None
  BY Zenon, NMIAssumption DEF PCs, Ids, NMIAssumption
<1>3. rq' \in Request
  BY Zenon, <1>1, <1>2, RequestFields
<1>4. rq'.pc = "token" /\ rq'.query = rq.query /\ rq'.from = rq.from /\ rq'.known = rq.known
        /\ rq'.panic = rq.panic
      /\ rq'.id = i /\ rq'.pod = rq.pod
  BY Zenon, <1>1, <1>2, RequestFields
<1>5. Where(rq')
  BY <1>1, <1>2, <1>4 DEF Where, Routed, lookup
<1> QED
  BY Zenon, <1>1, <1>3, <1>4, <1>5 DEF Good, OwnStep

\* A pair is the pair of its parts.
LEMMA PairParts ==
  ASSUME NEW A, NEW B, NEW b \in A \X B
  PROVE  b = <<b[1], b[2]>> /\ b[1] \in A /\ b[2] \in B
OBVIOUS

\* GetIdentities chooses from a list of identities assigned to the pod.
LEMMA GetIdentitiesGood ==
  ASSUME TypeOK, Where(rq), rq.pc = "list", NEW st \in {"Assigned", "no status"},
         Found(rq.query, rq.pod, st), GetIdentities(ListPodIds(rq.pod, st))
  PROVE  Good
<1> DEFINE u == rq.query
           filtered == filterPodIdentities(rq.pod, ListPodIds(rq.pod, st))
           matching == IF identityUnspecified(u) THEN filtered ELSE {i \in filtered : Matches(u, i)}
<1>1. ASSUME NEW i \in matching, rq' = [rq EXCEPT !.pc = "token", !.id = i]
      PROVE  Good
  <2>1. i \in ListPodIds(rq.pod, st) /\ (IsNamespaced \/ i.namespaced => i.ns = rq.pod[1])
        /\ (identityUnspecified(u) \/ Matches(u, i))
    BY Zenon DEF filterPodIdentities
  <2>2. PICK b \in Assignable : b[1] = rq.pod /\ assigned[b] = st /\ i = b[2]
    BY Zenon, <2>1 DEF ListPodIds
  <2>3. b = <<rq.pod, i>> /\ i \in Identity
    <3>1. b \in Pod \X Identity
      BY Zenon, <2>2, NMIAssumption DEF NMIAssumption
    <3>2. b = <<b[1], b[2]>> /\ b[2] \in Identity
      BY Zenon, <3>1, PairParts
    <3> QED
      BY Zenon, <2>2, <3>2
  <2>4. <<rq.pod, i>> \in Assignable /\ InUse(<<rq.pod, i>>)
    BY Zenon, <2>2, <2>3 DEF InUse
  <2>5. mode # "managed"
    BY Zenon DEF Where
  <2> QED
    BY Zenon, <1>1, <2>1, <2>3, <2>4, <2>5, ChosenGood
<1>2. CASE matching = {} /\ identityUnspecified(u) /\ Recover("index")
  <2>1. ~NamespacesKept
    <3>1. PICK i \in ListPodIds(rq.pod, st) : TRUE
      BY Zenon DEF Found
    <3>2. PICK b \in Assignable : b[1] = rq.pod /\ i = b[2]
      BY Zenon DEF ListPodIds
    <3>3. i \notin filtered
      BY Zenon, <1>2
    <3> QED
      BY Zenon, <3>2, <3>3 DEF NamespacesKept, filterPodIdentities
  <2>2. "index" \in Panics
    BY Zenon DEF Panics
  <2> QED
    BY Zenon, <1>2, <2>1, <2>2, RecoverType, FinishedGood
<1>3. CASE NotFound
  BY Zenon, <1>3, NotFoundType, FinishedGood
<1> QED
  BY Zenon, <1>1, <1>2, <1>3 DEF GetIdentities

\* An attempt to find an identity of the pod.
LEMMA ListGood ==
  ASSUME TypeOK, Where(rq), listPodIDsWithRetry
  PROVE  Good
<1>1. rq.pc = "list" /\ rq \in Request
  BY Zenon DEF listPodIDsWithRetry, TypeOK
<1>2. ASSUME NEW st \in {"Assigned", "no status"}, Found(rq.query, rq.pod, st),
             GetIdentities(ListPodIds(rq.pod, st))
      PROVE  Good
  BY Zenon, <1>1, <1>2, GetIdentitiesGood
<1>3. CASE NotFound
  BY Zenon, <1>3, NotFoundType, FinishedGood
<1>4. CASE rq' = [rq EXCEPT !.attempt = @ + 1]
  <2>1. PICK n \in Attempts : n = rq.attempt + 1
    <3>1. rq.attempt \in 0..RetryAttemptsForCreated + RetryAttemptsForAssigned
          /\ rq.attempt < RetryAttemptsForCreated + RetryAttemptsForAssigned
      BY ZenonT(40), <1>1 DEF listPodIDsWithRetry, Request
    <3> QED
      BY <3>1, NMIAssumption DEF NMIAssumption, Attempts
  <2>2. rq' = [rq EXCEPT !.attempt = n]
    BY Zenon, <1>4, <2>1
  <2>3. rq' \in Request
    BY Zenon, <1>1, <2>2, RequestFields
  <2>4. rq'.pc = rq.pc /\ rq'.query = rq.query /\ rq'.from = rq.from /\ rq'.known = rq.known
        /\ rq'.panic = rq.panic
        /\ rq'.id = rq.id /\ rq'.pod = rq.pod
    BY Zenon, <1>1, <2>2, RequestFields
  <2>5. Where(rq')
    BY Zenon, <1>1, <2>4 DEF Where, Routed, lookup
  <2> QED
    BY Zenon, <1>1, <2>3, <2>4, <2>5 DEF Good, OwnStep, Where
<1> QED
  BY Zenon, <1>2, <1>3, <1>4 DEF listPodIDsWithRetry

\* The managed client: the pod, its bindings, their identities.
LEMMA ManagedGood ==
  ASSUME TypeOK, Where(rq), GetPod \/ ListBindings \/ ManagedGetIdentities
  PROVE  Good
<1>1. rq \in Request
  BY Zenon DEF TypeOK
<1>2. CASE NotFound
  BY Zenon, <1>2, NotFoundType, FinishedGood
<1>3. CASE rq.pc = "getpod" /\ rq' = [rq EXCEPT !.pc = "bindings"]
  <2>1. "bindings" \in PCs
    BY Zenon DEF PCs
  <2>2. rq' \in Request
    BY Zenon, <1>1, <1>3, <2>1, RequestFields
  <2>3. rq'.pc = "bindings" /\ rq'.query = rq.query /\ rq'.from = rq.from /\ rq'.known = rq.known
        /\ rq'.panic = rq.panic
        /\ rq'.id = rq.id /\ rq'.pod = rq.pod
    BY Zenon, <1>1, <1>3, <2>1, RequestFields
  <2>4. Where(rq')
    BY Zenon, <1>3, <2>3 DEF Where, Routed, lookup
  <2> QED
    BY Zenon, <1>3, <2>2, <2>3, <2>4 DEF Good, OwnStep, Where
<1>4. CASE ListBindings
  <2>1. PICK names \in Names :
          /\ rq' = [rq EXCEPT !.pc = "ids", !.names = names]
          /\ names = {b.identity : b \in {c \in bindings : c.selector = LabelOf[rq.pod] /\ c.ns = rq.pod[1]}}
    BY Zenon, <1>4 DEF ListBindings, TypeOK, Names
  <2>2. "ids" \in PCs
    BY Zenon DEF PCs
  <2>3. rq' \in Request
    BY Zenon, <1>1, <2>1, <2>2, RequestFields
  <2>4. rq'.pc = "ids" /\ rq'.query = rq.query /\ rq'.from = rq.from /\ rq'.known = rq.known
        /\ rq'.panic = rq.panic /\ rq'.names = names
        /\ rq'.id = rq.id /\ rq'.pod = rq.pod
    BY Zenon, <1>1, <2>1, <2>2, RequestFields
  <2>5. rq.pc = "bindings"
    BY Zenon, <1>4 DEF ListBindings
  <2>6. Where(rq')
    BY Zenon, <2>4, <2>5 DEF Where, Routed, lookup
  <2>7. \A x \in rq'.names :
          \E b \in bindings : b.ns = rq.pod[1] /\ b.selector = LabelOf[rq.pod] /\ b.identity = x
    BY Zenon, <2>1, <2>4
  <2>8. ASSUME rq'.known
        PROVE  \A x \in rq'.names : \E b \in bindings :
                 b.ns = rq'.from[1][1] /\ b.selector = LabelOf[rq'.from[1]] /\ b.identity = x
    <3>1. rq.pod = rq'.from[1]
      BY Zenon, <2>4, <2>8 DEF Where
    <3> QED
      BY Zenon, <2>7, <3>1
  <2>9. rq'.pc # "direct" /\ rq'.id = None
    BY Zenon, <2>4, <2>5 DEF Where
  <2>10. OwnStep
    BY Zenon, <2>8, <2>9 DEF OwnStep
  <2> QED
    BY Zenon, <2>3, <2>6, <2>10 DEF Good
<1>5. CASE ManagedGetIdentities
  <2> DEFINE matching == {i \in GetPodIDsWithBinding(rq.pod, rq.names) :
                            identityUnspecified(rq.query) \/ Matches(rq.query, i)}
  <2>1. rq.pc = "ids" /\ mode = "managed"
    BY Zenon, <1>5 DEF ManagedGetIdentities, Where
  <2>2. ASSUME NEW i \in matching, rq' = [rq EXCEPT !.pc = "token", !.id = i]
        PROVE  Good
    <3>1. /\ i \in Identity /\ i.ns = rq.pod[1] /\ i.name \in rq.names
          /\ identityUnspecified(rq.query) \/ Matches(rq.query, i)
      BY Zenon DEF GetPodIDsWithBinding, TypeOK
    <3> QED
      BY Zenon, <2>1, <2>2, <3>1, ChosenGood
  <2> QED
    BY Zenon, <1>2, <1>5, <2>2 DEF ManagedGetIdentities
<1> QED
  BY Zenon, <1>2, <1>3, <1>4, <1>5 DEF GetPod

\* The token: the secret is read, and the identity authenticated with.
LEMMA TokenGood ==
  ASSUME TypeOK, Where(rq), GetTokens \/ Authenticate
  PROVE  Good
<1>1. rq \in Request
  BY Zenon DEF TypeOK
<1>2. ASSUME NEW code \in {200, 403, 503}, Answer(code)
      PROVE  Good
  BY <1>2, AnswerType, FinishedGood
<1>3. CASE Recover("key")
  <2>1. "key" \in Panics
    BY Zenon DEF Panics
  <2> QED
    BY Zenon, <1>3, <2>1, RecoverType, FinishedGood
<1>4. CASE rq.pc = "token" /\ rq' = [rq EXCEPT !.pc = "auth"]
  <2>1. "auth" \in PCs
    BY Zenon DEF PCs
  <2>2. rq' \in Request
    BY Zenon, <1>1, <1>4, <2>1, RequestFields
  <2>3. rq'.pc = "auth" /\ rq'.query = rq.query /\ rq'.from = rq.from /\ rq'.known = rq.known
        /\ rq'.panic = rq.panic /\ rq'.id = rq.id /\ rq'.pod = rq.pod
    BY Zenon, <1>1, <1>4, <2>1, RequestFields
  <2>4. Where(rq')
    BY <1>4, <2>3 DEF Where, Routed, lookup
  <2> QED
    BY Zenon, <1>4, <2>2, <2>3, <2>4 DEF Good, OwnStep, Where
<1> QED
  BY <1>2, <1>3, <1>4 DEF GetTokens, Authenticate

\* Every step of the handlers.
LEMMA HandleGood ==
  ASSUME TypeOK, Where(rq), Handle
  PROVE  Good /\ UNCHANGED env
<1>1. CASE Validate
  BY Zenon, <1>1, ValidateGood DEF Validate
<1>2. CASE GetPodInfo
  BY Zenon, <1>2, GetPodInfoGood DEF GetPodInfo
<1>3. CASE getTokenForExceptedPod
  BY <1>3, AnswerType, FinishedGood DEF getTokenForExceptedPod
<1>4. CASE listPodIDsWithRetry
  BY Zenon, <1>4, ListGood DEF listPodIDsWithRetry
<1>5. CASE GiveUp \/ Disconnect
  BY Zenon, <1>5, NotFoundType, FinishedGood DEF GiveUp, Disconnect
<1>6. CASE GetPod \/ ListBindings \/ ManagedGetIdentities
  BY Zenon, <1>6, ManagedGood DEF GetPod, ListBindings, ManagedGetIdentities
<1>7. CASE defaultPathHandler
  BY <1>7, AnswerType, FinishedGood DEF defaultPathHandler
<1>8. CASE GetTokens \/ Authenticate
  BY Zenon, <1>8, TokenGood DEF GetTokens, Authenticate
<1> QED
  BY Zenon, <1>1, <1>2, <1>3, <1>4, <1>5, <1>6, <1>7, <1>8 DEF Handle

\* The types of what the environment changes.
EnvType ==
  /\ running \in [Pod -> IP \cup {None}]
  /\ podCache \in [Pod -> [ip : IP, valid : BOOLEAN] \cup {None}]
  /\ assigned \in [Assignable -> Status]
  /\ bindings \subseteq Binding /\ identities \subseteq Identity

\* Pods start and stop, and the informer learns of it.
LEMMA PodSteps ==
  ASSUME TypeOK, NEW p \in Pod, StopPod(p) \/ CachePod(p) \/ \E ip \in IP : StartPod(p, ip)
  PROVE  EnvType' /\ UNCHANGED rq
<1>1. EnvType
  BY Zenon DEF TypeOK, EnvType
<1>2. CASE StopPod(p)
  BY Zenon, <1>1, <1>2 DEF StopPod, EnvType
<1>3. CASE \E ip \in IP : StartPod(p, ip)
  BY Zenon, <1>1, <1>3 DEF StartPod, EnvType
<1>4. CASE CachePod(p)
  <2>1. PICK o : /\ podCache' = [podCache EXCEPT ![p] = o]
                 /\ \/ running[p] # None /\ o = [ip |-> running[p], valid |-> TRUE]
                    \/ podCache[p] # None /\ o \in {None, [podCache[p] EXCEPT !.valid = FALSE]}
    BY Zenon, <1>4 DEF CachePod
  <2>2. o \in [ip : IP, valid : BOOLEAN] \cup {None}
    <3>1. running[p] \in IP \cup {None} /\ podCache[p] \in [ip : IP, valid : BOOLEAN] \cup {None}
      BY Zenon, <1>1 DEF EnvType
    <3>2. ASSUME NEW c \in IP
          PROVE  [ip |-> c, valid |-> TRUE] \in [ip : IP, valid : BOOLEAN]
      BY Zenon
    <3>3. ASSUME NEW e \in [ip : IP, valid : BOOLEAN]
          PROVE  [e EXCEPT !.valid = FALSE] \in [ip : IP, valid : BOOLEAN]
      BY Zenon
    <3> QED
      BY Zenon, <2>1, <3>1, <3>2, <3>3, Zenon
  <2> QED
    BY Zenon, <1>1, <1>4, <2>1, <2>2 DEF CachePod, EnvType
<1> QED
  BY Zenon, <1>2, <1>3, <1>4

\* MIC writes, and bindings and identities are edited.
LEMMA EditSteps ==
  ASSUME TypeOK, \/ \E a \in Assignable : MIC(a)
                 \/ \E b \in Binding : EditBinding(b)
                 \/ \E i \in Identity : EditIdentity(i)
  PROVE  EnvType' /\ UNCHANGED rq
BY Zenon DEF TypeOK, EnvType, MIC, EditBinding, EditIdentity

\* The inductive invariant is kept, and every step is one that OwnIdentity allows.
LEMMA NextGood ==
  ASSUME TypeOK, Where(rq), [Next]_vars
  PROVE  TypeOK' /\ Where(rq)' /\ OwnStep
<1>1. EnvType /\ rq \in Request
  BY Zenon DEF TypeOK, EnvType
<1>2. SUFFICES EnvType' /\ Good
  BY Zenon DEF TypeOK, EnvType, Good
<1>3. CASE \E p \in Pod : StopPod(p) \/ CachePod(p) \/ \E ip \in IP : StartPod(p, ip)
  BY Zenon, <1>1, <1>3, PodSteps, UnchangedGood
<1>4. CASE \/ \E a \in Assignable : MIC(a)
           \/ \E b \in Binding : EditBinding(b)
           \/ \E i \in Identity : EditIdentity(i)
  BY Zenon, <1>1, <1>4, EditSteps, UnchangedGood
<1>5. CASE \E p \in Pod \cup {None} : Send(p)
  BY Zenon, <1>1, <1>5, SendGood DEF Send, env, EnvType
<1>6. CASE Handle
  BY Zenon, <1>1, <1>6, HandleGood DEF env, EnvType
<1>7. CASE UNCHANGED vars
  BY Zenon, <1>1, <1>7, UnchangedGood DEF vars, env, EnvType
<1> QED
  BY Zenon, <1>3, <1>4, <1>5, <1>6, <1>7 DEF Next

\* At the start there is no request.
LEMMA InitGood == Init => TypeOK /\ Where(rq)
<1> SUFFICES ASSUME Init PROVE TypeOK /\ Where(rq)
  BY Zenon
<1>1. rq \in Request
  BY Zenon, IdleType DEF Init
<1>2. TypeOK
  BY Zenon, <1>1, NMIAssumption DEF Init, TypeOK, NMIAssumption
<1>3. rq.pc = "idle" /\ rq.id = None /\ rq.known = FALSE /\ rq.panic = "none"
  BY Zenon DEF Init, Idle
<1>4. Where(rq)
  BY Zenon, <1>3 DEF Where, Routed, lookup
<1> QED
  BY Zenon, <1>2, <1>4

\* Every variable keeps its type: the counters of the loops of getPodListRetry and
\* listPodIDsWithRetry stay within their bounds.
THEOREM NMITypeCorrect == Spec => []TypeOK
<1>1. TypeOK /\ Where(rq) /\ [Next]_vars => (TypeOK /\ Where(rq))'
  BY Zenon, NextGood
<1> QED
  BY <1>1, InitGood, PTL DEF Spec

\* For all pods, identities, requests and retry counts, and whatever changes during a
\* request: a sender that the pod informer knew is served only with an identity that
\* is assigned to it then (in managed mode, of its namespace) and that it asked for.
THEOREM OwnIdentityOnly == Spec => OwnIdentity
<1>1. TypeOK /\ Where(rq) /\ [Next]_vars => (TypeOK /\ Where(rq))'
  BY Zenon, NextGood
<1>2. TypeOK /\ Where(rq) /\ [Next]_vars => [OwnStep]_vars
  BY Zenon, NextGood
<1>3. Spec => [][OwnStep]_vars
  BY <1>1, <1>2, InitGood, PTL DEF Spec
<1> QED
  BY Zenon, <1>3 DEF OwnIdentity, OwnStep

\* For all paths, whatever patterns they match: only what no other route claims is sent
\* on to IMDS as it came, and no pod has a request served for a pod that it names.
THEOREM OnlyUnclaimed == Spec => []Unclaimed
<1>1. TypeOK /\ Where(rq) /\ [Next]_vars => (TypeOK /\ Where(rq))'
  BY Zenon, NextGood
<1>2. Where(rq) => Unclaimed
  BY Zenon DEF Where, Routed, Unclaimed
<1> QED
  BY <1>1, <1>2, InitGood, PTL DEF Spec

\* When MIC keeps namespaced identities to the pods of their namespace, the lookup
\* finds an identity wherever listPodIDsWithRetry has found one: filterPodIdentities
\* leaves no list empty, and its first element can be taken.
THEOREM NoLookupPanic == NamespacesKept => (Spec => []LookupNeverPanics)
<1> SUFFICES ASSUME NamespacesKept PROVE Spec => []LookupNeverPanics
  BY Zenon
<1>1. TypeOK /\ Where(rq) /\ [Next]_vars => (TypeOK /\ Where(rq))'
  BY Zenon, NextGood
<1>2. Where(rq) => LookupNeverPanics
  BY Zenon DEF Where, LookupNeverPanics
<1> QED
  BY <1>1, <1>2, InitGood, PTL DEF Spec
=============================================================================
