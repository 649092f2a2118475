-------------------------- MODULE SyncLoop_proofs --------------------------
(***************************************************************************)
(* No wake-up of the sync loop is lost, for any size of the channel and    *)
(* any number of objects, changes and failed cycles.                       *)
(*                                                                         *)
(* WakeupPending is not inductive: a cycle that ends well takes back the   *)
(* excuse of an earlier one that failed.  In the invariant that excuse     *)
(* holds only until the next cycle has read the objects in question.       *)
(***************************************************************************)
EXTENDS SyncLoop, TLAPS

\* The cycle is past its read of kind i.
Past(i) ==
  loop \in IF i = "pod" THEN {"binding", "identity", "assignedID", "node"}
           ELSE IF i = "binding" THEN {"identity", "assignedID", "node"} ELSE {"assignedID", "node"}

\* An event for i is on its way.
Queued(i, q) == \E k \in 1..Len(q) : Sends(i, q[k])

Awaited(i) ==
  \/ channel > 0 \/ (aborted /\ ~Past(i))
  \/ Queued(i, queue[i])
  \/ loop = "pod" \/ loop = i \/ (i = "identity" /\ loop = "binding")

\* Before the list nothing is read.
Unread ==
  /\ \A i \in Informer : i \notin synced => loop = "start"
  /\ loop = "start" => seen = [i \in Informer |-> 0]

IInv == TypeOK /\ Unread /\ \A i \in Notifying : cached[i] # seen[i] => Awaited(i)

-----------------------------------------------------------------------------

\* An event on its way stays so when another notification is queued.
LEMMA QueuedAppend ==
  ASSUME NEW i, NEW q \in Seq(Kind), NEW c \in Kind
  PROVE  /\ Append(q, c) \in Seq(Kind)
         /\ Queued(i, q) \/ Sends(i, c) => Queued(i, Append(q, c))
<1>1. /\ Append(q, c) \in Seq(Kind) /\ Len(Append(q, c)) = Len(q) + 1 /\ Len(q) \in Nat
      /\ Append(q, c)[Len(q) + 1] = c
      /\ \A k \in 1..Len(q) : Append(q, c)[k] = q[k]
  OBVIOUS
<1>2. ASSUME NEW k \in 1..Len(q), Sends(i, q[k]) PROVE Queued(i, Append(q, c))
  <2>1. k \in 1..Len(Append(q, c)) /\ Append(q, c)[k] = q[k]
    BY <1>1
  <2>. QED BY <1>2, <2>1 DEF Queued
<1>3. ASSUME Sends(i, c) PROVE Queued(i, Append(q, c))
  <2>1. Len(q) + 1 \in 1..Len(Append(q, c))
    BY <1>1
  <2>. QED BY <1>1, <1>3, <2>1 DEF Queued
<1>. QED BY <1>1, <1>2, <1>3 DEF Queued

\* It is taken, or it stays on its way, when the handler takes a notification.
LEMMA QueuedTail ==
  ASSUME NEW i, NEW q \in Seq(Kind), q # <<>>
  PROVE  /\ Tail(q) \in Seq(Kind) /\ Head(q) \in Kind
         /\ Queued(i, q) => Sends(i, Head(q)) \/ Queued(i, Tail(q))
<1>1. /\ Tail(q) \in Seq(Kind) /\ Head(q) \in Kind /\ Len(q) \in Nat /\ Len(q) > 0
      /\ Len(Tail(q)) = Len(q) - 1 /\ Head(q) = q[1]
      /\ \A k \in 1..Len(Tail(q)) : Tail(q)[k] = q[k + 1]
  OBVIOUS
<1>2. ASSUME NEW k \in 1..Len(q), Sends(i, q[k]), k # 1 PROVE Queued(i, Tail(q))
  <2>1. k - 1 \in 1..Len(Tail(q)) /\ Tail(q)[k - 1] = q[k]
    BY <1>1, <1>2
  <2>. QED BY <1>2, <2>1 DEF Queued
<1>. QED BY <1>1, <1>2 DEF Queued

\* The state stays well-formed.
LEMMA TypeStep ==
  ASSUME TypeOK, [Next]_vars
  PROVE  TypeOK'
<1>. USE LoopAssumption DEF LoopAssumption
<1>1. CASE UNCHANGED vars
  BY <1>1 DEF vars, cluster, informers, TypeOK
<1>2. ASSUME NEW i \in Informer, NEW c \in Change[i], Occur(i, c) PROVE TypeOK'
  <2>1. c \in Kind /\ watch[i] \in Seq(Kind)
    BY <1>2 DEF TypeOK
  <2>2. Append(watch[i], c) \in Seq(Kind)
    BY <2>1, QueuedAppend
  <2>3. watch' \in [Informer -> Seq(Kind)]
    BY <1>2, <2>2 DEF Occur, TypeOK
  <2>4. api' \in [Informer -> Nat]
    BY <1>2 DEF Occur, TypeOK
  <2>5. changes' \in 0..MaxChanges
    BY <1>2 DEF Occur, TypeOK
  <2>. QED BY <1>2, <2>3, <2>4, <2>5 DEF Occur, TypeOK, informers
<1>3. ASSUME NEW i \in Informer, List(i) PROVE TypeOK'
  <2>1. [k \in 1..api[i] |-> "add"] \in Seq(Kind)
    BY DEF TypeOK, Kind
  <2>2. queue' \in [Informer -> Seq(Kind)]
    BY <1>3, <2>1 DEF List, TypeOK
  <2>3. cached' \in [Informer -> Nat]
    BY <1>3 DEF List, TypeOK
  <2>. QED BY <1>3, <2>2, <2>3 DEF List, TypeOK, cluster
<1>4. ASSUME NEW i \in Informer, Receive(i) PROVE TypeOK'
  <2>1. watch[i] \in Seq(Kind) /\ queue[i] \in Seq(Kind)
    BY DEF TypeOK
  <2>2. Tail(watch[i]) \in Seq(Kind) /\ Head(watch[i]) \in Kind
    BY <1>4, <2>1, QueuedTail DEF Receive
  <2>3. Append(queue[i], Head(watch[i])) \in Seq(Kind)
    BY <2>1, <2>2, QueuedAppend
  <2>4. watch' \in [Informer -> Seq(Kind)]
    BY <1>4, <2>2 DEF Receive, TypeOK
  <2>5. queue' \in [Informer -> Seq(Kind)]
    BY <1>4, <2>3 DEF Receive, TypeOK
  <2>6. cached' \in [Informer -> Nat]
    BY <1>4 DEF Receive, TypeOK
  <2>. QED BY <1>4, <2>4, <2>5, <2>6 DEF Receive, TypeOK
<1>5. ASSUME NEW i \in Informer, Handle(i) PROVE TypeOK'
  <2>1. queue[i] \in Seq(Kind)
    BY DEF TypeOK
  <2>2. Tail(queue[i]) \in Seq(Kind)
    BY <1>5, <2>1, QueuedTail DEF Handle
  <2>3. queue' \in [Informer -> Seq(Kind)]
    BY <1>5, <2>2 DEF Handle, TypeOK
  <2>4. channel' \in 0..EventChannelSize
    BY <1>5 DEF Handle, TypeOK
  <2>. QED BY <1>5, <2>3, <2>4 DEF Handle, TypeOK, cluster
<1>6. ASSUME NEW i \in Informer, Read(i) PROVE TypeOK'
  <2>1. seen' \in [Informer -> Nat]
    BY <1>6 DEF Read, TypeOK
  <2>2. loop' \in {"start", "select", "reconcile"} \cup Informer
    BY <1>6 DEF Read, After, Informer
  <2>3. aborted' \in BOOLEAN
    BY <1>6 DEF Read
  <2>. QED BY <1>6, <2>1, <2>2, <2>3 DEF Read, TypeOK, cluster, informers
<1>7. ASSUME NEW i \in Informer, Abort(i) PROVE TypeOK'
  BY <1>7 DEF Abort, TypeOK, cluster, informers
<1>8. CASE Start \/ Tick \/ ReconcileTick \/ Reconciled
  BY Zenon, <1>8 DEF Start, Tick, ReconcileTick, Reconciled, TypeOK, cluster, informers, Informer
<1>9. CASE Event
  BY <1>9 DEF Event, TypeOK, cluster, informers, Informer
<1>. QED BY <1>1, <1>2, <1>3, <1>4, <1>5, <1>6, <1>7, <1>8, <1>9 DEF Next

\* Nothing is read before all informers have listed.
LEMMA UnreadStep ==
  ASSUME TypeOK, Unread, Next
  PROVE  Unread'
<1>1. ASSUME NEW i \in Informer, List(i) PROVE Unread'
  BY <1>1 DEF List, Unread
<1>2. ASSUME NEW i \in Informer, Read(i) \/ Abort(i) PROVE Unread'
  <2>1. loop # "start" /\ loop' # "start"
    BY <1>2 DEF Read, Abort, After, Informer
  <2>. QED BY <1>2, <2>1 DEF Read, Abort, Unread, informers
<1>3. CASE Start
  BY <1>3 DEF Start, Unread, Informer, PodClientStarted, CRDClientStarted, NodeClientStarted, informers
<1>4. CASE Event \/ Tick \/ ReconcileTick \/ Reconciled
  BY <1>4 DEF Event, Tick, ReconcileTick, Reconciled, Unread, informers
<1>5. ASSUME NEW i \in Informer, Receive(i) \/ Handle(i) \/ \E c \in Change[i] : Occur(i, c) PROVE Unread'
  BY <1>5 DEF Receive, Handle, Occur, Unread, informers
<1>. QED BY <1>1, <1>2, <1>3, <1>4, <1>5 DEF Next

\* A change that is not read yet goes on having an event on its way.
LEMMA AwaitedStep ==
  ASSUME IInv, Next, NEW i \in Notifying, cached'[i] # seen'[i]
  PROVE  Awaited(i)'
<1>0. /\ i \in Informer /\ TypeOK /\ Unread
      /\ cached[i] # seen[i] => Awaited(i)
      /\ queue[i] \in Seq(Kind)
  BY Zenon DEF IInv, TypeOK, Notifying, Informer
<1>1. ASSUME NEW j \in Informer, NEW c \in Change[j], Occur(j, c) PROVE Awaited(i)'
  BY <1>0, <1>1 DEF Occur, informers, Awaited, Past
<1>2. ASSUME NEW j \in Informer, List(j) PROVE Awaited(i)'
  <2>1. CASE j # i
    <3>1. cached'[i] = cached[i] /\ queue'[i] = queue[i]
      BY <1>0, <1>2, <2>1 DEF List, TypeOK
    <3>. QED BY <1>0, <1>2, <3>1 DEF List, Awaited, Past
  <2>2. CASE j = i
    <3>1. cached'[i] = api[i] /\ api[i] \in Nat /\ queue'[i] = [k \in 1..api[i] |-> "add"]
      BY <1>0, <1>2, <2>2 DEF List, TypeOK
    <3>2. seen'[i] = 0
      BY <1>0, <1>2, <2>2 DEF List, Unread
    <3>3. 1 \in 1..Len(queue'[i]) /\ queue'[i][1] = "add"
      BY <3>1, <3>2
    <3>4. Sends(i, "add")
      BY DEF Sends, Notifying
    <3>. QED BY <3>3, <3>4 DEF Awaited, Queued
  <2>. QED BY <2>1, <2>2
<1>3. ASSUME NEW j \in Informer, Receive(j) PROVE Awaited(i)'
  <2>1. CASE j # i
    <3>1. cached'[i] = cached[i] /\ queue'[i] = queue[i]
      BY <1>0, <1>3, <2>1 DEF Receive, TypeOK
    <3>. QED BY <1>0, <1>3, <3>1 DEF Receive, Awaited, Past
  <2>2. CASE j = i
    <3>1. watch[i] \in Seq(Kind) /\ watch[i] # <<>>
      BY <1>0, <1>3, <2>2 DEF Receive, TypeOK
    <3>2. Head(watch[i]) \in Kind
      BY <3>1, QueuedTail
    <3>3. /\ queue'[i] = Append(queue[i], Head(watch[i]))
          /\ cached'[i] # cached[i] => Matters(i, Head(watch[i]))
      BY <1>0, <1>3, <2>2 DEF Receive, TypeOK
    <3>4. Matters(i, Head(watch[i])) => Sends(i, Head(watch[i]))
      BY DEF Matters, Sends, Notifying
    <3>5. Queued(i, queue[i]) \/ Sends(i, Head(watch[i])) => Queued(i, queue'[i])
      BY Zenon, <1>0, <3>2, <3>3, QueuedAppend
    <3>. QED BY <1>0, <1>3, <3>3, <3>4, <3>5 DEF Receive, Awaited, Past
  <2>. QED BY <2>1, <2>2
<1>4. ASSUME NEW j \in Informer, Handle(j) PROVE Awaited(i)'
  <2>1. channel \in Nat /\ channel' \in Nat /\ channel' >= channel /\ (Sends(j, Head(queue[j])) => channel' > 0)
    <3>1. channel \in Nat
      BY <1>0, LoopAssumption DEF TypeOK, LoopAssumption
    <3>2. IF Sends(j, Head(queue[j])) THEN channel' = channel + 1 ELSE channel' = channel
      BY <1>4, Zenon DEF Handle
    <3>. QED BY <3>1, <3>2
  <2>2. UNCHANGED <<cached, seen, loop, aborted>>
    BY <1>4 DEF Handle
  <2>3. Queued(i, queue[i]) => channel' > 0 \/ Queued(i, queue'[i])
    <3>1. CASE j # i
      BY <1>0, <1>4, <3>1 DEF Handle, TypeOK
    <3>2. CASE j = i
      <4>1. queue'[i] = Tail(queue[i]) /\ queue[i] # <<>>
        BY <1>0, <1>4, <3>2 DEF Handle, TypeOK
      <4>. QED BY <1>0, <2>1, <3>2, <4>1, QueuedTail
    <3>. QED BY <3>1, <3>2
  <2>4. CASE channel' > 0
    BY <2>4 DEF Awaited
  <2>5. CASE ~(channel' > 0)
    <3>1. ~(channel > 0) /\ (Queued(i, queue[i]) => Queued(i, queue'[i]))
      BY <2>1, <2>3, <2>5
    <3>. QED BY <1>0, <2>2, <3>1 DEF Awaited, Past
  <2>. QED BY <2>4, <2>5
<1>5. ASSUME NEW j \in Informer, Read(j) PROVE Awaited(i)'
  <2>1. i # j
    BY <1>0, <1>5 DEF Read, TypeOK, informers
  <2>2. cached[i] # seen[i]
    BY <1>0, <1>5, <2>1 DEF Read, TypeOK, informers
  <2>3. UNCHANGED <<channel, queue>> /\ loop = j /\ loop' = After(j) /\ (aborted /\ j # "node" => aborted')
    BY Zenon, <1>5 DEF Read, informers
  <2>4. ~Past(i) /\ loop # "node" => ~Past(i)'
    BY <2>1, <2>3 DEF Past, After, Notifying, Informer
  <2>5. loop = "node" => Past(i)
    BY DEF Past
  <2>6. CASE loop = "pod"
    BY <2>1, <2>3, <2>6 DEF After, Awaited, Notifying
  <2>7. CASE i = "identity" /\ loop = "binding"
    BY <2>3, <2>7 DEF After, Awaited
  <2>. QED BY <1>0, <2>1, <2>2, <2>3, <2>4, <2>5, <2>6, <2>7 DEF Awaited
<1>6. ASSUME NEW j \in Informer, Abort(j) PROVE Awaited(i)'
  BY <1>6 DEF Abort, Awaited, Past
<1>7. CASE Event \/ Tick
  BY <1>7 DEF Event, Tick, Awaited
<1>8. CASE Start \/ ReconcileTick \/ Reconciled
  BY <1>0, <1>8 DEF Start, ReconcileTick, Reconciled, Awaited, Past, informers, Notifying
<1>. QED BY <1>1, <1>2, <1>3, <1>4, <1>5, <1>6, <1>7, <1>8 DEF Next

\* The initial states satisfy the invariant.
LEMMA InitIInv == Init => IInv
<1>. SUFFICES ASSUME Init PROVE IInv
  OBVIOUS
<1>1. <<>> \in Seq(Kind)
  OBVIOUS
<1>2. TypeOK
  <2>1. watch \in [Informer -> Seq(Kind)] /\ queue \in [Informer -> Seq(Kind)]
    BY <1>1 DEF Init
  <2>2. api \in [Informer -> Nat] /\ cached \in [Informer -> Nat] /\ seen \in [Informer -> Nat]
    BY LoopAssumption DEF Init, LoopAssumption
  <2>3. channel \in 0..EventChannelSize /\ changes \in 0..MaxChanges /\ aborts \in 0..MaxAborts
    BY LoopAssumption DEF Init, LoopAssumption
  <2>. QED BY Zenon, <2>1, <2>2, <2>3 DEF Init, TypeOK
<1>3. Unread /\ \A i \in Notifying : cached[i] = seen[i]
  BY DEF Init, Unread, Notifying, Informer
<1>. QED BY <1>2, <1>3 DEF IInv

\* The invariant is inductive.
LEMMA NextIInv == IInv /\ [Next]_vars => IInv'
<1>. SUFFICES ASSUME IInv, [Next]_vars PROVE IInv'
  OBVIOUS
<1>1. TypeOK'
  BY TypeStep DEF IInv
<1>2. CASE Next
  <2>1. Unread'
    BY <1>2, UnreadStep DEF IInv
  <2>2. \A i \in Notifying : cached'[i] # seen'[i] => Awaited(i)'
    BY <1>2, AwaitedStep
  <2>. QED BY <1>1, <2>1, <2>2 DEF IInv, Notifying
<1>3. CASE UNCHANGED vars
  BY <1>1, <1>3 DEF vars, cluster, informers, IInv, Unread, Awaited, Past, Notifying
<1>. QED BY <1>2, <1>3

\* The channel holds at most EventChannelSize events.
THEOREM LoopTypeCorrect == Spec => []TypeOK
BY InitIInv, NextIInv, PTL DEF Spec, IInv

\* A change that is in a cache and that no cycle has read has an event on its way, for
\* any size of the channel and any number of objects, changes and failed cycles.
THEOREM NoLostWakeup == Spec => []WakeupPending
<1>1. IInv => WakeupPending
  BY DEF IInv, WakeupPending, Awaited, Queued
<1>. QED BY InitIInv, NextIInv, <1>1, PTL DEF Spec
=============================================================================
