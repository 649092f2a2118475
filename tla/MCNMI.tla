------------------------------- MODULE MCNMI -------------------------------
(***************************************************************************)
(* Small instances of NMI.                                                 *)
(***************************************************************************)
EXTENDS NMI

CONSTANTS n1, n2, web, ip1, ip2, i1, i2

\* A pod of each namespace under the same name.
SameName == {<<n1, web>>, <<n2, web>>}
Labels == [p \in Pod |-> p[2]]
OfSecond == {<<n2, web>>}

\* An identity i of namespace ns.
Id(ns, i, namespaced, type) ==
  [ns |-> ns, name |-> i, client |-> <<i, "lower">>, rid |-> <<i, "lower">>, namespaced |-> namespaced, type |-> type]
First == Id(n1, i1, FALSE, "msi")
Second == Id(n1, i2, TRUE, "certificate")
OfSecret == Id(n1, i1, FALSE, "sp")
Elsewhere == Id(n2, i1, FALSE, "unsupported")
TwoIds == {First, Second}
IdsOfTwoNamespaces == {OfSecret, Elsewhere}

\* MIC keeps namespaced identities in their namespace.
OfNamespace == {a \in Pod \X Identity : IsNamespaced \/ a[2].namespaced => a[2].ns = a[1][1]}
NothingAssigned == [a \in Assignable |-> "absent"]
OneOfOldMIC == [a \in Assignable |-> IF a = <<<<n1, web>>, Second>> THEN "no status" ELSE "absent"]

Bindings == {[ns |-> n1, selector |-> web, identity |-> i1], [ns |-> n2, selector |-> web, identity |-> i1]}

Ask(path, remote, pod, client, rid) ==
  [path |-> path, remote |-> remote, pod |-> pod, metadata |-> TRUE, resource |-> TRUE, client |-> client, rid |-> rid]
Any == Ask({"token", "token-like"}, "pod", None, None, None)
ByClient(i) == Ask({"token", "token-like"}, "pod", None, i.client, None)
ByResource(i) == Ask({"token", "token-like"}, "pod", None, None, i.rid)

WellFormed == {Any} \cup {ByClient(i) : i \in Identity} \cup {ByResource(i) : i \in Identity}
IllFormed == {[Any EXCEPT !.metadata = FALSE], [Any EXCEPT !.resource = FALSE], [Any EXCEPT !.remote = "unparsable"]}
OfHost(p) == Ask({"host"}, "localhost", p, None, None)
HostRequests == {OfHost(<<n1, web>>), OfHost(<<n2, web>>), OfHost(None),
                 [OfHost(<<n1, web>>) EXCEPT !.resource = FALSE], [OfHost(<<n1, web>>) EXCEPT !.remote = "pod"]}
\* Paths that are not quite a token's, instance metadata, and anything else of IMDS.
OtherPaths == {[Any EXCEPT !.path = q] : q \in {{"token-like"}, {"token-like", "host"}, {"token-like", "instance"}, {"instance"}, {}}}
              \cup {[Any EXCEPT !.path = {}, !.metadata = FALSE]}
AnyOrFirst == {Any, ByClient(First)}
EveryKind == AnyOrFirst \cup HostRequests \cup IllFormed \cup OtherPaths
=============================================================================
