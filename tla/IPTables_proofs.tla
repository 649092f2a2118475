-------------------------- MODULE IPTables_proofs --------------------------
(***************************************************************************)
(* That NMI does not interrupt the redirection, lets no connection past    *)
(* once it is initialized, and cleans up, for every number of edits,       *)
(* failed commands and restarts.                                           *)
(***************************************************************************)
EXTENDS IPTables, SequenceTheorems, TLAPS

\* The complete list of rules passes the check of ensureCustomChain.
LEMMA CompleteMatches == Matches(<<"dnat", "return">>)
<1> DEFINE l == <<"dnat", "return">>
<1>1. Len(l) = 2 /\ l[1] = "dnat" /\ l[2] = "return"
  BY Zenon
<1>2. /\ 2 \in 0..Len(l) /\ \A j \in 1..2 : l[j] \in {"dnat", "return"}
      /\ 2 < Len(l) => l[2 + 1] \notin {"dnat", "return"}
      /\ 2 + 1 = 3
  BY <1>1
<1> QED
  BY Zenon, <1>2 DEF Matches

\* What an NMI leaves of the chain, complete or not, if nobody else edits it.
Left == {None, <<>>, <<"dnat">>, <<"dnat", "return">>, <<"old">>, <<"old", "return">>}

\* Of these only the complete list passes the check.
LEMMA OnlyCompleteMatches ==
  ASSUME NEW l \in Left, l # None, Matches(l)
  PROVE  l = <<"dnat", "return">>
<1>1. PICK k \in 0..Len(l) : (\A j \in 1..k : l[j] \in {"dnat", "return"}) /\ k + 1 = 3
  BY Zenon DEF Matches
<1>2. k = 2 /\ 1 \in 1..k
  BY <1>1
<1>3. CASE l = <<>>
  BY <1>1, <1>2, <1>3
<1>4. CASE l = <<"dnat">> \/ l = <<"old">>
  BY <1>1, <1>2, <1>4
<1>5. CASE l = <<"old", "return">>
  <2>1. l[1] = "old"
    BY Zenon, <1>5
  <2>. QED BY Zenon, <1>1, <1>2, <2>1
<1>. QED BY Zenon, <1>3, <1>4, <1>5 DEF Left

\* A chain is a list of at most two rules.
LEMMA ChainsAreLists ==
  ASSUME NEW c
  PROVE  c \in Chains <=> c \in Seq(Rule) /\ Len(c) <= 2
<1>1. ASSUME c \in Chains PROVE c \in Seq(Rule) /\ Len(c) <= 2
  <2>1. PICK k \in 0..2 : c \in [1..k -> Rule]
    BY Zenon, <1>1 DEF Chains
  <2>2. c \in Seq(Rule)
    BY <2>1, SeqDef
  <2>3. DOMAIN c = 1..k /\ DOMAIN c = 1..Len(c) /\ Len(c) \in Nat
    BY Zenon, <2>1, <2>2, LenProperties
  <2>. QED BY <2>2, <2>3
<1>2. ASSUME c \in Seq(Rule), Len(c) <= 2 PROVE c \in Chains
  <2>1. Len(c) \in Nat /\ c \in [1..Len(c) -> Rule]
    BY Zenon, <1>2, LenProperties
  <2>2. Len(c) \in 0..2
    BY <1>2, <2>1
  <2>. QED BY Zenon, <2>1, <2>2 DEF Chains
<1>. QED BY Zenon, <1>1, <1>2

\* Deleting a rule makes a chain shorter.
LEMMA WithoutShorter ==
  ASSUME NEW c \in Chains, NEW k \in 1..Len(c)
  PROVE  Without(c, k) \in Chains /\ Len(Without(c, k)) < Len(c)
<1>1. c \in Seq(Rule) /\ Len(c) <= 2 /\ Len(c) \in Nat
  BY ChainsAreLists
<1>2. SubSeq(c, 1, k - 1) \in Seq(Rule) /\ Len(SubSeq(c, 1, k - 1)) = k - 1
  BY <1>1
<1>3. SubSeq(c, k + 1, Len(c)) \in Seq(Rule) /\ Len(SubSeq(c, k + 1, Len(c))) = Len(c) - k
  BY <1>1
<1>4. Without(c, k) \in Seq(Rule) /\ Len(Without(c, k)) = Len(c) - 1
  <2>1. /\ Without(c, k) \in Seq(Rule)
        /\ Len(Without(c, k)) = Len(SubSeq(c, 1, k - 1)) + Len(SubSeq(c, k + 1, Len(c)))
    BY Zenon, <1>2, <1>3, ConcatProperties DEF Without
  <2>2. (k - 1) + (Len(c) - k) = Len(c) - 1
    BY <1>1
  <2>. QED BY Zenon, <1>2, <1>3, <2>1, <2>2
<1>. QED BY <1>1, <1>4, ChainsAreLists

-----------------------------------------------------------------------------
\* Types.  Jumps pile up only where Exists has failed, and the chain is flushed before
\* rules are appended to it.

Bounded ==
  /\ TypeOK
  /\ chain = None => jumps = 0
  /\ jumps <= faults + 1
  /\ pc = "insert" => jumps <= faults
  /\ pc = "dnat" /\ chain # None => Len(chain) = 0
  /\ pc = "return" /\ chain # None => Len(chain) <= 1

\* The initial states are well-formed.
LEMMA InitBounded == Init => Bounded
<1>. SUFFICES ASSUME Init PROVE Bounded
  BY Zenon
<1>1. InitChain \in Chains \cup {None}
  <2>1. /\ <<>> \in Seq(Rule) /\ <<"dnat">> \in Seq(Rule) /\ <<"dnat", "return">> \in Seq(Rule)
        /\ <<"old">> \in Seq(Rule) /\ <<"old", "return">> \in Seq(Rule)
    BY DEF Rule
  <2>2. /\ Len(<<>>) <= 2 /\ Len(<<"dnat">>) <= 2 /\ Len(<<"dnat", "return">>) <= 2
        /\ Len(<<"old">>) <= 2 /\ Len(<<"old", "return">>) <= 2
    OBVIOUS
  <2>. QED BY Zenon, <2>1, <2>2, ChainsAreLists, IPTablesAssumption DEF IPTablesAssumption
<1>2. /\ MaxEdits \in Nat /\ MaxFaults \in Nat /\ MaxStops \in Nat
  BY Zenon, IPTablesAssumption DEF IPTablesAssumption
<1>3. jumps \in 0..MaxJumps /\ edits \in 0..MaxEdits /\ faults \in 0..MaxFaults /\ stops \in 0..MaxStops
  BY <1>2 DEF Init, MaxJumps
<1>4. TypeOK
  BY Zenon, <1>1, <1>3 DEF Init, TypeOK
<1>5. chain = None => jumps = 0
  BY Zenon DEF Init
<1>6. jumps <= faults + 1 /\ pc = "down"
  BY DEF Init
<1>. QED BY Zenon, <1>4, <1>5, <1>6 DEF Bounded

\* Every step keeps the state well-formed.
LEMMA StepBounded == Bounded /\ [Next]_vars => Bounded'
<1>. SUFFICES ASSUME Bounded, [Next]_vars PROVE Bounded'
  BY Zenon
<1>. USE DEF Bounded, TypeOK, others, Goto, Fault, Fatal, Exit, MaxJumps
<1>0. /\ MaxEdits \in Nat /\ MaxFaults \in Nat /\ MaxStops \in Nat
      /\ None \notin Chains
  BY Zenon, IPTablesAssumption DEF IPTablesAssumption
<1>a. <<>> \in Chains /\ Len(<<>>) = 0
  <2>1. <<>> \in Seq(Rule) /\ Len(<<>>) = 0 /\ 0 <= 2
    OBVIOUS
  <2>2. <<>> \in Chains
    BY Zenon, <2>1, ChainsAreLists
  <2>. QED BY Zenon, <2>1, <2>2
<1>b. direct' \in BOOLEAN /\ Initialized' \in BOOLEAN /\ sigterm' \in BOOLEAN
  <2>1. CASE Start \/ Crash \/ Terminate \/ Edit \/ UNCHANGED vars
    BY Zenon, <2>1 DEF Start, Crash, Terminate, Edit, vars
  <2>2. CASE Connect
    BY Zenon, <2>2, Zenon DEF Connect
  <2>3. CASE List \/ NewChain \/ ClearChain \/ AppendUnique("dnat", "return") \/ AppendUnique("return", "exists")
    BY Zenon, <2>3 DEF List, NewChain, ClearChain, AppendUnique
  <2>4. CASE Exists \/ Insert \/ Tick \/ Signal \/ Referenced
    BY Zenon, <2>4 DEF Exists, Insert, Tick, Signal, Referenced
  <2>5. CASE LogCustomChain
    BY Zenon, <2>5, Zenon DEF LogCustomChain
  <2>6. CASE deleteConntrackEntries \/ Delete \/ Flush \/ DeleteChain
    BY Zenon, <2>6 DEF deleteConntrackEntries, Delete, Flush, DeleteChain
  <2>. QED BY Zenon, <2>1, <2>2, <2>3, <2>4, <2>5, <2>6 DEF Next, Step
<1>1. CASE Start \/ Crash \/ Terminate \/ Connect
  <2>1. stops' \in 0..MaxStops
    <3>1. stops \in 0..MaxStops /\ (stops' = stops \/ (stops < MaxStops /\ stops' = stops + 1))
      BY Zenon, <1>1 DEF Start, Crash, Terminate, Connect
    <3>. QED BY <1>0, <3>1
  <2>2. pc' \in {pc, "list", "down"} /\ rules' \in {rules, None}
    BY Zenon, <1>1 DEF Start, Crash, Terminate, Connect
  <2>3. UNCHANGED <<chain, jumps, exitCode, edits, faults>>
    BY Zenon, <1>1 DEF Start, Crash, Terminate, Connect
  <2>. QED BY Zenon, <1>b, <2>1, <2>2, <2>3
<1>2. CASE Edit
  <2>1. chain # None => chain \in Seq(Rule) /\ Len(chain) \in Nat
    BY ChainsAreLists
  <2>2. /\ chain' \in Chains \cup {None} /\ (chain' = None => chain = None \/ jumps = 0)
        /\ chain' # None => chain # None /\ Len(chain') \in Nat /\ Len(chain') <= Len(chain)
    <3>1. ASSUME NEW k \in 1..Len(chain), chain # None, chain' = Without(chain, k)
          PROVE  chain' \in Chains /\ Len(chain') < Len(chain) /\ Len(chain') \in Nat
      BY <3>1, WithoutShorter, ChainsAreLists
    <3>2. CASE chain # None /\ \E k \in 1..Len(chain) : chain' = Without(chain, k)
      BY <1>0, <2>1, <3>1, <3>2
    <3>3. CASE chain # None /\ chain' = <<>>
      BY <1>0, <1>b, <1>a, <2>1, <3>3
    <3>4. CASE chain' = None /\ jumps = 0
      BY Zenon, <3>4
    <3>5. CASE UNCHANGED chain
      BY <2>1, <3>5
    <3>. QED BY Zenon, <1>2, <3>2, <3>3, <3>4, <3>5 DEF Edit
  <2>3. edits' \in 0..MaxEdits /\ UNCHANGED <<pc, rules, direct, Initialized, sigterm, exitCode, faults, stops>>
    BY <1>0, <1>b, <1>2 DEF Edit
  <2>4. jumps' = jumps \/ jumps' = 0
    BY Zenon, <1>2 DEF Edit
  <2>. QED BY <1>0, <2>1, <2>2, <2>3, <2>4
<1>3. CASE List
  <2>1. pc' \in {"exists", "clear", "new"}
    BY Zenon, <1>3 DEF List, AfterList
  <2>. QED BY <1>0, <1>b, <1>3, <2>1 DEF List
<1>4. CASE NewChain
  <2>1. pc' \in {"exists", "clear", "down"}
    BY Zenon, <1>4 DEF NewChain, AfterList
  <2>. QED BY <1>0, <1>b, <1>a, <1>4, <2>1 DEF NewChain
<1>5. CASE ClearChain
  BY <1>0, <1>b, <1>a, <1>5 DEF ClearChain
<1>6. ASSUME NEW rule \in {"dnat", "return"}, NEW next \in {"return", "exists"},
             rule = "return" => next = "exists", AppendUnique(rule, next)
      PROVE  Bounded'
  <2>1. CASE /\ chain # None /\ Goto(next)
             /\ chain' = IF \E k \in 1..Len(chain) : chain[k] = rule THEN chain ELSE Append(chain, rule)
    <3>1. chain \in Seq(Rule) /\ Len(chain) \in Nat /\ Len(chain) <= 1 /\ (rule = "dnat" => Len(chain) = 0)
      BY <1>6, <2>1, ChainsAreLists DEF AppendUnique
    <3>2. chain' \in Seq(Rule) /\ Len(chain') \in Nat /\ Len(chain') <= Len(chain) + 1
      BY <2>1, <3>1 DEF Rule
    <3>3. chain' \in Chains
      BY <3>1, <3>2, ChainsAreLists
    <3>4. chain' # None /\ pc = rule /\ pc' = next /\ UNCHANGED <<jumps, rules, exitCode, edits, faults, stops>>
      BY Zenon, <1>0, <1>6, <2>1, <3>3 DEF AppendUnique
    <3>5. next = "return" => Len(chain') <= 1
      BY <1>6, <3>1, <3>2
    <3>. QED BY Zenon, <1>b, <3>3, <3>4, <3>5
  <2>. QED BY <1>0, <1>b, <1>6, <2>1 DEF AppendUnique
<1>7. CASE Exists
  BY <1>0, <1>b, <1>7 DEF Exists
<1>8. CASE Insert
  BY <1>0, <1>b, <1>8 DEF Insert
<1>9. CASE LogCustomChain \/ deleteConntrackEntries \/ Tick \/ Signal
  BY <1>0, <1>b, <1>9 DEF LogCustomChain, deleteConntrackEntries, Tick, Signal
<1>10. CASE Referenced \/ Delete
  BY <1>0, <1>b, <1>10 DEF Referenced, Delete
<1>11. CASE Flush \/ DeleteChain
  BY <1>0, <1>b, <1>a, <1>11 DEF Flush, DeleteChain
<1>12. CASE UNCHANGED vars
  BY <1>12 DEF vars
<1>. QED BY Zenon, <1>1, <1>2, <1>3, <1>4, <1>5, <1>6, <1>7, <1>8, <1>9, <1>10, <1>11, <1>12 DEF Next, Step

-----------------------------------------------------------------------------
\* The rules, as long as nobody else edits the table.

Complete == <<"dnat", "return">>

\* Where NMI changes the chain, it is not complete; where NMI has looked at it, it is;
\* and an initialized NMI finds it complete every time, and no connection past it.
Careful ==
  edits = 0 =>
    /\ chain \in Left
    /\ pc = "new" => rules = None
    /\ pc = "clear" => chain # Complete
    /\ pc = "dnat" => chain = <<>>
    /\ pc = "return" => chain = <<"dnat">>
    /\ pc \in {"exists", "insert", "log", "conntrack", "wait"} => chain = Complete
    /\ pc \in {"log", "conntrack", "wait"} => jumps > 0
    /\ Initialized /\ pc \notin {"down", "flush", "remove"} =>
         /\ Installed /\ pc \notin {"clear", "dnat", "return", "conntrack"}
         /\ EnableConntrackDeletion => ~direct

\* ensureCustomChain clears the chain exactly if it does not match.
LEMMA AfterListCareful ==
  ASSUME NEW l \in Left
  PROVE  AfterList(l) = IF l = Complete THEN "exists" ELSE "clear"
<1>1. Complete # None
  BY IPTablesAssumption DEF IPTablesAssumption, Chains, Rule, Complete
<1>. QED BY Zenon, <1>1, CompleteMatches, OnlyCompleteMatches DEF AfterList, Complete

\* Complete rules send every request to NMI.
LEMMA InstalledRedirects == Installed => Redirected
<1>. SUFFICES ASSUME Installed PROVE Redirected
  BY Zenon
<1>1. chain # None
  BY IPTablesAssumption DEF IPTablesAssumption, Chains, Rule, Installed
<1>2. 1 \in 1..Len(chain) /\ chain[1] = "dnat" /\ \A j \in 1..(1 - 1) : chain[j] = "dnat"
  BY DEF Installed
<1>. QED BY Zenon, <1>1, <1>2 DEF Installed, Redirected

\* The lists of rules are different.
LEMMA Different ==
  /\ Complete # <<>> /\ Complete # <<"dnat">> /\ Complete # None /\ None \notin {<<>>, <<"dnat">>}
  /\ <<>> \in Left /\ <<"dnat">> \in Left /\ Complete \in Left /\ None \in Left
<1>1. Complete # <<>> /\ Complete # <<"dnat">>
  BY Zenon DEF Complete
<1>2. <<>> \in Seq(Rule) /\ <<"dnat">> \in Seq(Rule) /\ Complete \in Seq(Rule)
  BY DEF Rule, Complete
<1>3. Len(<<>>) <= 2 /\ Len(<<"dnat">>) <= 2 /\ Len(Complete) <= 2
  BY DEF Complete
<1>4. <<>> \in Chains /\ <<"dnat">> \in Chains /\ Complete \in Chains
  BY Zenon, <1>2, <1>3, ChainsAreLists
<1>5. Complete # None /\ None \notin {<<>>, <<"dnat">>}
  BY Zenon, <1>4, IPTablesAssumption DEF IPTablesAssumption
<1>6. <<>> \in Left /\ <<"dnat">> \in Left /\ Complete \in Left /\ None \in Left
  BY Zenon DEF Left, Complete
<1>. QED BY Zenon, <1>1, <1>5, <1>6

\* The second rule completes the chain.
LEMMA AppendReturn == Append(<<"dnat">>, "return") = <<"dnat", "return">>
<1> DEFINE s == Append(<<"dnat">>, "return")
           t == <<"dnat", "return">>
<1>1. <<"dnat">> \in Seq(Rule) /\ "return" \in Rule /\ t \in Seq(Rule)
  BY DEF Rule
<1>2. s \in Seq(Rule)
  BY <1>1
<1>3. Len(s) = 2 /\ s[1] = "dnat" /\ s[2] = "return"
  BY <1>1
<1>4. Len(t) = 2 /\ t[1] = "dnat" /\ t[2] = "return"
  BY Zenon
<1>5. \A i \in 1..Len(s) : s[i] = t[i]
  BY <1>3, <1>4
<1>. HIDE DEF s, t
<1>6. s = t
  BY Zenon, <1>1, <1>2, <1>3, <1>4, <1>5, SeqEqual
<1>. QED BY Zenon, <1>6 DEF s, t

\* The invariant holds before NMI first starts.
LEMMA InitCareful == Init => Careful
BY Zenon, IPTablesAssumption DEF Init, Careful, Left, IPTablesAssumption

\* Every step keeps it.
LEMMA StepCareful == Bounded /\ Careful /\ [Next]_vars => Careful'
<1>. SUFFICES ASSUME Bounded, Careful, [Next]_vars, edits' = 0 PROVE Careful'
  BY Zenon DEF Careful
<1>. USE Different DEF Careful, Installed, others, Goto, Fault, Fatal, Exit
<1>a. edits \in Nat /\ jumps \in Nat
  BY DEF Bounded, TypeOK
<1>0. ~Edit /\ edits = 0
  <2>1. ~Edit
    BY <1>a DEF Edit
  <2>. QED BY Zenon, <2>1 DEF Next, Step, vars, Start, Crash, Terminate, Connect, List, NewChain, ClearChain, AppendUnique,
                   Exists, Insert, LogCustomChain, deleteConntrackEntries, Tick, Signal, Referenced, Delete, Flush,
                   DeleteChain
<1>1. CASE Start \/ Crash \/ Terminate
  BY Zenon, <1>0, <1>1 DEF Start, Crash, Terminate
<1>2. CASE Connect
  BY Zenon, <1>0, <1>2, InstalledRedirects DEF Connect
<1>3. CASE List
  <2>1. CASE chain # None /\ Goto(AfterList(chain)) /\ rules' = chain
    <3>1. pc' = IF chain = Complete THEN "exists" ELSE "clear"
      BY Zenon, <1>0, <2>1, AfterListCareful
    <3>2. pc = "list" /\ UNCHANGED <<chain, jumps, direct, Initialized>>
      BY Zenon, <1>3 DEF List
    <3>3. Initialized => chain = Complete /\ pc' = "exists"
      BY Zenon, <1>0, <3>1, <3>2 DEF Complete
    <3>. QED BY Zenon, <1>0, <3>1, <3>2, <3>3 DEF Complete
  <2>2. CASE pc' = "new" /\ rules' = None
    BY Zenon, <1>0, <1>3, <2>2 DEF List
  <2>. QED BY Zenon, <1>3, <2>1, <2>2 DEF List
<1>4. CASE NewChain
  <2>1. CASE chain = None /\ chain' = <<>> /\ Goto(AfterList(rules))
    <3>1. pc = "new" /\ rules = None /\ UNCHANGED <<jumps, direct, Initialized>>
      BY Zenon, <1>0, <1>4 DEF NewChain
    <3>2. pc' = "clear" /\ ~Initialized
      BY Zenon, <1>0, <2>1, <3>1 DEF AfterList, Complete
    <3>. QED BY Zenon, <2>1, <3>1, <3>2
  <2>2. CASE pc' = "down" /\ UNCHANGED chain
    BY Zenon, <1>0, <2>2
  <2>. QED BY Zenon, <1>4, <2>1, <2>2 DEF NewChain
<1>5. CASE ClearChain
  BY Zenon, <1>0, <1>5 DEF ClearChain
<1>6. CASE AppendUnique("dnat", "return")
  <2>1. chain = <<>>
    BY Zenon, <1>0, <1>6 DEF AppendUnique
  <2>2. CASE /\ chain # None /\ Goto("return")
             /\ chain' = IF \E k \in 1..Len(chain) : chain[k] = "dnat" THEN chain ELSE Append(chain, "dnat")
    <3>1. chain' = <<"dnat">>
      BY <2>1, <2>2
    <3>. QED BY Zenon, <1>0, <1>6, <2>2, <3>1 DEF AppendUnique
  <2>. QED BY Zenon, <1>0, <1>6, <2>2 DEF AppendUnique
<1>7. CASE AppendUnique("return", "exists")
  <2>1. chain = <<"dnat">>
    BY Zenon, <1>0, <1>7 DEF AppendUnique
  <2>2. CASE /\ chain # None /\ Goto("exists")
             /\ chain' = IF \E k \in 1..Len(chain) : chain[k] = "return" THEN chain ELSE Append(chain, "return")
    <3>1. Len(<<"dnat">>) = 1 /\ <<"dnat">>[1] = "dnat" /\ Append(<<"dnat">>, "return") = Complete
      BY Zenon, AppendReturn DEF Complete
    <3>2. ~\E k \in 1..Len(chain) : chain[k] = "return"
      BY <2>1, <3>1
    <3>3. chain' = Complete
      BY Zenon, <2>1, <2>2, <3>1, <3>2
    <3>. QED BY Zenon, <1>0, <1>7, <2>2, <3>3 DEF AppendUnique
  <2>. QED BY Zenon, <1>0, <1>7, <2>2 DEF AppendUnique
<1>8. CASE Exists \/ Insert
  BY <1>0, <1>a, <1>8 DEF Exists, Insert
<1>9. CASE LogCustomChain
  BY Zenon, <1>0, <1>9 DEF LogCustomChain, Complete
<1>10. CASE deleteConntrackEntries
  BY Zenon, <1>0, <1>10 DEF deleteConntrackEntries, Complete
<1>11. CASE Tick \/ Signal
  BY Zenon, <1>0, <1>11 DEF Tick, Signal
<1>12. CASE Referenced \/ Delete \/ Flush \/ DeleteChain
  BY Zenon, <1>0, <1>12 DEF Referenced, Delete, Flush, DeleteChain
<1>13. CASE UNCHANGED vars
  BY Zenon, <1>0, <1>13 DEF vars
<1>. QED BY Zenon, <1>0, <1>1, <1>2, <1>3, <1>4, <1>5, <1>6, <1>7, <1>8, <1>9, <1>10, <1>11, <1>12, <1>13 DEF Next, Step

\* Rules that are complete stay so through a step of anyone but the termination.
LEMMA StepNoGap ==
  ASSUME Bounded, Careful, [Next]_vars, edits' = 0, Installed,
         pc \notin {"referenced", "delete", "flush", "remove"}
  PROVE  Installed'
<1> USE DEF Installed, others, Goto, Fault, Fatal, Exit
<1>0. edits = 0 \/ Edit
  BY Zenon DEF Next, Step, vars, Start, Crash, Terminate, Connect, deleteConntrackEntries, List, NewChain, ClearChain, AppendUnique, Exists, Insert,
         LogCustomChain, Tick, Signal, Referenced, Delete, Flush, DeleteChain
<1>1. ~Edit
  BY DEF Edit, Bounded, TypeOK
<1>2. pc # "clear" /\ pc # "dnat" /\ pc # "return"
  <2>1. <<"dnat", "return">> # <<>> /\ <<"dnat", "return">> # <<"dnat">>
    BY Zenon
  <2> QED
    BY Zenon, <1>0, <1>1, <2>1 DEF Careful, Complete
<1>3. chain # None
  BY IPTablesAssumption DEF IPTablesAssumption, Chains, Rule
<1>4. CASE Start \/ Crash \/ Terminate \/ Connect \/ UNCHANGED vars
  BY Zenon, <1>4 DEF Start, Crash, Terminate, Connect, vars
<1>5. CASE List \/ NewChain \/ Exists \/ LogCustomChain \/ deleteConntrackEntries \/ Tick \/ Signal
  BY Zenon, <1>5, <1>3 DEF List, NewChain, Exists, LogCustomChain, deleteConntrackEntries, Tick, Signal
<1>6. CASE Insert
  BY <1>6 DEF Insert, Bounded, TypeOK
<1>7. ~ClearChain /\ ~AppendUnique("dnat", "return") /\ ~AppendUnique("return", "exists")
  BY Zenon, <1>2 DEF ClearChain, AppendUnique
<1>8. ~Referenced /\ ~Delete /\ ~Flush /\ ~DeleteChain
  BY Zenon DEF Referenced, Delete, Flush, DeleteChain
<1> QED
  BY Zenon, <1>1, <1>4, <1>5, <1>6, <1>7, <1>8 DEF Next, Step

\* The state stays well-formed: at most one jump more than commands have failed, and
\* never more than two rules.
THEOREM IPTablesTypeCorrect == Spec => []TypeOK
<1>1. Bounded => TypeOK
  BY Zenon DEF Bounded
<1>. QED BY InitBounded, StepBounded, <1>1, PTL DEF Spec

\* Once NMI is initialized, with the connections deleted, none goes past it until it
\* takes its rules off, for any number of failed commands, crashes and restarts.
THEOREM NothingBypasses == Spec => []NoBypass
<1>1. Careful => NoBypass
  BY Zenon DEF Careful, NoBypass
<1>. QED BY InitBounded, StepBounded, InitCareful, StepCareful, <1>1, PTL DEF Spec

\* AddCustomChain at every tick, failing commands, crashes and restarts never interrupt
\* rules that are complete, if nobody else edits the table.
THEOREM RedirectionKept == Spec => NoGap
<1>1. Bounded /\ Careful /\ [Next]_vars =>
        [edits' = 0 /\ Installed /\ pc \notin {"referenced", "delete", "flush", "remove"} => Installed']_vars
  BY Zenon, StepNoGap
<1> QED
  BY InitBounded, StepBounded, InitCareful, StepCareful, <1>1, PTL DEF Spec, NoGap

-----------------------------------------------------------------------------
\* The clean-up, as long as no command fails and nobody else edits the table.  That
\* there is one jump at most is in Bounded.

\* Where NMI takes its rules off, there is exactly one jump, and then none, and the
\* chain is there to be deleted.
Tidy ==
  faults = 0 /\ edits = 0 =>
    /\ pc = "delete" => jumps = 1
    /\ pc \in {"flush", "remove"} => jumps = 0
    /\ pc = "remove" => chain # None
    /\ exitCode # 1

\* Every step keeps it.
LEMMA StepTidy == Bounded /\ Tidy /\ [Next]_vars => Tidy'
<1>. SUFFICES ASSUME Bounded, Tidy, [Next]_vars, faults' = 0, edits' = 0 PROVE Tidy'
  BY Zenon DEF Tidy
<1>. USE DEF Tidy, others, Goto, Fault, Fatal, Exit
<1>0. jumps \in Nat /\ faults \in Nat /\ edits \in Nat /\ jumps <= faults + 1 /\ (chain = None => jumps = 0)
  BY DEF Bounded, TypeOK
<1>1. ~Edit /\ edits = 0
  <2>1. ~Edit
    BY <1>0 DEF Edit
  <2>. QED BY Zenon, <2>1 DEF Next, Step, vars, Start, Crash, Terminate, Connect, List, NewChain, ClearChain, AppendUnique,
                   Exists, Insert, LogCustomChain, deleteConntrackEntries, Tick, Signal, Referenced, Delete, Flush,
                   DeleteChain
<1>2. faults = 0 /\ ~(faults < MaxFaults /\ faults' = faults + 1)
  <2>1. ~(faults < MaxFaults /\ faults' = faults + 1)
    BY <1>0
  <2>. QED BY Zenon, <1>1, <2>1 DEF Next, Step, vars, Start, Crash, Terminate, Connect, List, NewChain, ClearChain, AppendUnique,
                   Exists, Insert, LogCustomChain, deleteConntrackEntries, Tick, Signal, Referenced, Delete, Flush,
                   DeleteChain
<1>3. CASE Start \/ Crash \/ Terminate \/ Connect \/ UNCHANGED vars
  BY Zenon, <1>1, <1>2, <1>3 DEF Start, Crash, Terminate, Connect, vars
<1>4. CASE List \/ NewChain
  BY Zenon, <1>1, <1>2, <1>4 DEF List, NewChain, AfterList
<1>5. CASE ClearChain \/ AppendUnique("dnat", "return") \/ AppendUnique("return", "exists") \/ Exists \/ Insert
  BY Zenon, <1>1, <1>2, <1>5 DEF ClearChain, AppendUnique, Exists, Insert
<1>6. CASE LogCustomChain \/ deleteConntrackEntries \/ Tick \/ Signal
  BY Zenon, <1>1, <1>2, <1>6 DEF LogCustomChain, deleteConntrackEntries, Tick, Signal
<1>7. CASE Referenced
  <2>1. (pc' = "delete" /\ jumps > 0) \/ (pc' = "flush" /\ jumps = 0)
    BY <1>0, <1>2, <1>7 DEF Referenced
  <2>2. jumps > 0 => jumps = 1
    BY <1>0, <1>2
  <2>. QED BY Zenon, <1>1, <1>2, <1>7, <2>1, <2>2 DEF Referenced
<1>8. CASE Delete
  <2>1. pc = "delete" /\ jumps = 1
    BY Zenon, <1>1, <1>2, <1>8 DEF Delete
  <2>2. pc' = "flush" /\ jumps' = 0 /\ UNCHANGED exitCode
    BY <1>2, <1>8, <2>1 DEF Delete
  <2>. QED BY Zenon, <1>1, <1>2, <2>2
<1>9. CASE Flush
  <2>1. <<>> # None
    BY Different
  <2>. QED BY Zenon, <1>1, <1>2, <1>9, <2>1 DEF Flush
<1>10. CASE DeleteChain
  <2>1. pc = "remove" /\ jumps = 0 /\ chain # None
    BY Zenon, <1>1, <1>2, <1>10 DEF DeleteChain
  <2>2. pc' = "down" /\ exitCode' = 0
    BY <1>2, <1>10, <2>1 DEF DeleteChain
  <2>. QED BY <2>2
<1>. QED BY Zenon, <1>1, <1>3, <1>4, <1>5, <1>6, <1>7, <1>8, <1>9, <1>10 DEF Next, Step

\* An NMI that is stopped cleans up and exits with code 0, over any number of ticks,
\* crashes and restarts, as long as no command fails and nobody else edits the table.
THEOREM ExitIsOrderly == Spec => []OrderlyExit
<1>1. Init => Tidy
  BY IPTablesAssumption DEF Init, Tidy, IPTablesAssumption
<1>2. Tidy => OrderlyExit
  BY Zenon DEF Tidy, OrderlyExit
<1>. QED BY InitBounded, StepBounded, StepTidy, <1>1, <1>2, PTL DEF Spec
=============================================================================
