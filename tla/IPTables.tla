------------------------------ MODULE IPTables ------------------------------
(***************************************************************************)
(* The NAT rules that send the pods' requests for the metadata endpoint to *)
(* NMI: AddCustomChain, which NMI runs when it starts and at every tick,   *)
(* and DeleteCustomChain, which it runs on SIGTERM.  Rules apply to new    *)
(* connections only; NMI can delete the others once, when it starts.       *)
(*                                                                         *)
(* Every iptables command is a step, and any of them may fail; NMI may die *)
(* between two of them, and others may delete rules.  The rules of chain   *)
(* aad-metadata are "dnat" (to this NMI), "return" and "old" (to another   *)
(* target); of PREROUTING only the jumps to the chain are kept.            *)
(***************************************************************************)
EXTENDS Naturals, Sequences

CONSTANTS
  InitChain,  \* the chain that an earlier NMI has left, or None
  EnableConntrackDeletion,
  MaxEdits, MaxFaults, MaxStops,  \* how often others edit, commands fail, NMI dies or is stopped
  None

Rule == {"dnat", "return", "old"}
Chains == UNION {[1..k -> Rule] : k \in 0..2}
MaxJumps == MaxFaults + 2

ASSUME IPTablesAssumption ==
  /\ InitChain \in {None, <<>>, <<"dnat">>, <<"dnat", "return">>, <<"old">>, <<"old", "return">>}
  /\ EnableConntrackDeletion \in BOOLEAN
  /\ None \notin Chains /\ None # 1
  /\ {MaxEdits, MaxFaults, MaxStops} \subseteq Nat

VARIABLES
  chain,     \* the rules of aad-metadata, or None without the chain
  jumps,     \* the number of "-j aad-metadata" in PREROUTING
  pc,        \* the next command of NMI
  rules,     \* what ensureCustomChain has listed
  direct,    \* a pod has a connection past NMI
  Initialized,
  sigterm,   \* SIGTERM is in signalChan
  exitCode,  \* of the last NMI that was stopped, or None
  edits, faults, stops

vars == <<chain, jumps, pc, rules, direct, Initialized, sigterm, exitCode, edits, faults, stops>>

TypeOK ==
  /\ chain \in Chains \cup {None} /\ jumps \in 0..MaxJumps
  /\ pc \in {"down", "list", "new", "clear", "dnat", "return", "exists", "insert", "log", "conntrack", "wait",
             "referenced", "delete", "flush", "remove"}
  /\ rules \in Chains \cup {None}
  /\ direct \in BOOLEAN /\ Initialized \in BOOLEAN
  /\ sigterm \in BOOLEAN /\ exitCode \in {0, 1, None}
  /\ edits \in 0..MaxEdits /\ faults \in 0..MaxFaults /\ stops \in 0..MaxStops

Init ==
  /\ chain = InitChain /\ jumps = IF InitChain = None THEN 0 ELSE 1
  /\ pc = "down" /\ rules = None /\ sigterm = FALSE /\ exitCode = None
  /\ direct = FALSE /\ Initialized = FALSE
  /\ edits = 0 /\ faults = 0 /\ stops = 0

-----------------------------------------------------------------------------
\* External: the kubelet, and whoever else edits the table.

Start ==
  /\ pc = "down"
  /\ pc' = "list" /\ rules' = None /\ sigterm' = FALSE /\ Initialized' = FALSE
  /\ UNCHANGED <<chain, jumps, direct, exitCode, edits, faults, stops>>

Crash ==
  /\ pc # "down" /\ stops < MaxStops
  /\ pc' = "down" /\ stops' = stops + 1
  /\ UNCHANGED <<chain, jumps, rules, direct, Initialized, sigterm, exitCode, edits, faults>>

Terminate ==
  /\ pc # "down" /\ ~sigterm /\ stops < MaxStops
  /\ sigterm' = TRUE /\ stops' = stops + 1
  /\ UNCHANGED <<chain, jumps, pc, rules, direct, Initialized, exitCode, edits, faults>>

Without(c, k) == SubSeq(c, 1, k - 1) \o SubSeq(c, k + 1, Len(c))

\* A rule is deleted, the chain is flushed or deleted, or the jumps go.
Edit ==
  /\ edits < MaxEdits /\ edits' = edits + 1
  /\ \/ /\ chain # None /\ UNCHANGED jumps
        /\ \/ \E k \in 1..Len(chain) : chain' = Without(chain, k)
           \/ chain' = <<>>
           \/ jumps = 0 /\ chain' = None
     \/ jumps' = 0 /\ UNCHANGED chain
  /\ UNCHANGED <<pc, rules, direct, Initialized, sigterm, exitCode, faults, stops>>

\* A request of a pod reaches this NMI.
Redirected ==
  /\ jumps > 0 /\ chain # None
  /\ \E k \in 1..Len(chain) : chain[k] = "dnat" /\ \A j \in 1..(k - 1) : chain[j] = "dnat"

\* A pod opens a connection to the metadata endpoint and keeps it, or closes it.
Connect ==
  /\ direct' \in {direct \/ ~Redirected, FALSE}
  /\ UNCHANGED <<chain, jumps, pc, rules, Initialized, sigterm, exitCode, edits, faults, stops>>

-----------------------------------------------------------------------------
\* The commands.

Goto(l) == pc' = l /\ UNCHANGED faults
Fault(l) == pc' = l /\ faults < MaxFaults /\ faults' = faults + 1

\* An error of AddCustomChain or LogCustomChain ends NMI (klog.Fatalf).
Fatal == "down"

\* handleTermination.
Exit(code) == exitCode' = code /\ sigterm' = FALSE

others == <<direct, Initialized, edits, stops>>

\* Mutant: the rules are set up anew at every tick.
MatchesNever(list) == FALSE

\* Mutant: only the number of rules is looked at.
MatchesLength(list) == Len(list) + 1 = 3

\* matchingRules = len(expectedRules): the header and the rules before the first
\* unexpected one are three.
Matches(list) ==
  \E k \in 0..Len(list) : /\ \A j \in 1..k : list[j] \in {"dnat", "return"}
                          /\ k < Len(list) => list[k + 1] \notin {"dnat", "return"}
                          /\ k + 1 = 3

AfterList(list) == IF list # None /\ Matches(list) THEN "exists" ELSE "clear"

\* An error is taken to mean that there is no chain.
List ==
  /\ pc = "list"
  /\ \/ chain # None /\ Goto(AfterList(chain)) /\ rules' = chain
     \/ chain = None /\ Goto("new") /\ rules' = None
     \/ Fault("new") /\ rules' = None
  /\ UNCHANGED <<chain, jumps, sigterm, exitCode, others>>

NewChain ==
  /\ pc = "new"
  /\ \/ chain = None /\ chain' = <<>> /\ Goto(AfterList(rules))
     \/ chain # None /\ Goto(Fatal) /\ UNCHANGED chain
     \/ Fault(Fatal) /\ UNCHANGED chain
  /\ UNCHANGED <<jumps, rules, sigterm, exitCode, others>>

\* ClearChain makes the chain if it is not there.
ClearChain ==
  /\ pc = "clear"
  /\ \/ chain' = <<>> /\ Goto("dnat")
     \/ Fault(Fatal) /\ UNCHANGED chain
  /\ UNCHANGED <<jumps, rules, sigterm, exitCode, others>>

\* AppendUnique: nothing is appended to a chain that has the rule.
AppendUnique(rule, next) ==
  /\ pc = rule
  /\ \/ /\ chain # None /\ Goto(next)
        /\ chain' = IF \E k \in 1..Len(chain) : chain[k] = rule THEN chain ELSE Append(chain, rule)
     \/ chain = None /\ Goto(Fatal) /\ UNCHANGED chain
     \/ Fault(Fatal) /\ UNCHANGED chain
  /\ UNCHANGED <<jumps, rules, sigterm, exitCode, others>>

\* Mutant: the jump is inserted without a look.
ExistsNever ==
  /\ pc = "exists" /\ Goto("insert")
  /\ UNCHANGED <<chain, jumps, rules, sigterm, exitCode, others>>

\* placeCustomChainInChain: an error of Exists counts as no.
Exists ==
  /\ pc = "exists"
  /\ \/ Goto(IF jumps > 0 /\ chain # None THEN "log" ELSE "insert")
     \/ Fault("insert")
  /\ UNCHANGED <<chain, jumps, rules, sigterm, exitCode, others>>

Insert ==
  /\ pc = "insert"
  /\ \/ chain # None /\ jumps' = jumps + 1 /\ Goto("log")
     \/ chain = None /\ Goto(Fatal) /\ UNCHANGED jumps
     \/ Fault(Fatal) /\ UNCHANGED jumps
  /\ UNCHANGED <<chain, rules, sigterm, exitCode, others>>

\* Once it has run for the first time, updateIPTableRules goes on to the connections.
LogCustomChain ==
  /\ pc = "log"
  /\ \/ /\ chain # None /\ Goto(IF EnableConntrackDeletion /\ ~Initialized THEN "conntrack" ELSE "wait")
        /\ Initialized' = (Initialized \/ ~EnableConntrackDeletion)
     \/ chain = None /\ Goto(Fatal) /\ UNCHANGED Initialized
     \/ Fault(Fatal) /\ UNCHANGED Initialized
  /\ UNCHANGED <<chain, jumps, rules, direct, sigterm, exitCode, edits, stops>>

\* Mutant: an error is only logged.
DeleteConntrackLogged ==
  /\ pc = "conntrack"
  /\ \/ Goto("wait") /\ direct' = FALSE
     \/ Fault("wait") /\ UNCHANGED direct
  /\ Initialized' = TRUE
  /\ UNCHANGED <<chain, jumps, rules, sigterm, exitCode, edits, stops>>

\* Every connection to the metadata endpoint is deleted; an error ends NMI.
deleteConntrackEntries ==
  /\ pc = "conntrack"
  /\ \/ Goto("wait") /\ direct' = FALSE /\ Initialized' = TRUE
     \/ Fault(Fatal) /\ UNCHANGED <<direct, Initialized>>
  /\ UNCHANGED <<chain, jumps, rules, sigterm, exitCode, edits, stops>>

\* The loop of updateIPTableRules: a tick or, if there is one, the signal.
Tick ==
  /\ pc = "wait" /\ Goto("list")
  /\ UNCHANGED <<chain, jumps, rules, sigterm, exitCode, others>>

Signal ==
  /\ pc = "wait" /\ sigterm /\ Goto("referenced")
  /\ UNCHANGED <<chain, jumps, rules, sigterm, exitCode, others>>

-----------------------------------------------------------------------------
\* DeleteCustomChain.  An error of Exists counts as no.

Referenced ==
  /\ pc = "referenced"
  /\ \/ Goto(IF jumps > 0 /\ chain # None THEN "delete" ELSE "flush")
     \/ Fault("flush")
  /\ UNCHANGED <<chain, jumps, rules, sigterm, exitCode, others>>

Delete ==
  /\ pc = "delete"
  /\ \/ jumps > 0 /\ jumps' = jumps - 1 /\ Goto("flush") /\ UNCHANGED <<sigterm, exitCode>>
     \/ jumps = 0 /\ UNCHANGED jumps /\ Goto("down") /\ Exit(1)
     \/ Fault("down") /\ UNCHANGED jumps /\ Exit(1)
  /\ UNCHANGED <<chain, rules, others>>

Flush ==
  /\ pc = "flush"
  /\ \/ chain' = <<>> /\ Goto("remove") /\ UNCHANGED <<sigterm, exitCode>>
     \/ Fault("down") /\ UNCHANGED chain /\ Exit(1)
  /\ UNCHANGED <<jumps, rules, others>>

\* A chain that is referenced cannot be deleted.
DeleteChain ==
  /\ pc = "remove"
  /\ \/ chain # None /\ jumps = 0 /\ chain' = None /\ Goto("down") /\ Exit(0)
     \/ (chain = None \/ jumps > 0) /\ UNCHANGED chain /\ Goto("down") /\ Exit(1)
     \/ Fault("down") /\ UNCHANGED chain /\ Exit(1)
  /\ UNCHANGED <<jumps, rules, others>>

Step ==
  \/ List \/ NewChain \/ ClearChain \/ AppendUnique("dnat", "return") \/ AppendUnique("return", "exists")
  \/ Exists \/ Insert \/ LogCustomChain \/ deleteConntrackEntries \/ Tick \/ Signal
  \/ Referenced \/ Delete \/ Flush \/ DeleteChain

Next == Start \/ Crash \/ Terminate \/ Edit \/ Connect \/ Step

Spec == Init /\ [][Next]_vars

\* The kubelet restarts NMI, commands return, the ticker fires.
FairSpec == Spec /\ WF_vars(Start) /\ WF_vars(Step)

-----------------------------------------------------------------------------
\* The properties.

\* Once others leave the table alone and NMI is no longer stopped, the requests of
\* pods reach NMI for ever: whatever state the edits, failed commands, crashes and
\* restarts have left the table in, the next ticks repair it.
Repaired == <>[]Redirected

\* The rules are complete.
Installed == jumps > 0 /\ chain = <<"dnat", "return">>

\* If nobody else edits the table, rules that are complete are never interrupted, also
\* not when commands fail, and when NMI dies and starts again: only termination ends
\* the redirection.
NoGap == [][edits' = 0 /\ Installed /\ pc \notin {"referenced", "delete", "flush", "remove"} => Installed']_vars

\* If nobody else edits the table, and connections are deleted, then an NMI that has
\* initialized sees every request until it takes its rules off: no connection from
\* before the rules is left, whatever has failed at an earlier start.
NoBypass ==
  EnableConntrackDeletion /\ Initialized /\ edits = 0 /\ pc \notin {"down", "flush", "remove"} => ~direct

\* As long as no command fails and nobody else edits the table, an NMI that is stopped
\* cleans up and exits with code 0.  DeleteCustomChain deletes one jump and cannot
\* delete a chain that has another: AddCustomChain must not have piled them up, however
\* often it has run and wherever an earlier NMI has died in it, or in its clean-up.
OrderlyExit == faults = 0 /\ edits = 0 => exitCode # 1
=============================================================================
