------------------------------- MODULE Grading -------------------------------
(***************************************************************************)
(* A lab's network from the start of an attempt to its grade: the faults   *)
(* that apply_faults (services/fault_injection.py) puts into the authored  *)
(* network, the learner's repairs, and LabGrader (services/grading.py),    *)
(* which answers each traffic rule by a simulation of Forwarding and each  *)
(* configuration rule by looking.                                          *)
(*                                                                         *)
(* What surrounds it, saving the work and recording the score, is the      *)
(* subject of LabWorkspace.  VLAN and host name rules and the VLAN fault   *)
(* are left out with the VLANs and the names.                              *)
(***************************************************************************)
EXTENDS Forwarding

CONSTANTS
  Authored,     \* the networks that labs are written with
  Faults,       \* the faults a lab may list, in records as ApplyOne reads them
  MaxFaults,    \* bound: on the length of the list
  Missing,      \* a device that is not in the topology (any more)
  Rules         \* a lab's grading rules, in order

ASSUME LabsAssumption ==
  Authored \subseteq Documents /\ MaxFaults \in Nat /\ Missing \notin Devices

Named == Devices \cup {Missing}     \* what a fault or a rule may name

FaultKinds == {"shutdown_interface", "wrong_address", "wrong_gateway",
               "remove_static_route", "disable_link", "wrong_cable"}
ASSUME FaultsAssumption ==
  \A f \in Faults :
    /\ f \in [kind : FaultKinds, device : Named, port : Ports,
              address : AnyAddress, network : Subnets]
    /\ f.kind = "wrong_address" => Addressed(f.address, f.network)
ASSUME RulesAssumption ==
  Rules \in Seq([type : STRING, source : Named, to : Named \cup Ports \cup Addresses,
                 address : AnyAddress, network : Subnets, objective : Nat])

VARIABLES
  lab,       \* the lab: its document and its list of faults
  attempt,   \* "none", "open", or "grading"
  verdicts   \* of the rules graded so far

grading == <<lab, attempt, verdicts>>

\* What is not a lab's is a topology of the learner's own.
FaultLists(d) == IF d \in Authored THEN UNION {[1..n -> Faults] : n \in 0..MaxFaults}
                                  ELSE {<<>>}

GradingTypeOK ==
  /\ TypeOK
  /\ lab.document \in Documents /\ lab.faults \in FaultLists(lab.document)
  /\ attempt \in {"none", "open", "grading"}
  /\ verdicts \in Seq(BOOLEAN)
  /\ Len(verdicts) <= Len(Rules)

-----------------------------------------------------------------------------
(* apply_faults *)

\* The routes left, in their order; no network means every route.
Without(routes, n) ==
  LET kept[i \in 0..Len(routes)] ==
        IF i = 0 THEN <<>>
        ELSE IF n \in {{}, routes[i].network} THEN kept[i - 1]
        ELSE Append(kept[i - 1], routes[i])
  IN  kept[Len(routes)]

Shutdown(d, p)          == [d EXCEPT !.up = @ \ {p}]
Readdressed(d, p, a, n) == [d EXCEPT !.ip[p] = a, !.net[p] = n]
Rerouted(d, r, a)       == [d EXCEPT !.gateway[r] = a]
Unrouted(d, r, n)       == [d EXCEPT !.routes[r] = Without(@, n)]
Unplugged(d, ports)     == [d EXCEPT !.cabled = @ \ ports]

\* A fault whose device is no longer there is skipped.
ApplyOne(d, fault) ==
  IF fault.device \notin Devices THEN d
  ELSE CASE fault.kind = "shutdown_interface" -> Shutdown(d, fault.port)
         [] fault.kind = "wrong_address" ->
              Readdressed(d, fault.port, fault.address, fault.network)
         [] fault.kind = "wrong_gateway" -> Rerouted(d, fault.device, fault.address)
         [] fault.kind = "remove_static_route" -> Unrouted(d, fault.device, fault.network)
         [] fault.kind \in {"disable_link", "wrong_cable"} ->
              Unplugged(d, {p \in Ports : Lan[p] = Lan[fault.port]})

ApplyFaults(d, faults) ==
  LET broken[i \in 0..Len(faults)] ==
        IF i = 0 THEN d ELSE ApplyOne(broken[i - 1], faults[i])
  IN  broken[Len(faults)]

StartOnTheOriginal ==     \* mutant: the copy is not deep, the lab is broken with it
  /\ attempt = "none" /\ leg = "idle" /\ lab.document \in Authored
  /\ attempt' = "open"
  /\ doc' = ApplyFaults(lab.document, lab.faults)
  /\ lab' = [lab EXCEPT !.document = doc']
  /\ UNCHANGED <<verdicts, table, call, leg, packet, cache, answer>>

StartAttempt ==
  /\ attempt = "none" /\ leg = "idle" /\ lab.document \in Authored
  /\ attempt' = "open"
  /\ doc' = ApplyFaults(lab.document, lab.faults)
  /\ UNCHANGED <<lab, verdicts, table, call, leg, packet, cache, answer>>

\* The learner looks for what is wrong and puts one thing right, as it was in
\* the network the author drew: by no shutdown, in a form, with a new cable.  A
\* static route is added behind those that are there.
Mended(d, p) ==
  LET h == DeviceOf[p]
  IN  {[d EXCEPT !.up = @ \cup {p}],
       Readdressed(d, p, lab.document.ip[p], lab.document.net[p]),
       Rerouted(d, h, lab.document.gateway[h]),
       [d EXCEPT !.cabled = @ \cup {q \in Ports : Lan[q] = Lan[p]}]}
      \cup {[d EXCEPT !.routes[h] = Append(@, t)] :
              t \in ToSet(lab.document.routes[h]) \ ToSet(d.routes[h])}

Repair(p) ==
  /\ attempt = "open" /\ leg = "idle"
  /\ doc' \in Mended(doc, p) \ {doc}
  /\ UNCHANGED <<grading, table, call, leg, packet, cache, answer>>

-----------------------------------------------------------------------------
(* LabGrader *)

Begin ==
  /\ attempt = "open" /\ leg = "idle"
  /\ attempt' = "grading" /\ verdicts' = <<>>
  /\ Network
  /\ UNCHANGED <<lab, call, leg, packet, cache, answer>>

Rule    == Rules[Len(verdicts) + 1]
ToGrade == attempt = "grading" /\ Len(verdicts) < Len(Rules)
Traffic == {"ping", "no_ping", "port", "dns", "dhcp_lease"}

\* A fresh Simulator for each traffic rule, so that no ARP answer is left over
\* from the rule before.
AskedByOneSimulator ==     \* mutant: the rules share a Simulator
  \/ /\ Rule.type = "dhcp_lease" /\ AskDhcp(Rule.source)
  \/ /\ Rule.type # "dhcp_lease"
     /\ LET kind == CASE Rule.type \in {"ping", "no_ping"} -> "ping"
                      [] Rule.type = "port" -> "oneway"
                      [] Rule.type = "dns"  -> "dns"
            goal == IF kind = "dns" THEN doc.resolver[Rule.source] ELSE Resolved(Rule.to)
        IN  /\ call' = Call(kind, Rule.source, Rule.to, {})
            /\ UNCHANGED cache
            /\ IF goal = NoAddress \/ Working(Rule.source) = {} THEN Ends("no_target")
               ELSE /\ leg' = "out" /\ at' = Rule.source /\ dest' = goal
                    /\ hops' = 0 /\ answer' = "none"

AskedByRule ==
  \/ Rule.type = "dhcp_lease" /\ AskDhcp(Rule.source)
  \/ Rule.type \in {"ping", "no_ping"} /\ Ask("ping", Rule.source, Rule.to)
  \/ Rule.type = "port" /\ Ask("oneway", Rule.source, Rule.to)
  \/ Rule.type = "dns" /\ Ask("dns", Rule.source, Rule.to)

Simulate ==
  /\ ToGrade /\ leg = "idle" /\ Rule.type \in Traffic /\ Rule.source \in Devices
  /\ AskedByRule
  /\ UNCHANGED <<known, grading>>

\* Traffic that is answered passes the rule, or fails the one that forbids it.
Judge ==
  /\ ToGrade /\ leg = "done"
  /\ verdicts' = Append(verdicts, (answer = "success") = (Rule.type # "no_ping"))
  /\ leg' = "idle" /\ answer' = "none"
  /\ UNCHANGED <<lab, attempt, known, call, packet, cache>>

\* The first route of the subnet decides.
RouteHolds(d, network, nextHop) ==
  \E i \in DOMAIN doc.routes[d] :
    /\ doc.routes[d][i].network = network
    /\ \A j \in 1..(i - 1) : doc.routes[d][j].network # network
    /\ nextHop \in {NoAddress, doc.routes[d][i].nextHop}

\* A usable cable goes from one device to the other.
Linked(d, e) ==
  \E p \in PortsOf(d) : \E q \in PortsOf(e) : Lan[p] \in Direct /\ q \in Heard(p)

\* An interface rule is taken to ask for `no shutdown` (enabled) as well.
ConfigurationHolds(rule) ==
  /\ rule.source \in Devices
  /\ CASE rule.type = "interface_address" ->
            /\ doc.ip[rule.to] # NoAddress /\ rule.to \in doc.up
            /\ rule.address \in {NoAddress, doc.ip[rule.to]}
            /\ rule.network \in {{}, doc.net[rule.to]}
       [] rule.type = "in_subnet" ->
            \E p \in PortsOf(rule.source) :
              doc.ip[p] \in rule.network /\ (rule.to \in Ports => p = rule.to)
       [] rule.type = "gateway" -> doc.gateway[rule.source] = rule.address
       [] rule.type = "static_route" -> RouteHolds(rule.source, rule.network, rule.address)
       [] rule.type = "dhcp_pool" ->
            \E pool \in ToSet(doc.pools[rule.source]) : pool.network = rule.network
       [] rule.type = "link" -> Linked(rule.source, rule.to)
       [] OTHER -> FALSE

Inspect ==
  /\ ToGrade /\ leg = "idle" /\ (Rule.type \notin Traffic \/ Rule.source \notin Devices)
  /\ verdicts' = Append(verdicts, ConfigurationHolds(Rule))
  /\ UNCHANGED <<vars, lab, attempt>>

\* An objective is passed when every rule tied to it is; one without rules is.
Report == attempt = "grading" /\ Len(verdicts) = Len(Rules)
Earned == {i \in DOMAIN verdicts : verdicts[i]}
ObjectivePassed(o) == \A i \in DOMAIN Rules : Rules[i].objective = o => verdicts[i]

\* The network and its simulator are dropped.
Finish ==
  /\ Report
  /\ attempt' = "open"
  /\ table' = [d \in Devices |-> {}] /\ call' = Call("none", NoAddress, NoAddress, {})
  /\ cache' = {} /\ dest' = NoAddress /\ hops' = 0
  /\ UNCHANGED <<lab, verdicts, doc, leg, at, answer>>

-----------------------------------------------------------------------------
GradingInit ==
  /\ Init
  /\ lab \in {[document |-> doc, faults |-> f] : f \in FaultLists(doc)}
  /\ attempt = "none" /\ verdicts = <<>>

\* One request grades a lab from the first rule to the last, and nothing it
\* waits for is outside it.
Grader ==
  \/ Simulate \/ Judge \/ Inspect \/ Finish
  \/ attempt = "grading" /\ Carry /\ UNCHANGED grading

\* Outside an attempt the learner asks the simulator what they like.
GradingNext ==
  \/ attempt = "none" /\ Next /\ UNCHANGED grading
  \/ StartAttempt \/ (\E p \in Ports : Repair(p)) \/ Begin
  \/ Grader

GradingSpec == /\ GradingInit /\ [][GradingNext]_<<vars, grading>>
               /\ WF_<<vars, grading>>(Grader)

-----------------------------------------------------------------------------
(* What a grade tells a learner *)

\* The network that is graded, and not the rules graded before, decides a rule:
\* the same question gets the same verdict wherever it stands in the list.
SameQuestionSameVerdict ==
  \A i, j \in DOMAIN verdicts :
    [Rules[i] EXCEPT !.objective = 0] = [Rules[j] EXCEPT !.objective = 0]
      => verdicts[i] = verdicts[j]

SameNetwork(d, e) ==
  /\ [d EXCEPT !.routes = {}] = [e EXCEPT !.routes = {}]
  /\ \A r \in Devices : ToSet(d.routes[r]) = ToSet(e.routes[r])

\* "A working network plus a list of things to break": whoever has put every
\* fault right again, in whatever order, has all the points.
MendedScoresFull ==
  Report /\ lab.faults # <<>> /\ SameNetwork(doc, lab.document)
    => Earned = DOMAIN Rules

\* A network in which two misconfigured routers send a packet to each other is
\* graded all the same.
EveryLabGraded == attempt = "grading" ~> attempt = "open"

\* "There is only one definition of these two hosts can talk": who can open a
\* TCP connection can be pinged.
OneDefinitionOfReach ==
  \A i, j \in DOMAIN verdicts :
    /\ Rules[i].type = "port" /\ Rules[j].type = "no_ping"
    /\ Rules[i].source = Rules[j].source /\ Rules[i].to = Rules[j].to
    => ~(verdicts[i] /\ verdicts[j])
=============================================================================
