----------------------------- MODULE MCGrading ------------------------------
(***************************************************************************)
(* Host a on a switched LAN of router r, host b on one of router s, a host *)
(* c on a cable of its own to r, and the cable between r and s.            *)
(*                                                                         *)
(*    a --(0..3)-- r --(4..7)-- s --(8..11)-- b       r --(12..15)-- c     *)
(***************************************************************************)
EXTENDS Grading

CONSTANTS a, b, c, r, s, a1, b1, c1, r1, r2, r3, s1, s2

MCPortOrder == <<a1, r1, r2, r3, s1, s2, b1, c1>>
MCDeviceOf ==
  [p \in Ports |-> CASE p = a1 -> a [] p = b1 -> b [] p = c1 -> c
                     [] p \in {s1, s2} -> s [] OTHER -> r]
MCLan ==
  [p \in Ports |-> CASE p \in {a1, r1} -> 1 [] p \in {r2, s1} -> 2
                     [] p \in {s2, b1} -> 3 [] OTHER -> 4]
MCDirect == {2, 4}
MCAddresses == 0..15

Subnet(lan) == (4 * lan - 4)..(4 * lan - 1)
Via(network, nextHop) ==
  [network |-> network, nextHop |-> nextHop, exit |-> NoPort, distance |-> 1]
Default == Addresses

WorkingDocument ==
  [up |-> Ports, cabled |-> Ports,
   ip |-> [p \in Ports |-> CASE p = r1 -> 1 [] p = a1 -> 2 [] p = r2 -> 5 [] p = s1 -> 6
                             [] p = s2 -> 9 [] p = b1 -> 10 [] p = r3 -> 13 [] p = c1 -> 14],
   net |-> [p \in Ports |-> Subnet(MCLan[p])],
   gateway |-> [d \in Devices |-> CASE d = a -> 1 [] d = b -> 9 [] d = c -> 13
                                    [] OTHER -> NoAddress],
   routes |-> [d \in Devices |-> CASE d = r -> <<Via(Subnet(3), 6)>>
                                   [] d = s -> <<Via(Subnet(1), 5), Via(Subnet(4), 5)>>
                                   [] OTHER -> <<>>],
   speaks |-> [d \in Devices |-> {}], advertises |-> [d \in Devices |-> {}],
   resolver |-> [d \in Devices |-> IF d = a THEN 10 ELSE NoAddress],
   pools |-> [d \in Devices |-> <<>>]]

\* A route for the subnet that is wrong, too wide or not the only one.
RoutesOfR ==
  {<<>>, <<Via(Subnet(3), 6)>>, <<Via(Default, 6)>>, <<Via(Default, 14), Via(Subnet(3), 6)>>,
   <<[Via(Subnet(3), NoAddress) EXCEPT !.exit = r2]>>,
   <<[Via(Subnet(3), 6) EXCEPT !.exit = r2], [Via(Subnet(4), 6) EXCEPT !.exit = r1]>>,
   <<[Via(Subnet(3), 6) EXCEPT !.exit = r2], [Via(Subnet(4), 6) EXCEPT !.exit = r3]>>}
RoutesOfS == {<<>>, <<Via(Subnet(1), 5), Via(Subnet(4), 5)>>, <<Via(Default, 5)>>}

WithRoutes ==
  {[WorkingDocument EXCEPT !.routes = [@ EXCEPT ![r] = x, ![s] = y]] :
     x \in RoutesOfR, y \in RoutesOfS}

Ospf(d, covered) == [d EXCEPT !.routes = [x \in Devices |-> <<>>],
                              !.speaks = [x \in Devices |-> IF x \in Routers THEN {"ospf"} ELSE {}],
                              !.advertises = [x \in Devices |-> covered]]

Broken(d) ==
  {[d EXCEPT !.up = @ \ {p}] : p \in {r1, r2, s2, b1}}
    \cup {[d EXCEPT !.cabled = @ \ {r2, s1}],
          [d EXCEPT !.cabled = @ \ {b1}],
          [d EXCEPT !.up = {}],
          [d EXCEPT !.gateway[a] = NoAddress],
          [d EXCEPT !.gateway[a] = 3],
          [d EXCEPT !.gateway[b] = 6],
          [d EXCEPT !.gateway[b] = 10],
          [d EXCEPT !.ip[b1] = 9],
          [d EXCEPT !.net[r3] = {13}]}

Pool(gateway, excludedEnd) ==
  [network |-> Subnet(1), gateway |-> gateway, excludedEnd |-> excludedEnd]
WithPools ==
  {[WorkingDocument EXCEPT !.pools[r] = <<Pool(1, x)>>] : x \in {-1, 1, 2}}

\* The lab: c cannot answer, which its author takes for a separation, and some
\* of its routes are wrong once an interface is.
LabDocument ==
  [WorkingDocument EXCEPT
     !.gateway[c] = NoAddress, !.pools[r] = <<Pool(1, 1)>>,
     !.routes[r] = <<Via(Subnet(3), 6), [Via(Subnet(4), 6) EXCEPT !.exit = r3]>>,
     !.routes[s] = <<Via(Subnet(1), 5), Via(Default, 5)>>]
MCAuthored == {LabDocument}

MCDocuments ==
  WithRoutes \cup WithPools \cup {LabDocument}
    \cup UNION {Broken(d) : d \in WithRoutes}
    \cup LET spoken == {Ospf(WorkingDocument, {Default}),
                        Ospf(WorkingDocument, {Subnet(3)})}
         IN  spoken \cup UNION {Broken(d) : d \in spoken}

Fault(kind, device, port, address, network) ==
  [kind |-> kind, device |-> device, port |-> port, address |-> address, network |-> network]
MCFaults ==
  {Fault("shutdown_interface", r, r2, NoAddress, {}),
   Fault("shutdown_interface", Missing, r2, NoAddress, {}),
   Fault("shutdown_interface", s, s2, NoAddress, {}),
   Fault("wrong_address", b, b1, 6, Subnet(2)),
   Fault("wrong_address", r, r3, 13, {13}),
   Fault("wrong_gateway", a, a1, 3, {}),
   Fault("remove_static_route", s, s1, NoAddress, Subnet(1)),
   Fault("disable_link", s, s2, NoAddress, {}),
   Fault("wrong_cable", r, r2, NoAddress, {})}

LabRule(type, source, to, address, network) ==
  [type |-> type, source |-> source, to |-> to, address |-> address,
   network |-> network, objective |-> 1]
MCRules ==
  <<LabRule("port", a, 14, NoAddress, {}),
    LabRule("no_ping", a, 14, NoAddress, {}),
    LabRule("ping", a, b, NoAddress, {}),
    LabRule("port", a, 14, NoAddress, {}),
    LabRule("ping", b, a, NoAddress, {}),
    LabRule("dns", a, b, NoAddress, {}),
    LabRule("dhcp_lease", a, a, NoAddress, {}),
    LabRule("interface_address", r, r2, 5, {}),
    LabRule("in_subnet", b, b, NoAddress, Subnet(3)),
    LabRule("gateway", a, a, 1, {}),
    LabRule("static_route", s, s, 5, Subnet(1)),
    LabRule("dhcp_pool", r, r, NoAddress, Subnet(1)),
    LabRule("link", r, s, NoAddress, {})>>

MCAsked == {a, b, 2, 5, 10, 14}
=============================================================================
