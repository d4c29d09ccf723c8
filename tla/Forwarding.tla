----------------------------- MODULE Forwarding -----------------------------
(***************************************************************************)
(* Layer 3 of the packet simulator: a packet carried from device to device *)
(* by Forwarder.deliver (services/simulation/forwarding.py) over the       *)
(* routing tables of Network (network.py), and the exchanges Simulator     *)
(* (protocols.py) builds on it: ping with its reply, traceroute, TCP, UDP, *)
(* DNS, ARP alone and DHCP.                                                *)
(*                                                                         *)
(* A LAN is one broadcast domain; that the frame of an answered ARP        *)
(* request gets to whoever answered is FrameWalk's subject.  A subnet is   *)
(* the set of its addresses, so a longer prefix is a smaller set.  The     *)
(* order of a routing table is in its routes (place).                      *)
(*                                                                         *)
(* The TTL is left out: it starts at 64 and a hop takes at most one off,   *)
(* so the 16 hops run out first.                                           *)
(***************************************************************************)
EXTENDS Integers, Sequences, FiniteSets, SequencesExt

CONSTANTS
  Devices,
  Routers,      \* the devices whose kind is in ROUTING_KINDS
  PortOrder,    \* every (device, interface), in the order of the document
  DeviceOf,     \* the device of each port
  Lan,          \* the broadcast domain each port is cabled to
  Direct,       \* the LANs that are one cable, with no switch
  Addresses,    \* a range of whole numbers
  NoAddress, NoPort,
  Asked,        \* bound: the destinations tried, devices by name and addresses
  MaxHops,      \* MAX_HOPS
  Documents     \* the topologies that learners may have drawn

Ports == ToSet(PortOrder)

ASSUME PortsAssumption ==
  /\ PortOrder \in Seq(Ports) /\ NoPort \notin Ports
  /\ DeviceOf \in [Ports -> Devices] /\ Devices # {} /\ IsFiniteSet(Devices)
  /\ Routers \subseteq Devices
ASSUME CablesAssumption ==     \* a cable has two ends
  \A p, q, r \in Ports : Lan[p] \in Direct /\ Lan[q] = Lan[p] /\ Lan[r] = Lan[p]
                         => p = q \/ q = r \/ p = r
ASSUME AddressesAssumption ==
  /\ Addresses \subseteq Nat /\ \A first, last \in Addresses : first..last \subseteq Addresses
  /\ IsFiniteSet(Addresses) /\ NoAddress \notin Addresses
ASSUME AskedAssumption == Asked \subseteq Devices \cup Addresses
ASSUME HopsAssumption  == MaxHops \in Nat \ {0}

VARIABLES
  doc,      \* the topology, see TypeOK
  call,     \* the question: its kind, who asks, what for; the DHCP pool that serves it
  leg,      \* "idle", the request "out", the reply "back", or "done"
  at,       \* the device that holds the packet
  dest,     \* the address it is sent to
  hops,
  table,    \* _routing_cache: the routing table of each device
  cache,    \* arp_cache, as triples of device, address and answering port
  answer    \* how it ended, "none" before that

packet == <<at, dest, hops>>
known  == <<doc, table>>
vars   == <<known, call, leg, packet, cache, answer>>

AnyAddress == Addresses \cup {NoAddress}
Subnets    == {first..last : first, last \in Addresses}

\* traceroute, TCP and UDP all ask whether one packet gets there: "oneway".
Kinds == {"ping", "oneway", "dns"}

StaticRoute == [network : Subnets, nextHop : AnyAddress, exit : Ports \cup {NoPort},
                distance : 1..255]
DhcpPool    == [network : Subnets, gateway : AnyAddress,
                excludedEnd : Addresses \cup {-1}]  \* -1: nothing is excluded

\* An interface is in the subnet of its address, or in none.
Addressed(a, network) == network # {} => a \in network

Document(d) ==
  /\ d \in [up : SUBSET Ports,               \* enabled interfaces
            cabled : SUBSET Ports,           \* ports whose cable is usable
            ip : [Ports -> AnyAddress],
            net : [Ports -> Subnets],        \* {} without an address and a mask
            gateway : [Devices -> AnyAddress],
            routes : [Devices -> Seq(StaticRoute)],
            speaks : [Devices -> SUBSET {"ospf", "eigrp", "rip"}],
            advertises : [Devices -> SUBSET Subnets],
            resolver : [Devices -> AnyAddress],
            pools : [Devices -> Seq(DhcpPool)]]
  /\ \A p \in Ports : Addressed(d.ip[p], d.net[p])

ASSUME DocumentsAssumption == \A d \in Documents : Document(d)

TypeOK ==
  /\ Document(doc)
  /\ leg \in {"idle", "out", "back", "done"}
  /\ at \in Devices
  /\ dest \in Nat \cup {NoAddress}     \* a lease may be beyond the addresses in use
  /\ hops \in 0..MaxHops
  /\ cache \subseteq Devices \X AnyAddress \X Ports
  /\ leg = "done" <=> answer # "none"

-----------------------------------------------------------------------------
(* The topology: Network *)

Place(p)  == CHOOSE i \in 1..Len(PortOrder) : PortOrder[i] = p
First(S)  == CHOOSE p \in S : \A q \in S : Place(p) <= Place(q)
PortsOf(d) == {p \in Ports : DeviceOf[p] = d}

\* Whether the interface is enabled is not asked.
Owns(d, a)         == \E p \in PortsOf(d) : doc.ip[p] = a

Working(d) == {p \in PortsOf(d) \cap doc.up : doc.ip[p] # NoAddress}
Local(d, a) == {p \in PortsOf(d) \cap doc.up : a \in doc.net[p]}

FirstIp(S) == IF S = {} THEN NoAddress ELSE doc.ip[First(S)]

\* The other ports on p's LAN that a frame out of p gets to.
Heard(p) ==
  IF p \notin doc.cabled THEN {}
  ELSE {q \in doc.cabled : q # p /\ Lan[q] = Lan[p]}

Route(network, nextHop, exit, distance, place) ==
  [network |-> network, nextHop |-> nextHop, exit |-> exit, distance |-> distance,
   place |-> place]

ConnectedRoutes(d) ==
  {Route(doc.net[p], NoAddress, p, 0, Place(p)) :
     p \in {q \in PortsOf(d) \cap doc.up : doc.net[q] # {}}}

AsRoute(t, place) == Route(t.network, t.nextHop, t.exit, t.distance, place)
StaticRoutes(d) ==
  {AsRoute(doc.routes[d][i], Len(PortOrder) + i) : i \in DOMAIN doc.routes[d]}

\* Routers that run a protocol of d's, next to d or to one of them, whatever
\* happens on the far side of the cable (_routing_peers).
Joined(d, e) ==
  /\ d # e /\ e \in Routers
  /\ \E p \in PortsOf(d) \cap doc.up : \E q \in PortsOf(e) : q \in Heard(p)

RoutingPeers(d) ==
  LET Shares(e) == doc.speaks[e] \cap doc.speaks[d] # {}
      within[n \in Nat] ==
        IF n = 0 THEN {d}
        ELSE LET closer == within[n - 1]
             IN  closer \cup {e \in Devices : Shares(e) /\ \E c \in closer : Joined(c, e)}
  IN  within[Cardinality(Devices)] \ {d}

\* The interface of d on a subnet that peer is on too, and peer's port there.
NextHopTowards(d, peer) ==
  LET Shared(p) == {q \in PortsOf(peer) \cap doc.up :
                      doc.net[q] # {} /\ doc.net[q] = doc.net[p]}
      exits == {p \in PortsOf(d) \cap doc.up : Shared(p) # {}}
  IN  IF exits = {} THEN {} ELSE {<<First(exits), First(Shared(First(exits)))>>}

Advertises(d, network) == \E covered \in doc.advertises[d] : network \subseteq covered

\* What the router of q teaches d about q's subnet.
TeachesOfDown(d, q) ==     \* mutant: interfaces that are down are advertised
  /\ doc.speaks[d] # {}
  /\ DeviceOf[q] \in RoutingPeers(d)
  /\ doc.net[q] \notin {doc.net[p] : p \in PortsOf(d)} \cup {{}}
  /\ Advertises(DeviceOf[q], doc.net[q])

Teaches(d, q) ==
  /\ doc.speaks[d] # {}
  /\ DeviceOf[q] \in RoutingPeers(d) /\ q \in doc.up
  /\ doc.net[q] \notin {doc.net[p] : p \in PortsOf(d)} \cup {{}}
  /\ Advertises(DeviceOf[q], doc.net[q])

LearnedRoutes(d) ==
  UNION {{Route(doc.net[q], doc.ip[via[2]], via[1], 110,
                Len(PortOrder) + Len(doc.routes[d]) + Place(q)) :
            via \in NextHopTowards(d, DeviceOf[q])} :
           q \in {p \in Ports : Teaches(d, p)}}

RoutingTable(d) == ConnectedRoutes(d) \cup StaticRoutes(d) \cup LearnedRoutes(d)

BeforeIsShorter(t, u) ==     \* mutant: the shortest prefix first
  LET length(v) == Cardinality(v.network)
  IN  length(t) > length(u) \/ (length(t) = length(u) /\ t.place <= u.place)

\* Longest prefix first, then the lower distance, then the order above.
Before(t, u) ==
  LET length(v) == Cardinality(v.network)
  IN  \/ length(t) < length(u)
      \/ length(t) = length(u) /\ t.distance < u.distance
      \/ length(t) = length(u) /\ t.distance = u.distance /\ t.place <= u.place

\* The route for a, as a set of at most one; without any, the default gateway.
LookupRoute(d, a) ==
  LET matches == {t \in table[d] : a \in t.network}
  IN  IF matches # {}
      THEN {CHOOSE t \in matches : \A u \in matches : Before(t, u)}
      ELSE IF doc.gateway[d] # NoAddress
           THEN {Route(Addresses, doc.gateway[d], NoPort, 0, 0)} ELSE {}

-----------------------------------------------------------------------------
(* One hop: Forwarder *)

\* choose_egress: the ports and next hops of an exit, at most one.
Towards(d, route, nextHop) ==
  IF route.exit \in PortsOf(d) \cap doc.up THEN {route.exit}
  ELSE IF Local(d, nextHop) # {} THEN {First(Local(d, nextHop))} ELSE {}

ChooseEgress(d, a) ==
  IF Local(d, a) # {} THEN {<<First(Local(d, a)), a>>}
  ELSE UNION {LET nextHop == IF route.nextHop = NoAddress THEN a ELSE route.nextHop
              IN  Towards(d, route, nextHop) \X {nextHop} : route \in LookupRoute(d, a)}

Answering(p, a) == {q \in Heard(p) \cap doc.up : doc.ip[q] = a}
Cached(d, a)    == {c[3] : c \in {t \in cache : t[1] = d /\ t[2] = a}}

\* resolve_arp: the port whose MAC d will put on the frame, at most one.
ResolveArp(d, p, a) ==
  IF Cached(d, a) # {} THEN Cached(d, a)
  ELSE IF Answering(p, a) # {} THEN {First(Answering(p, a))} ELSE {}

\* A lone cable takes the frame to its other end, a switch to the MAC.
Landing(p, q) ==
  IF Lan[p] \in Direct THEN {DeviceOf[r] : r \in Heard(p)}
  ELSE {DeviceOf[r] : r \in Heard(p) \cap doc.up \cap {q}}

-----------------------------------------------------------------------------
(* Exchanges: Simulator *)

\* Network(document) is built before the first question; a device's table is
\* made when it is first wanted and kept.
Network == table' = [d \in Devices |-> RoutingTable(d)] /\ UNCHANGED doc

Call(kind, from, to, pools) == [kind |-> kind, from |-> from, to |-> to, pools |-> pools]

Ends(how) == leg' = "done" /\ answer' = how /\ UNCHANGED packet

\* _resolve_destination: a device stands for its first address that is up.
Resolved(to) ==
  IF to \in Devices THEN FirstIp(Working(to))
  ELSE IF \E d \in Devices : Owns(d, to) THEN to ELSE NoAddress

\* _address_facing: the address s is answered at by somebody at a.
AddressFacing(s, a) ==
  IF Local(s, a) # {} THEN doc.ip[First(Local(s, a))] ELSE FirstIp(Working(s))

Ask(kind, s, to) ==
  /\ leg = "idle" /\ kind \in Kinds
  /\ call' = Call(kind, s, to, {})
  /\ cache' = {}
  /\ LET goal == IF kind = "dns" THEN doc.resolver[s] ELSE Resolved(to)
     IN  \/ /\ goal = NoAddress /\ Ends("no_target")
         \/ /\ goal # NoAddress /\ Working(s) = {} /\ Ends("no_interface")
         \/ /\ goal # NoAddress /\ Working(s) # {}
            /\ leg' = "out" /\ at' = s /\ dest' = goal /\ hops' = 0 /\ answer' = "none"

Travelling == leg \in {"out", "back"} /\ hops < MaxHops

\* The packet is where its address is.  A ping is answered, out of one of the
\* interfaces that brought the request; a name server has a record for every
\* device of the topology that has an address.
EchoReply ==
  /\ leg' = "back" /\ dest' = AddressFacing(call.from, dest) /\ hops' = 0
  /\ UNCHANGED <<at, answer>>

Arrived ==
  /\ Travelling /\ Owns(at, dest)
  /\ \/ call.kind = "ping" /\ leg = "out" /\ EchoReply
     \/ /\ call.kind = "dns"
        /\ Ends(IF FirstIp(Working(call.to)) = NoAddress THEN "no_record" ELSE "success")
     \/ /\ call.kind = "oneway" \/ leg = "back"
        /\ Ends("success")
  /\ UNCHANGED <<known, call, cache>>

NoRoute ==
  /\ Travelling /\ ~Owns(at, dest) /\ ChooseEgress(at, dest) = {}
  /\ Ends("no_route")
  /\ UNCHANGED <<known, call, cache>>

ArpTimeout ==
  /\ Travelling /\ ~Owns(at, dest)
  /\ \E e \in ChooseEgress(at, dest) : ResolveArp(at, e[1], e[2]) = {}
  /\ Ends("arp_timeout")
  /\ UNCHANGED <<known, call, cache>>

ForwardUncounted ==     \* mutant: hops is not increased
  /\ Travelling /\ ~Owns(at, dest)
  /\ \E e \in ChooseEgress(at, dest) : \E q \in ResolveArp(at, e[1], e[2]) :
       /\ cache' = cache \cup {<<at, e[2], q>>}
       /\ \/ Landing(e[1], q) = {} /\ Ends("lost")
          \/ at' \in Landing(e[1], q) /\ UNCHANGED <<dest, leg, answer, hops>>
  /\ UNCHANGED <<known, call>>

Forward ==
  /\ Travelling /\ ~Owns(at, dest)
  /\ \E e \in ChooseEgress(at, dest) : \E q \in ResolveArp(at, e[1], e[2]) :
       /\ cache' = cache \cup {<<at, e[2], q>>}
       /\ \/ Landing(e[1], q) = {} /\ Ends("lost")
          \/ /\ at' \in Landing(e[1], q) /\ hops' = hops + 1
             /\ UNCHANGED <<dest, leg, answer>>
  /\ UNCHANGED <<known, call>>

HopLimit ==
  /\ leg \in {"out", "back"} /\ hops = MaxHops
  /\ Ends("hops")
  /\ UNCHANGED <<known, call, cache>>

\* ARP alone: the question is which port answers for the next hop.
AskArp(s, a) ==
  /\ leg = "idle"
  /\ call' = Call("arp", s, a, {})
  /\ cache' = {}
  /\ at' = s /\ dest' = a /\ hops' = 0 /\ leg' = "done"
  /\ answer' = IF ChooseEgress(s, a) = {} THEN "no_route"
               ELSE IF \A e \in ChooseEgress(s, a) : Answering(e[1], e[2]) = {}
                    THEN "arp_timeout" ELSE "success"

\* _find_dhcp_pool and _offer_address.  The devices of the broadcast domain are
\* a Python set, so any pool that serves it may be the one that answers.
Serves(d, pool) == \E p \in PortsOf(d) \cap doc.up : doc.ip[p] \in pool.network

ServingPools(p) ==
  UNION {{pool \in ToSet(doc.pools[DeviceOf[q]]) : Serves(DeviceOf[q], pool)} :
           q \in Heard(p) \cap doc.up}

\* The first address after the excluded ones that is not the gateway's; the
\* start itself when there is none.
OfferedAddressWithGateway(pool) ==     \* mutant: the gateway's address is offered
  LET after == {Min(pool.network), pool.excludedEnd}
  IN  Max(after) + 1

OfferedAddress(pool) ==
  LET after == {Min(pool.network), pool.excludedEnd}
      start == Max(after) + 1
      free  == {a \in start..(Max(pool.network) - 1) : a # pool.gateway}
  IN  IF free = {} THEN start ELSE Min(free)

AskDhcp(s) ==
  /\ leg = "idle"
  /\ cache' = {}
  /\ at' = s /\ hops' = 0 /\ leg' = "done"
  /\ LET enabled == PortsOf(s) \cap doc.up
         pools   == IF enabled = {} THEN {} ELSE ServingPools(First(enabled))
     IN  \/ /\ pools = {}
            /\ call' = Call("dhcp", s, NoAddress, {})
            /\ answer' = "no_pool" /\ dest' = NoAddress
         \/ \E pool \in pools :
              /\ call' = Call("dhcp", s, NoAddress, {pool})
              /\ answer' = "success" /\ dest' = OfferedAddress(pool)

-----------------------------------------------------------------------------
Init ==
  /\ doc \in Documents
  /\ call = Call("none", NoAddress, NoAddress, {})
  /\ leg = "idle" /\ answer = "none"
  /\ at \in {CHOOSE d \in Devices : TRUE} /\ dest = NoAddress /\ hops = 0
  /\ cache = {} /\ table = [d \in Devices |-> {}]

Carry == Arrived \/ NoRoute \/ ArpTimeout \/ Forward \/ HopLimit

Next ==
  \/ /\ \/ \E kind \in Kinds, s \in Devices, to \in Asked : Ask(kind, s, to)
        \/ \E s \in Devices, a \in Asked \cap Addresses : AskArp(s, a)
        \/ \E s \in Devices : AskDhcp(s)
     /\ Network
  \/ Carry

Spec == Init /\ [][Next]_vars

-----------------------------------------------------------------------------
(* What the answers tell a learner *)

\* No two interfaces have the same address.
OneHolder ==
  \A p, q \in Ports : doc.ip[p] = doc.ip[q] /\ p # q => doc.ip[p] = NoAddress

Success(kinds) == leg = "done" /\ call.kind \in kinds /\ answer = "success"

\* Routers on a LAN, and those at most n routers away from it.
OnLan(lan)     == {r \in Routers : \E p \in PortsOf(r) : Lan[p] = lan}
NextTo(closer) == {r \in Routers : \E p \in PortsOf(r) : \E q \in Ports :
                     Lan[p] = Lan[q] /\ DeviceOf[q] \in closer}
Away(lan, n) ==
  LET away[k \in 0..(Cardinality(Routers) + 1)] ==
        IF k = 0 THEN OnLan(lan) ELSE away[k - 1] \cup NextTo(away[k - 1])
  IN  away[n]

\* d, at one end of a LAN with the address hop, is sent closer to the LAN of a.
LeadsCloser(d, hop, a) ==
  \E q \in Ports : \E r \in Ports :
    /\ doc.ip[q] = hop /\ doc.ip[r] = a
    /\ \E p \in PortsOf(d) : Lan[p] = Lan[q]
    /\ \E n \in 0..Cardinality(Routers) :
         DeviceOf[q] \in Away(Lan[r], n) /\ d \notin Away(Lan[r], n)

\* A network set up the way the course teaches it: everything is up and cabled,
\* a LAN is a subnet and no two overlap, a host has a gateway on its LAN and no
\* routes, and the most specific of a router's routes for an address leads
\* closer to it.
WellConfigured ==
  /\ OneHolder
  /\ doc.up = Ports /\ doc.cabled = Ports
  /\ \A p \in Ports : doc.ip[p] \in doc.net[p]
  /\ \A p, q \in Ports : IF Lan[p] = Lan[q] THEN doc.net[p] = doc.net[q]
                                            ELSE doc.net[p] \cap doc.net[q] = {}
  /\ \A h \in Devices \ Routers :
       /\ doc.routes[h] = <<>>
       /\ \E p \in PortsOf(h) : \E q \in Ports \ PortsOf(h) :
            Lan[p] = Lan[q] /\ DeviceOf[q] \in Routers /\ doc.ip[q] = doc.gateway[h]
  /\ \A r \in Routers : PortsOf(r) # {}
  /\ \A r \in Routers : \A q \in Ports :
       Local(r, doc.ip[q]) = {} =>
         LET routes == {t \in ToSet(doc.routes[r]) : doc.ip[q] \in t.network}
             best   == {t \in routes : \A u \in routes :
                          Cardinality(t.network) <= Cardinality(u.network)}
         IN  best # {} /\ \A t \in best :
               t.exit = NoPort /\ LeadsCloser(r, t.nextHop, doc.ip[q])

\* Whoever has configured the network that way gets every packet through, and
\* every reply: no choice of egress, no order of routes, no cached ARP answer of
\* the way there stands in its way back.
WellConfiguredReaches ==
  /\ leg = "done" /\ call.kind \in {"ping", "oneway"}
  /\ WellConfigured
  /\ call.to \in Devices \/ \E p \in Ports : doc.ip[p] = call.to
  => answer = "success"

\* The subnets of d's interfaces have no address in common.
Apart(d) ==
  \A p, q \in PortsOf(d) \cap doc.up : p # q => doc.net[p] \cap doc.net[q] = {}

\* A learned route is one hop long: it takes the packet to a router on the
\* destination's subnet ("every router running the same protocol ... shares the
\* networks it advertises"), so such routes alone never make a loop.
LearnedRouteLeadsThere ==
  [][Travelling /\ leg' = leg /\ at' # at
       /\ OneHolder /\ at \in Routers
       /\ doc.routes[at] = <<>> /\ doc.gateway[at] = NoAddress
       /\ Apart(at)
     => Local(at', dest) # {} \/ Owns(at', dest)]_vars

\* A lease can be taken up: it is an address of the pool's subnet that the
\* server does not have itself (if the pool's gateway is the server, and the
\* excluded range leaves an address).
ServedByGateway(pool) ==
  \E p \in Ports : /\ doc.ip[p] = pool.gateway
                   /\ pool \in ToSet(doc.pools[DeviceOf[p]])
                   /\ {q \in PortsOf(DeviceOf[p]) : doc.ip[q] \in pool.network} = {p}

LeaseIsUsable ==
  Success({"dhcp"}) =>
    \A pool \in call.pools :
      LET first == Min(pool.network)
          last  == Max(pool.network)
      IN  /\ ServedByGateway(pool)
          /\ \E x \in pool.network \ {first, last, pool.gateway} : x > pool.excludedEnd
          => dest \in pool.network \ {first, last, pool.gateway}

\* "A router must carry it" (choose_egress): only routers pass packets on.
OnlyRoutersForward ==
  [][Travelling /\ leg' = leg /\ at' # at /\ hops > 0 => at \in Routers]_vars
=============================================================================
