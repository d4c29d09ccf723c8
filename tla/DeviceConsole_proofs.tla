------------------------ MODULE DeviceConsole_proofs ------------------------
(***************************************************************************)
(* Whatever is typed at the console, in any mode and any order, for any    *)
(* interfaces, subnets and numbers: the object of the mode exists, and no  *)
(* two interfaces are in overlapping subnets.                              *)
(*                                                                         *)
(* Each needs the other's neighbourhood: an address is set on the port the *)
(* session is on, which must be one, and a mode is entered with an object  *)
(* the configuration keeps until the mode is left.                         *)
(***************************************************************************)
EXTENDS DeviceConsole, TLAPS

Modes == {"user", "priv", "global", "interface", "vlan", "router", "line", "dhcp"}

PortSettings == [addr : Subnets \cup {Unset}, access : Nat, native : Nat, rest : 0..1]

Configuration ==
  [ports : [Interfaces -> PortSettings], vlans : SUBSET (Nat \X (0..1)),
   routes : SUBSET Subnets, routing : [Protocols -> (SUBSET Subnets) \cup {Unset}],
   passive : SUBSET Interfaces, acls : SUBSET (Names \X Nat), rules : Nat,
   pools : SUBSET (Names \X (Subnets \cup {Unset})), system : 0..1, saved : BOOLEAN]

\* ObjectExists and SubnetsApart, of a session and a configuration.
Has(s, c) ==
  /\ s.mode = "interface" => s.on \in Interfaces
  /\ s.mode = "vlan" => HasVlan(c, s.on)
  /\ s.mode = "dhcp" => HasPool(c, s.on)
  /\ s.mode = "router" => s.on \in Protocols /\ c.routing[s.on] # NotRunning
  /\ s.mode \notin {"interface", "vlan", "dhcp", "router"} => s.on = Unset

Apart(c) ==
  \A i, j \in Interfaces : i # j => <<c.ports[i].addr, c.ports[j].addr>> \notin Overlaps

Sound(s, c) == c \in Configuration /\ Has(s, c) /\ Apart(c)

ConsoleInv == Sound(session, config) /\ changes \in Nat

-----------------------------------------------------------------------------
\* A line leaves things sound when what it answers with is sound: the session
\* with the new configuration, or with the old one if that is not taken over.
LEMMA ResultSound ==
  ASSUME NEW no, NEW s, NEW c, NEW changed \in BOOLEAN, NEW refused,
         ConsoleInv, Sound(s, IF changed THEN c ELSE config),
         Result(no, s, c, changed, refused)
  PROVE  ConsoleInv'
<1>1. session' = s /\ config' = (IF changed THEN c ELSE config)
  BY DEF Result, Applied
<1>2. Sound(session, config)'
  BY <1>1 DEF Sound, Has, Apart, HasVlan, HasPool
<1>3. changes' \in Nat
  BY DEF Result, ConsoleInv
<1>. QED BY <1>2, <1>3 DEF ConsoleInv

\* A line that only moves the session to a mode without an object.
LEMMA GoesSound ==
  ASSUME NEW no, NEW m, ConsoleInv, m \notin {"interface", "vlan", "dhcp", "router"},
         Goes(no, In(m, Unset))
  PROVE  ConsoleInv'
<1>1. Sound(In(m, Unset), config)
  BY DEF ConsoleInv, Sound, Has, In
<1>. QED BY <1>1, ResultSound DEF Goes

\* A line that stays in its mode and does not touch what the mode is on.
LEMMA StaysSound ==
  ASSUME NEW no, ConsoleInv, Goes(no, session)
  PROVE  ConsoleInv'
BY ResultSound DEF Goes, ConsoleInv

LEMMA RefusedSound ==
  ASSUME NEW no, NEW c, ConsoleInv, RefusedWith(no, c)
  PROVE  ConsoleInv'
BY ResultSound DEF RefusedWith, ConsoleInv

\* Configurations that differ in none of what a mode can be on, and in no
\* address.
LEMMA SameObjects ==
  ASSUME NEW s, NEW c, NEW d, Sound(s, c), d \in Configuration,
         d.ports = c.ports, d.vlans = c.vlans, d.pools = c.pools, d.routing = c.routing
  PROVE  Sound(s, d)
BY DEF Sound, Has, Apart, HasVlan, HasPool

\* A line that changes something a mode cannot be on.
LEMMA ChangesSound ==
  ASSUME NEW no, NEW d, ConsoleInv, d \in Configuration, Changes(no, d),
         d.ports = config.ports, d.vlans = config.vlans, d.pools = config.pools,
         d.routing = config.routing
  PROVE  ConsoleInv'
<1>1. Sound(session, d)
  BY SameObjects DEF ConsoleInv
<1>. QED BY <1>1, ResultSound DEF Changes

\* A line that changes the port the session is on, and gives it no address or
\* one that is in no other port's subnet.
LEMMA SetSound ==
  ASSUME NEW no, NEW q \in PortSettings, ConsoleInv, OnPort, Changes(no, Set(q)),
         \/ q.addr = Port.addr
         \/ q.addr = Unset
         \/ ~AddressConflict(q.addr)
  PROVE  ConsoleInv'
<1> DEFINE d == Set(q)
<1>1. /\ session.on \in Interfaces /\ config \in Configuration
      /\ Has(session, config) /\ Apart(config)
  BY DEF ConsoleInv, Sound, Has, OnPort
<1>2. d = [config EXCEPT !.ports = [@ EXCEPT ![session.on] = q]]
  BY <1>1 DEF Set, Configuration
<1>3. /\ d \in Configuration
      /\ d.vlans = config.vlans /\ d.pools = config.pools /\ d.routing = config.routing
      /\ \A i \in Interfaces : d.ports[i] = IF i = session.on THEN q ELSE config.ports[i]
  BY <1>1, <1>2 DEF Configuration
<1>4. Apart(d)
  <2> SUFFICES ASSUME NEW i \in Interfaces, NEW j \in Interfaces, i # j
               PROVE  <<d.ports[i].addr, d.ports[j].addr>> \notin Overlaps
    BY DEF Apart
  <2>1. <<config.ports[i].addr, config.ports[j].addr>> \notin Overlaps
    BY <1>1 DEF Apart
  <2>2. \A x : <<Unset, x>> \notin Overlaps /\ <<x, Unset>> \notin Overlaps
    BY ConsoleAssumption
  <2>3. ~AddressConflict(q.addr) => \A k \in Interfaces \ {session.on} :
          /\ <<config.ports[k].addr, q.addr>> \notin Overlaps
          /\ <<q.addr, config.ports[k].addr>> \notin Overlaps
    BY ConsoleAssumption DEF AddressConflict
  <2>4. CASE q.addr = Port.addr
    <3>1. d.ports[i].addr = config.ports[i].addr /\ d.ports[j].addr = config.ports[j].addr
      BY <1>3, <2>4 DEF Port
    <3>. QED BY <2>1, <3>1
  <2>5. CASE q.addr = Unset
    <3>1. CASE session.on \in {i, j}
      BY <1>3, <2>2, <2>5, <3>1
    <3>2. CASE session.on \notin {i, j}
      BY <1>3, <2>1, <3>2
    <3>. QED BY <3>1, <3>2
  <2>6. CASE ~AddressConflict(q.addr)
    <3>1. CASE session.on = i
      BY <1>3, <2>3, <2>6, <3>1
    <3>2. CASE session.on = j
      BY <1>3, <2>3, <2>6, <3>2
    <3>3. CASE session.on \notin {i, j}
      BY <1>3, <2>1, <3>3
    <3>. QED BY <3>1, <3>2, <3>3
  <2>. QED BY <2>4, <2>5, <2>6
<1>5. Sound(session, d)
  BY <1>1, <1>3, <1>4 DEF Sound, Has, HasVlan, HasPool
<1>. QED BY <1>5, ResultSound DEF Changes

-----------------------------------------------------------------------------
(* The lines that create or remove what a mode can be on *)

LEMMA VlanSound ==
  ASSUME NEW no \in BOOLEAN, NEW v \in Typed, ConsoleInv, Vlan(no, v)
  PROVE  ConsoleInv'
<1>1. /\ config \in Configuration /\ Has(session, config) /\ Apart(config)
      /\ session.mode = "global"
  BY DEF ConsoleInv, Sound, Vlan, Global
<1>2. CASE v \notin VlanIds
  BY <1>2, RefusedSound DEF Vlan, Refused
<1>3. CASE v \in VlanIds /\ no
  <2> DEFINE d == [config EXCEPT !.vlans = {w \in @ : w[1] # v}]
  <2>1. Sound(session, d)
    BY <1>1 DEF Sound, Has, Apart, Configuration
  <2>2. Changes(no, d)
    BY <1>3 DEF Vlan
  <2>. QED BY <2>1, <2>2, ResultSound DEF Changes
<1>4. CASE v \in VlanIds /\ ~no
  <2> DEFINE d == IF HasVlan(config, v) THEN config
                  ELSE [config EXCEPT !.vlans = @ \cup {<<v, 0>>}]
  <2>1. v \in Nat
    BY DEF Typed
  <2>2. d \in Configuration /\ d.ports = config.ports
    BY <1>1, <2>1 DEF Configuration
  <2>3. HasVlan(d, v)
    <3>1. CASE HasVlan(config, v)
      BY <3>1
    <3>2. CASE ~HasVlan(config, v)
      <4>1. <<v, 0>> \in d.vlans
        BY <3>2, <1>1 DEF Configuration
      <4> HIDE DEF d
      <4>. QED BY <4>1 DEF HasVlan
    <3>. QED BY <3>1, <3>2
  <2>4. Sound(In("vlan", v), d)
    BY <1>1, <2>2, <2>3 DEF Sound, Has, Apart, In
  <2>5. Enters(no, In("vlan", v), d)
    BY <1>4 DEF Vlan
  <2> HIDE DEF d
  <2>. QED BY <2>4, <2>5, ResultSound DEF Enters
<1>. QED BY <1>2, <1>3, <1>4

LEMMA PoolSound ==
  ASSUME NEW no \in BOOLEAN, NEW n \in Names, ConsoleInv, Pool(no, n)
  PROVE  ConsoleInv'
<1> DEFINE d == IF HasPool(config, n) THEN config
                ELSE [config EXCEPT !.pools = @ \cup {<<n, Unset>>}]
<1>1. config \in Configuration /\ Apart(config)
  BY DEF ConsoleInv, Sound
<1>2. d \in Configuration /\ d.ports = config.ports
  BY <1>1 DEF Configuration
<1>3. HasPool(d, n)
  <2>1. CASE HasPool(config, n)
    BY <2>1
  <2>2. CASE ~HasPool(config, n)
    <3>1. <<n, Unset>> \in d.pools
      BY <2>2, <1>1 DEF Configuration
    <3> HIDE DEF d
    <3>. QED BY <3>1 DEF HasPool
  <2>. QED BY <2>1, <2>2
<1>4. Sound(In("dhcp", n), d)
  BY <1>1, <1>2, <1>3 DEF Sound, Has, Apart, In
<1>5. Enters(no, In("dhcp", n), d)
  BY DEF Pool
<1> HIDE DEF d
<1>. QED BY <1>4, <1>5, ResultSound DEF Enters

LEMMA RouterSound ==
  ASSUME NEW no \in BOOLEAN, NEW p \in Protocols, ConsoleInv, Router(no, p)
  PROVE  ConsoleInv'
<1>1. /\ config \in Configuration /\ Has(session, config) /\ Apart(config)
      /\ session.mode = "global"
  BY DEF ConsoleInv, Sound, Router, Global
<1>2. CASE no
  <2> DEFINE d == [config EXCEPT !.routing[p] = NotRunning,
                                 !.passive = IF p = "ospf" THEN {} ELSE @]
  <2>1. Sound(session, d)
    BY <1>1 DEF Sound, Has, Apart, Configuration, NotRunning
  <2>2. Changes(no, d)
    BY <1>2 DEF Router
  <2> HIDE DEF d
  <2>. QED BY <2>1, <2>2, ResultSound DEF Changes
<1>3. CASE ~no
  <2> DEFINE d == IF config.routing[p] = NotRunning THEN [config EXCEPT !.routing[p] = {}]
                                                     ELSE config
  <2>1. d \in Configuration /\ d.ports = config.ports
    BY <1>1 DEF Configuration
  <2>2. d.routing[p] # NotRunning
    BY <1>1, ConsoleAssumption DEF Configuration, NotRunning
  <2>3. Sound(In("router", p), d)
    BY <1>1, <2>1, <2>2 DEF Sound, Has, Apart, In
  <2>4. Enters(no, In("router", p), d)
    BY <1>3 DEF Router
  <2> HIDE DEF d
  <2>. QED BY <2>3, <2>4, ResultSound DEF Enters
<1>. QED BY <1>2, <1>3

\* A routing process keeps running while networks are added to it.
LEMMA NetworkSound ==
  ASSUME NEW no \in BOOLEAN, NEW n \in Subnets, ConsoleInv, Network(no, n)
  PROVE  ConsoleInv'
<1> DEFINE p == session.on
           new == (IF config.routing[p] = NotRunning THEN {} ELSE config.routing[p]) \cup {n}
           d == [config EXCEPT !.routing[p] = new]
<1>1. /\ config \in Configuration /\ Apart(config) /\ p \in Protocols
      /\ session.mode = "router"
  BY DEF ConsoleInv, Sound, Has, Network
<1>2. new \in SUBSET Subnets
  BY <1>1 DEF Configuration, NotRunning
<1>3. Changes(no, d)
  BY <1>1 DEF Network, Configuration
<1> HIDE DEF new
<1>4. d \in Configuration /\ d.ports = config.ports /\ d.routing[p] = new
  BY <1>1, <1>2 DEF Configuration
<1>5. new # NotRunning
  BY <1>2, ConsoleAssumption DEF NotRunning
<1>6. Sound(session, d)
  BY <1>1, <1>4, <1>5 DEF Sound, Has, Apart
<1> HIDE DEF d
<1>. QED BY <1>3, <1>6, ResultSound DEF Changes

\* Naming a VLAN and describing a pool leave them there.
LEMMA VlanNameSound ==
  ASSUME NEW no \in BOOLEAN, ConsoleInv, VlanName(no)
  PROVE  ConsoleInv'
<1> DEFINE d == [config EXCEPT !.vlans = {Named(w) : w \in @}]
<1>1. /\ config \in Configuration /\ Apart(config)
      /\ session.mode = "vlan" /\ HasVlan(config, session.on)
  BY DEF ConsoleInv, Sound, Has, VlanName
<1>2. \A w \in Nat \X (0..1) : Named(w) \in Nat \X (0..1) /\ Named(w)[1] = w[1]
  BY DEF Named
<1>3. d.vlans = {Named(w) : w \in config.vlans} /\ d \in Configuration /\ d.ports = config.ports
  BY <1>1, <1>2 DEF Configuration
<1>4. HasVlan(d, session.on)
  <2>1. PICK w \in config.vlans : w[1] = session.on
    BY <1>1 DEF HasVlan
  <2>2. Named(w) \in d.vlans /\ Named(w)[1] = session.on
    BY <1>1, <1>2, <1>3, <2>1 DEF Configuration
  <2> HIDE DEF d
  <2>. QED BY <2>2 DEF HasVlan
<1>5. Changes(no, d)
  BY DEF VlanName
<1>6. Sound(session, d)
  BY <1>1, <1>3, <1>4 DEF Sound, Has, Apart
<1> HIDE DEF d
<1>. QED BY <1>5, <1>6, ResultSound DEF Changes

LEMMA PoolNetworkSound ==
  ASSUME NEW no \in BOOLEAN, NEW n \in Subnets, ConsoleInv, PoolNetwork(no, n)
  PROVE  ConsoleInv'
<1> DEFINE Described(p) == IF p[1] = session.on THEN <<p[1], n>> ELSE p
           d == [config EXCEPT !.pools = {Described(p) : p \in @}]
           Pools == Names \X (Subnets \cup {Unset})
<1>1. /\ config \in Configuration /\ Apart(config)
      /\ session.mode = "dhcp" /\ HasPool(config, session.on)
  BY DEF ConsoleInv, Sound, Has, PoolNetwork
<1>2. \A p \in Pools : Described(p) \in Pools /\ Described(p)[1] = p[1]
  OBVIOUS
<1>3. Changes(no, d)
  BY <1>1 DEF PoolNetwork
<1> HIDE DEF Described
<1>4. d.pools = {Described(p) : p \in config.pools} /\ d \in Configuration /\ d.ports = config.ports
  BY <1>1, <1>2 DEF Configuration
<1>5. HasPool(d, session.on)
  <2>1. PICK p \in config.pools : p[1] = session.on
    BY <1>1 DEF HasPool
  <2>2. Described(p) \in d.pools /\ Described(p)[1] = session.on
    BY <1>1, <1>2, <1>4, <2>1 DEF Configuration
  <2> HIDE DEF d
  <2>. QED BY <2>2 DEF HasPool
<1>6. Sound(session, d)
  BY <1>1, <1>4, <1>5 DEF Sound, Has, Apart
<1> HIDE DEF d
<1>. QED BY <1>3, <1>6, ResultSound DEF Changes

\* An access list is there before its entry is understood; what is refused is
\* not taken over.
LEMMA AccessListSound ==
  ASSUME NEW no \in BOOLEAN, NEW n \in Names, ConsoleInv, AccessList(no, n)
  PROVE  ConsoleInv'
<1> DEFINE entries == {a \in config.acls : a[1] = n}
           size == IF entries = {} THEN 0 ELSE (CHOOSE a \in entries : TRUE)[2]
           d == [config EXCEPT !.acls = (@ \ entries) \cup {<<n, size + 1>>}]
           e == [config EXCEPT !.acls = {a \in @ : a[1] # n}]
<1>1. config \in Configuration
  BY DEF ConsoleInv, Sound
<1>2. size \in Nat
  BY <1>1 DEF Configuration
<1> HIDE DEF size
<1>3. CASE no
  <2>1. Changes(no, e)
    BY <1>3 DEF AccessList
  <2>2. e \in Configuration
    BY <1>1 DEF Configuration
  <2>. QED BY <1>1, <2>1, <2>2, ChangesSound DEF Configuration
<1>4. CASE ~no
  <2>1. Changes(no, d) \/ \E f : RefusedWith(no, f)
    BY <1>4 DEF AccessList, size
  <2>2. d \in Configuration
    BY <1>1, <1>2 DEF Configuration
  <2>3. d.ports = config.ports /\ d.vlans = config.vlans /\ d.pools = config.pools
        /\ d.routing = config.routing
    BY <1>1 DEF Configuration
  <2> HIDE DEF d
  <2>. QED BY <2>1, <2>2, <2>3, ChangesSound, RefusedSound
<1>. QED BY <1>3, <1>4

\* What can be set on the port the session is on.
LEMMA PortSound ==
  ASSUME ConsoleInv, NEW no \in BOOLEAN,
         \/ \E s \in Subnets : Address(no, s)
         \/ AddressDhcp
         \/ Tune(no)
         \/ \E v \in Typed : AccessVlan(no, v) \/ NativeVlan(no, v)
  PROVE  ConsoleInv'
<1>1. OnPort
  BY DEF Address, AddressDhcp, Tune, AccessVlan, NativeVlan
<1>2. Port \in PortSettings
  BY <1>1 DEF ConsoleInv, Sound, Has, OnPort, Port, Configuration
<1>3. ASSUME NEW s \in Subnets, Address(no, s) PROVE ConsoleInv'
  <2>1. /\ [Port EXCEPT !.addr = Unset] \in PortSettings
        /\ [Port EXCEPT !.addr = Unset].addr = Unset
        /\ [Port EXCEPT !.addr = s] \in PortSettings
        /\ [Port EXCEPT !.addr = s].addr = s
    BY <1>2 DEF PortSettings
  <2>2. CASE no
    BY <1>1, <1>3, <2>1, <2>2, SetSound DEF Address
  <2>3. CASE ~no /\ AddressConflict(s)
    BY <1>3, <2>3, RefusedSound DEF Address, Refused
  <2>4. CASE ~no /\ ~AddressConflict(s)
    <3>1. Changes(no, Set([Port EXCEPT !.addr = s]))
      BY <1>3, <2>4 DEF Address
    <3>2. ~AddressConflict([Port EXCEPT !.addr = s].addr)
      BY <2>1, <2>4
    <3>. QED BY <1>1, <2>1, <3>1, <3>2, SetSound
  <2>. QED BY <2>2, <2>3, <2>4
<1>4. CASE AddressDhcp
  <2>1. /\ [Port EXCEPT !.addr = Unset] \in PortSettings
        /\ [Port EXCEPT !.addr = Unset].addr = Unset
    BY <1>2 DEF PortSettings
  <2>. QED BY <1>1, <1>4, <2>1, SetSound DEF AddressDhcp
<1>5. CASE Tune(no)
  <2>1. /\ [Port EXCEPT !.rest = 1 - @] \in PortSettings
        /\ [Port EXCEPT !.rest = 1 - @].addr = Port.addr
    BY <1>2 DEF PortSettings
  <2>. QED BY <1>1, <1>5, <2>1, SetSound DEF Tune
<1>6. ASSUME NEW v \in Typed, AccessVlan(no, v) PROVE ConsoleInv'
  <2> DEFINE q == [Port EXCEPT !.access = IF no THEN 0 ELSE v]
  <2>1. q \in PortSettings /\ q.addr = Port.addr
    BY <1>2 DEF PortSettings, Typed
  <2>2. CASE v \notin VlanIds
    BY <1>6, <2>2, RefusedSound DEF AccessVlan, Refused
  <2>3. CASE v \in VlanIds
    <3>1. Changes(no, Set(q))
      BY <1>6, <2>3 DEF AccessVlan
    <3> HIDE DEF q
    <3>. QED BY <1>1, <2>1, <3>1, SetSound
  <2>. QED BY <2>2, <2>3
<1>7. ASSUME NEW v \in Typed, NativeVlan(no, v) PROVE ConsoleInv'
  <2>1. /\ [Port EXCEPT !.native = v] \in PortSettings
        /\ [Port EXCEPT !.native = v].addr = Port.addr
    BY <1>2 DEF PortSettings, Typed
  <2>. QED BY <1>1, <1>7, <2>1, SetSound DEF NativeVlan
<1>. QED BY <1>3, <1>4, <1>5, <1>6, <1>7

\* Lines that change the configuration around the objects of the modes.
LEMMA AroundSound ==
  ASSUME ConsoleInv, NEW no \in BOOLEAN,
         \/ SaveConfig(no) \/ System(no) \/ NatRule(no)
         \/ \E s \in Subnets : Route(no, s)
         \/ \E i \in Interfaces : Passive(no, i)
  PROVE  ConsoleInv'
<1>1. config \in Configuration
  BY DEF ConsoleInv, Sound
<1>2. CASE SaveConfig(no)
  <2>1. [config EXCEPT !.saved = TRUE] \in Configuration
    BY <1>1 DEF Configuration
  <2>. QED BY <1>1, <1>2, <2>1, ChangesSound DEF SaveConfig, Configuration
<1>3. CASE System(no)
  <2>1. [config EXCEPT !.system = 1 - @] \in Configuration
    BY <1>1 DEF Configuration
  <2>. QED BY <1>1, <1>3, <2>1, ChangesSound DEF System, Configuration
<1>4. CASE NatRule(no)
  <2>1. [config EXCEPT !.rules = @ + 1] \in Configuration
    BY <1>1 DEF Configuration
  <2>. QED BY <1>1, <1>4, <2>1, ChangesSound DEF NatRule, Configuration
<1>5. ASSUME NEW s \in Subnets, Route(no, s) PROVE ConsoleInv'
  <2> DEFINE d == [config EXCEPT !.routes = IF no THEN @ \ {s} ELSE @ \cup {s}]
  <2>1. d \in Configuration
    BY <1>1 DEF Configuration
  <2>. QED BY <1>1, <1>5, <2>1, ChangesSound DEF Route, Configuration
<1>6. ASSUME NEW i \in Interfaces, Passive(no, i) PROVE ConsoleInv'
  <2> DEFINE d == [config EXCEPT !.passive = IF no THEN @ \ {i} ELSE @ \cup {i}]
  <2>1. d \in Configuration
    BY <1>1 DEF Configuration
  <2>2. Refused(no) \/ Changes(no, d)
    BY <1>6 DEF Passive
  <2>. QED BY <1>1, <2>1, <2>2, ChangesSound, RefusedSound DEF Refused, Configuration
<1>. QED BY <1>2, <1>3, <1>4, <1>5, <1>6

\* Lines that move between the modes, or do nothing.
LEMMA MovesSound ==
  ASSUME ConsoleInv, NEW no \in BOOLEAN,
         \/ BadLine(no) \/ Exit(no) \/ End(no) \/ Enable(no) \/ Configure(no)
         \/ Show(no) \/ Ping(no) \/ Line(no) \/ LineSetting(no)
         \/ \E i \in Interfaces : Interface(no, i)
  PROVE  ConsoleInv'
<1>1. ASSUME BadLine(no) PROVE ConsoleInv'
  BY <1>1, RefusedSound DEF BadLine, Refused
<1>2. ASSUME Exit(no) PROVE ConsoleInv'
  <2>1. Parent(session.mode) \in {"user", "priv", "global"}
    BY DEF Parent
  <2>. QED BY <1>2, <2>1, GoesSound DEF Exit, Leave
<1>3. ASSUME \/ End(no) \/ Enable(no) \/ Configure(no) \/ Line(no) PROVE ConsoleInv'
  BY <1>3, GoesSound DEF End, Enable, Configure, Line
<1>4. ASSUME Show(no) \/ Ping(no) \/ LineSetting(no) PROVE ConsoleInv'
  BY <1>4, StaysSound DEF Show, Ping, LineSetting
<1>5. ASSUME NEW i \in Interfaces, Interface(no, i) PROVE ConsoleInv'
  <2>1. Sound(In("interface", i), config)
    BY DEF ConsoleInv, Sound, Has, In
  <2>. QED BY <1>5, <2>1, ResultSound DEF Interface, Enters
<1>. QED BY <1>1, <1>2, <1>3, <1>4, <1>5

-----------------------------------------------------------------------------
(* The theorems *)

LEMMA ConsoleStarts == ConsoleInit => ConsoleInv
<1> SUFFICES ASSUME ConsoleInit PROVE ConsoleInv
  OBVIOUS
<1>1. config \in Configuration
  BY DEF ConsoleInit, Configuration, PortSettings, Untouched, NotRunning
<1>2. \A i \in Interfaces : config.ports[i].addr = Unset
  BY DEF ConsoleInit, Untouched
<1>3. Apart(config)
  BY <1>2, ConsoleAssumption DEF Apart
<1>4. Has(session, config)
  BY DEF ConsoleInit, Start, Has
<1>. QED BY <1>1, <1>3, <1>4 DEF ConsoleInv, Sound, ConsoleInit

LEMMA ConsoleStep == ConsoleInv /\ [ConsoleNext]_consoleVars => ConsoleInv'
<1> SUFFICES ASSUME ConsoleInv, [ConsoleNext]_consoleVars PROVE ConsoleInv'
  OBVIOUS
<1>1. CASE UNCHANGED consoleVars
  BY <1>1 DEF consoleVars, ConsoleInv, Sound, Has, Apart, HasVlan, HasPool
<1>2. CASE Reconnect
  <2>1. session' = Start /\ config' = config /\ changes' = changes
    BY <1>2 DEF Reconnect
  <2>. QED BY <2>1 DEF ConsoleInv, Sound, Has, Apart, Start
<1>3. CASE AddressDhcp
  BY <1>3, PortSound
<1>4. ASSUME NEW no \in BOOLEAN,
             \/ BadLine(no) \/ Exit(no) \/ End(no) \/ Enable(no) \/ Configure(no)
             \/ Show(no) \/ Ping(no) \/ SaveConfig(no) \/ System(no) \/ NatRule(no)
             \/ Line(no) \/ Tune(no) \/ VlanName(no) \/ LineSetting(no)
      PROVE  ConsoleInv'
  BY <1>4, MovesSound, AroundSound, PortSound, VlanNameSound
<1>5. ASSUME NEW no \in BOOLEAN, NEW i \in Interfaces, Interface(no, i) \/ Passive(no, i)
      PROVE  ConsoleInv'
  BY <1>5, MovesSound, AroundSound
<1>6. ASSUME NEW no \in BOOLEAN, NEW v \in Typed,
             Vlan(no, v) \/ AccessVlan(no, v) \/ NativeVlan(no, v)
      PROVE  ConsoleInv'
  BY <1>6, VlanSound, PortSound
<1>7. ASSUME NEW no \in BOOLEAN, NEW s \in Subnets,
             Route(no, s) \/ Address(no, s) \/ Network(no, s) \/ PoolNetwork(no, s)
      PROVE  ConsoleInv'
  BY <1>7, AroundSound, PortSound, NetworkSound, PoolNetworkSound
<1>8. ASSUME NEW no \in BOOLEAN, NEW n \in Names, Pool(no, n) \/ AccessList(no, n)
      PROVE  ConsoleInv'
  BY <1>8, PoolSound, AccessListSound
<1>9. ASSUME NEW no \in BOOLEAN, NEW p \in Protocols, Router(no, p)
      PROVE  ConsoleInv'
  BY <1>9, RouterSound
<1>. QED BY <1>1, <1>2, <1>3, <1>4, <1>5, <1>6, <1>7, <1>8, <1>9 DEF ConsoleNext, Negations

\* The invariant the two results follow from, for any interfaces, subnets, VLANs,
\* names and number of lines.
THEOREM ConsoleInvariant == ConsoleSpec => []ConsoleInv
BY ConsoleStarts, ConsoleStep, PTL DEF ConsoleSpec

\* Whatever is typed in whatever order, the object a mode is on exists until the
\* mode is left (CliSession.leave, to_privileged, and the engine's modes).
THEOREM ModeHasItsObject == ConsoleSpec => []ObjectExists
<1>1. ConsoleInv => ObjectExists
  BY DEF ConsoleInv, Sound, Has, ObjectExists
<1>. QED BY <1>1, ConsoleInvariant, PTL

\* No order of ip address commands puts two interfaces into subnets that overlap
\* (_address_conflict).
THEOREM SubnetsStayApart == ConsoleSpec => []SubnetsApart
<1>1. ConsoleInv => SubnetsApart
  BY DEF ConsoleInv, Sound, Apart, SubnetsApart
<1>. QED BY <1>1, ConsoleInvariant, PTL
=============================================================================
