---------------------------- MODULE DeviceConsole ----------------------------
(***************************************************************************)
(* The console of one device: the command engine                           *)
(* (services/cli/engine.py, session.py, parsing.py), the endpoint in front *)
(* of it (api/v1/endpoints/devices.py) and the terminal that holds both    *)
(* the session and the configuration between two lines                     *)
(* (components/cli-terminal.tsx).                                          *)
(*                                                                         *)
(* A line is typed in a mode, about the object the mode is on, and may     *)
(* begin with `no`.  The engine answers with a session, a configuration    *)
(* and whether it changed; the terminal takes the configuration over only  *)
(* when it did.  Lines are not spelled out: an action is a command, its    *)
(* parameters are what its tokens say.                                     *)
(***************************************************************************)
EXTENDS Naturals, FiniteSets

CONSTANTS
  Interfaces,    \* names expand_interface knows for the device
  Subnets,       \* subnets an address may be given in
  Overlaps,      \* pairs of subnets that overlap
  MaxVlan,       \* MAX_VLAN_ID; numbers up to one more can be typed
  Names,         \* names of pools and access lists
  MaxChanges,    \* bound on the lines that change something
  Unset

ASSUME ConsoleAssumption ==
  /\ MaxVlan \in Nat \ {0} /\ MaxChanges \in Nat
  /\ Unset \notin Interfaces \cup Subnets \cup Names
  /\ \A S \in SUBSET Subnets : S # Unset
  /\ Overlaps \subseteq Subnets \X Subnets
  /\ \A s \in Subnets : <<s, s>> \in Overlaps
  /\ \A o \in Overlaps : <<o[2], o[1]>> \in Overlaps

VARIABLES
  session,   \* CliSession: the mode and the object it is on
  config,    \* DeviceConfig
  last,      \* history: the last line, whether it was negated and refused
  changes    \* how many lines changed something, for the bound

consoleVars == <<session, config, last, changes>>

Protocols == {"ospf", "eigrp", "rip"}
Typed     == 0..(MaxVlan + 1)
VlanIds   == 1..MaxVlan
Negations == BOOLEAN

\* An interface: its address, the VLAN numbers of its port (0 when unset), and
\* how many times everything else about it was set.
Untouched == [addr |-> Unset, access |-> 0, native |-> 0, rest |-> 0]
NotRunning == Unset

Start == [mode |-> "user", on |-> Unset]
In(m, o) == [mode |-> m, on |-> o]

ConsoleInit ==
  /\ session = Start
  /\ config = [ports |-> [i \in Interfaces |-> Untouched], vlans |-> {}, routes |-> {},
               routing |-> [p \in Protocols |-> NotRunning], passive |-> {},
               acls |-> {}, rules |-> 0, pools |-> {}, system |-> 0, saved |-> FALSE]
  /\ last = [no |-> FALSE, refused |-> FALSE, session |-> Start]
  /\ changes = 0

-----------------------------------------------------------------------------
(* What a line does *)

\* CommandResult, and onSuccess in the terminal.
Applied(changed, c) == IF changed THEN c ELSE config
Result(no, s, c, changed, refused) ==
  /\ session' = s
  /\ config' = Applied(changed, c)
  /\ last' = [no |-> no, refused |-> refused, session |-> session]
  /\ changes' = IF config' = config THEN changes ELSE changes + 1
  /\ changes' <= MaxChanges

Goes(no, s)       == Result(no, s, config, FALSE, FALSE)
Changes(no, c)    == Result(no, session, c, TRUE, FALSE)
Enters(no, s, c)  == Result(no, s, c, TRUE, FALSE)
RefusedWith(no, c) == Result(no, session, c, FALSE, TRUE)
Refused(no)       == RefusedWith(no, config)

\* Lines nobody accepts (wrong word, missing word, bad address), in any mode.
BadLine(no) == session.mode # "line" /\ Refused(no)

\* The terminal is shown again: a new session, the same configuration.
Reconnect ==
  /\ session' = Start
  /\ last' = [no |-> FALSE, refused |-> FALSE, session |-> session]
  /\ UNCHANGED <<config, changes>>

\* PARENT_MODE, leave and to_privileged.
Configuring == session.mode \notin {"user", "priv"}
Parent(m) == CASE m \in {"user", "priv"} -> "user"
               [] m = "global"           -> "priv"
               [] OTHER                  -> "global"
LeaveKeepsObject(s) == [s EXCEPT !.mode = Parent(s.mode)]     \* mutant

Leave(s) == In(Parent(s.mode), Unset)
Exit(no) == Goes(no, Leave(session))
End(no)  == Configuring /\ Goes(no, In("priv", Unset))

-----------------------------------------------------------------------------
(* EXEC modes *)

Enable(no)    == session.mode = "user" /\ Goes(no, In("priv", Unset))
Configure(no) == session.mode = "priv" /\ Goes(no, In("global", Unset))

\* show, and the rest of what changes nothing: ping, ?, clock, terminal, reload.
Show(no) == ~Configuring /\ Goes(no, session)
Ping(no) == ~Configuring /\ Goes(no, session)

\* copy running-config startup-config, write.
SaveConfig(no) == session.mode = "priv" /\ Changes(no, [config EXCEPT !.saved = TRUE])

-----------------------------------------------------------------------------
(* Global configuration *)

Global == session.mode = "global"

\* hostname, enable secret, banner, ip name-server, ip default-gateway.
System(no) == Global /\ Changes(no, [config EXCEPT !.system = 1 - @])

Interface(no, i) == Global /\ Enters(no, In("interface", i), config)

\* vlan <id>.
HasVlan(c, v) == \E w \in c.vlans : w[1] = v
Vlan(no, v) ==
  /\ Global
  /\ IF v \notin VlanIds THEN Refused(no)
     ELSE IF no THEN Changes(no, [config EXCEPT !.vlans = {w \in @ : w[1] # v}])
     ELSE Enters(no, In("vlan", v),
            IF HasVlan(config, v) THEN config
            ELSE [config EXCEPT !.vlans = @ \cup {<<v, 0>>}])

\* ip route: the route to a subnet is replaced.
Route(no, s) ==
  /\ Global
  /\ Changes(no, [config EXCEPT !.routes = IF no THEN @ \ {s} ELSE @ \cup {s}])

\* ip nat inside source.
NatRule(no) == Global /\ Changes(no, [config EXCEPT !.rules = @ + 1])

\* ip dhcp pool.
HasPool(c, n) == \E p \in c.pools : p[1] = n
Pool(no, n) ==
  /\ Global
  /\ Enters(no, In("dhcp", n),
       IF HasPool(config, n) THEN config
       ELSE [config EXCEPT !.pools = @ \cup {<<n, Unset>>}])

\* router <protocol>.
Router(no, p) ==
  /\ Global
  /\ IF no THEN Changes(no, [config EXCEPT !.routing[p] = NotRunning,
                               !.passive = IF p = "ospf" THEN {} ELSE @])
     ELSE Enters(no, In("router", p),
            IF config.routing[p] = NotRunning THEN [config EXCEPT !.routing[p] = {}]
                                              ELSE config)

\* access-list: the list is there before its entry is understood.
AccessList(no, n) ==
  /\ Global
  /\ IF no THEN Changes(no, [config EXCEPT !.acls = {a \in @ : a[1] # n}])
     ELSE LET entries == {a \in config.acls : a[1] = n}
              size    == IF entries = {} THEN 0 ELSE (CHOOSE a \in entries : TRUE)[2]
          IN  \/ Changes(no, [config EXCEPT !.acls = (@ \ entries) \cup {<<n, size + 1>>}])
              \/ RefusedWith(no, [config EXCEPT !.acls = (@ \ entries) \cup {<<n, size>>}])

Line(no) == Global /\ Goes(no, In("line", Unset))

-----------------------------------------------------------------------------
(* Interface configuration *)

Port      == config.ports[session.on]
OnPort    == session.mode = "interface"
Set(p)    == [config EXCEPT !.ports[session.on] = p]

\* ip address: not in a subnet that another interface is in.
SameSubnet(s) ==     \* mutant: only the very same subnet is a conflict
  \E i \in Interfaces \ {session.on} : config.ports[i].addr = s

AddressConflict(s) ==
  \E i \in Interfaces \ {session.on} : <<config.ports[i].addr, s>> \in Overlaps
Address(no, s) ==
  /\ OnPort
  /\ IF no THEN Changes(no, Set([Port EXCEPT !.addr = Unset]))
     ELSE IF AddressConflict(s) THEN Refused(no)
     ELSE Changes(no, Set([Port EXCEPT !.addr = s]))
AddressDhcp == OnPort /\ Changes(FALSE, Set([Port EXCEPT !.addr = Unset]))

\* shutdown, description, speed, duplex, ip nat, ip access-group, switchport mode.
Tune(no) == OnPort /\ Changes(no, Set([Port EXCEPT !.rest = 1 - @]))

\* switchport access vlan is checked; trunk native vlan and voice vlan are not.
AccessVlan(no, v) ==
  /\ OnPort
  /\ IF v \notin VlanIds THEN Refused(no)
     ELSE Changes(no, Set([Port EXCEPT !.access = IF no THEN 0 ELSE v]))
NativeVlan(no, v) == OnPort /\ Changes(no, Set([Port EXCEPT !.native = v]))

-----------------------------------------------------------------------------
(* The other modes *)

Named(w) == IF w[1] = session.on THEN <<w[1], 1>> ELSE w
VlanName(no) ==
  /\ session.mode = "vlan"
  /\ Changes(no, [config EXCEPT !.vlans = {Named(w) : w \in @}])

\* network, in a routing process; `no` makes no difference.
Network(no, s) ==
  /\ session.mode = "router"
  /\ Changes(no, [config EXCEPT !.routing[session.on] =
       (IF @ = NotRunning THEN {} ELSE @) \cup {s}])

\* passive-interface is OSPF's, whatever process the session is on.
Passive(no, i) ==
  /\ session.mode = "router"
  /\ IF config.routing["ospf"] = NotRunning THEN Refused(no)
     ELSE Changes(no, [config EXCEPT !.passive = IF no THEN @ \ {i} ELSE @ \cup {i}])

PoolNetwork(no, s) ==
  /\ session.mode = "dhcp"
  /\ IF ~HasPool(config, session.on) THEN Refused(no)
     ELSE Changes(no, [config EXCEPT !.pools =
            {IF p[1] = session.on THEN <<p[1], s>> ELSE p : p \in @}])

LineSetting(no) == session.mode = "line" /\ Goes(no, session)

-----------------------------------------------------------------------------
(* `no` cannot stand alone before exit, end and the EXEC commands: the negation
   is taken off and forgotten. *)
ConsoleNext ==
  \/ Reconnect \/ AddressDhcp
  \/ \E no \in Negations :
       \/ BadLine(no) \/ Exit(no) \/ End(no) \/ Enable(no) \/ Configure(no) \/ Show(no)
       \/ Ping(no) \/ SaveConfig(no) \/ System(no) \/ NatRule(no) \/ Line(no) \/ Tune(no)
       \/ VlanName(no) \/ LineSetting(no)
       \/ \E i \in Interfaces : Interface(no, i) \/ Passive(no, i)
       \/ \E v \in Typed : Vlan(no, v) \/ AccessVlan(no, v) \/ NativeVlan(no, v)
       \/ \E s \in Subnets : Route(no, s) \/ Address(no, s) \/ Network(no, s)
                             \/ PoolNetwork(no, s)
       \/ \E n \in Names : Pool(no, n) \/ AccessList(no, n)
       \/ \E p \in Protocols : Router(no, p)

ConsoleSpec == ConsoleInit /\ [][ConsoleNext]_consoleVars

-----------------------------------------------------------------------------
(* Properties *)

ConsoleTypeOK ==
  /\ session.mode \in {"user", "priv", "global", "interface", "vlan", "router", "line", "dhcp"}
  /\ config.ports \in [Interfaces -> [addr : Subnets \cup {Unset}, access : 0..MaxVlan,
                                      native : Typed, rest : 0..1]]
  /\ config.vlans \subseteq VlanIds \X (0..1)
  /\ config.routes \subseteq Subnets /\ config.passive \subseteq Interfaces
  /\ \A p \in Protocols : config.routing[p] = NotRunning \/ config.routing[p] \subseteq Subnets
  /\ config.pools \subseteq Names \X (Subnets \cup {Unset})
  /\ config.acls \subseteq Names \X (0..MaxChanges) /\ config.rules \in 0..MaxChanges
  /\ config.system \in 0..1 /\ config.saved \in BOOLEAN
  /\ changes \in 0..MaxChanges

\* The object a mode is on exists in the configuration as long as the session is
\* on it, and no object is left over from a mode that was left: what is typed
\* next has something to apply to (leave, to_privileged, _global_vlan, ...).
ObjectExists ==
  CASE session.mode = "interface" -> session.on \in Interfaces
    [] session.mode = "vlan"      -> HasVlan(config, session.on)
    [] session.mode = "dhcp"      -> HasPool(config, session.on)
    [] session.mode = "router"    -> config.routing[session.on] # NotRunning
    [] OTHER                      -> session.on = Unset

\* "IOS refuses overlapping subnets on two interfaces": as long as addresses are
\* given at the console, no two interfaces are in subnets that overlap, in
\* whatever order they were given.
SubnetsApart ==
  \A i, j \in Interfaces :
    i # j => <<config.ports[i].addr, config.ports[j].addr>> \notin Overlaps

\* A line that is answered with an error leaves session and configuration alone,
\* also when the engine had begun to change its copy (_access_list).
RefusedChangesNothing ==
  [][last'.refused => session' = session /\ config' = config]_consoleVars

\* "VLAN ids must be in range" (schemas/device_config.py): what the console
\* writes is accepted again with the next request.
ConfigAccepted ==
  \A i \in Interfaces : {config.ports[i].access, config.ports[i].native} \subseteq 0..MaxVlan

\* "`no ...` negates; handled per-command so each knows its own inverse"
\* (engine.py): a negated line adds nothing.
NoAddsNothing ==
  [][last'.no =>
       /\ config'.rules <= config.rules
       /\ \A p \in Protocols : config'.routing[p] # NotRunning =>
            config.routing[p] # NotRunning /\ config'.routing[p] \subseteq config.routing[p]
       /\ config'.routes \subseteq config.routes]_consoleVars
=============================================================================
