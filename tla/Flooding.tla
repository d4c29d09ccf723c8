------------------------------ MODULE Flooding ------------------------------
(***************************************************************************)
(* Broadcast domains in the packet simulator: Network.broadcast_domain,    *)
(* flood_into and _flood (services/simulation/network.py), the breadth-    *)
(* first walk of a frame through switches that stops where the frame       *)
(* terminates, keeps to the VLAN of the port it came in on and must end    *)
(* whatever loops the learner has cabled.                                  *)
(*                                                                         *)
(* A question is put to one configuration of the ports after another.  An  *)
(* action is one turn of a loop of _flood: a port taken from the queue, or *)
(* one interface of a switch considered.                                   *)
(***************************************************************************)
EXTENDS Integers, Sequences

CONSTANTS
  Ports,          \* the (device, interface) pairs that can carry traffic
  Devices,
  DeviceOf,       \* the device of each port
  Interfaces,     \* a device's ports in the order of its interfaces dict
  Switches,       \* the devices whose kind is in SWITCHING_KINDS
  Peer,           \* the far end of a port's usable link, or NoPort
  Vlans,
  Untagged,       \* vlan=None: a host does not tag its frames
  NoPort,
  Configurations  \* the settings of all ports that learners may choose

Settings == [enabled : BOOLEAN, mode : {"none", "access", "trunk"},
             access : Vlans, allowed : SUBSET Vlans]

ASSUME PortsAssumption ==
  /\ DeviceOf \in [Ports -> Devices]
  /\ Interfaces \in [Devices -> Seq(Ports)]
  /\ \A p \in Ports : \E i \in 1..Len(Interfaces[DeviceOf[p]]) :
       Interfaces[DeviceOf[p]][i] = p
  /\ \A d \in Devices : \A i \in 1..Len(Interfaces[d]) :
       DeviceOf[Interfaces[d][i]] = d
ASSUME PeerAssumption ==
  /\ NoPort \notin Ports
  /\ Peer \in [Ports -> Ports \cup {NoPort}]
  /\ \A p \in Ports : Peer[p] # NoPort => Peer[Peer[p]] = p
ASSUME VlansAssumption          == Untagged \notin Vlans
ASSUME ConfigurationsAssumption == Configurations \subseteq [Ports -> Settings]

VARIABLES
  port,      \* the settings of each port; a walk does not change them
  origin,    \* the port the frame left ("out") or arrived on ("in")
  way,
  vlan,      \* the VLAN the question names
  queue,     \* <<port, tag>> pairs still to visit
  seen,      \* the ports taken from the queue, and origin
  reached,   \* the ports of the answer, in order
  here,      \* the port whose switch is flooding the frame on, or NoPort
  tag,       \* the VLAN the frame has there
  next       \* the next of the switch's interfaces to consider

question == <<port, origin, way, vlan>>
walk     == <<queue, seen, reached, here, tag, next>>
vars     == <<question, walk>>

Tags == Vlans \cup {Untagged}

TypeOK ==
  /\ port \in [Ports -> Settings]
  /\ origin \in Ports \cup {NoPort}
  /\ way \in {"out", "in"}
  /\ vlan \in Tags
  /\ queue \in Seq(Ports \X Tags)
  /\ seen \in SUBSET Ports
  /\ reached \in Seq(Ports)
  /\ here \in Ports \cup {NoPort}
  /\ tag \in Tags
  /\ next \in Nat \ {0}

Init ==
  /\ port \in Configurations
  /\ origin = NoPort /\ way = "out" /\ vlan = Untagged
  /\ queue = <<>> /\ seen = {} /\ reached = <<>>
  /\ here = NoPort /\ tag = Untagged /\ next = 1

-----------------------------------------------------------------------------
(* What one port does with a frame *)

IsSwitch(p) == DeviceOf[p] \in Switches

\* An empty allow-list means all VLANs.
CarriesVlan(p, v) ==
  IF port[p].mode = "trunk" THEN port[p].allowed = {} \/ v \in port[p].allowed
                            ELSE port[p].access = v

\* A frame arriving on p with tag v is not dropped there.
AdmitsAsAccess(p, v) ==     \* mutant: a trunk is taken for an access port
  /\ port[p].enabled
  /\ IsSwitch(p) /\ v # Untagged /\ port[p].mode # "none" => port[p].access = v

Admits(p, v) ==
  /\ port[p].enabled
  /\ IsSwitch(p) /\ v # Untagged /\ port[p].mode # "none" => CarriesVlan(p, v)

\* An untagged frame takes the VLAN of the access port it arrives on.
TagAfter(p, v) ==
  IF IsSwitch(p) /\ port[p].mode = "access" /\ v = Untagged
  THEN port[p].access ELSE v

\* The switch that got a frame of VLAN v on p floods it out of e.
Leaves(p, e, v) ==
  /\ e # p /\ port[e].enabled
  /\ v # Untagged /\ port[e].mode # "none" => CarriesVlan(e, v)
  /\ Peer[e] # NoPort

-----------------------------------------------------------------------------
(* The walk *)

Done == queue = <<>> /\ here = NoPort

\* broadcast_domain(p, v): the frame is on its way to the far end of p's link.
Broadcast(p, v) ==
  /\ Done
  /\ origin' = p /\ way' = "out" /\ vlan' = v
  /\ queue' = IF Peer[p] = NoPort THEN <<>> ELSE << <<Peer[p], v>> >>
  /\ seen' = {p} /\ reached' = <<>>
  /\ UNCHANGED <<port, here, tag, next>>

\* flood_into(p, v): the switch of p has the frame.  Its own loop over the
\* interfaces is the one every later switch runs (FloodOut).
FloodInto(p, v) ==
  /\ Done
  /\ origin' = p /\ way' = "in" /\ vlan' = v
  /\ seen' = {p} /\ reached' = <<>>
  /\ here' = p /\ next' = 1
  /\ tag' = TagAfter(p, v)
  /\ UNCHANGED <<port, queue>>

\* Take a port from the queue; each port is looked at once.
Visit ==
  /\ here = NoPort /\ queue # <<>>
  /\ queue' = Tail(queue)
  /\ LET p == Head(queue)[1]
         v == Head(queue)[2]
     IN  /\ seen' = seen \cup {p}
         /\ \/ /\ p \in seen \/ ~Admits(p, v)
               /\ UNCHANGED <<reached, here, tag, next>>
            \/ /\ p \notin seen /\ Admits(p, v)
               /\ reached' = Append(reached, p)
               /\ IF IsSwitch(p)
                  THEN here' = p /\ tag' = TagAfter(p, v) /\ next' = 1
                  ELSE UNCHANGED <<here, tag, next>>
  /\ UNCHANGED question

\* Consider the next interface of the switch the frame is in.
FloodOut ==
  /\ here # NoPort
  /\ next <= Len(Interfaces[DeviceOf[here]])
  /\ LET e == Interfaces[DeviceOf[here]][next]
     IN  queue' = IF Leaves(here, e, tag) /\ Peer[e] \notin seen
                  THEN Append(queue, <<Peer[e], tag>>) ELSE queue
  /\ next' = next + 1
  /\ UNCHANGED <<question, seen, reached, here, tag>>

FloodedOut ==
  /\ here # NoPort
  /\ next > Len(Interfaces[DeviceOf[here]])
  /\ here' = NoPort /\ tag' = Untagged /\ next' = 1
  /\ UNCHANGED <<question, queue, seen, reached>>

Step == Visit \/ FloodOut \/ FloodedOut

Next ==
  \/ \E p \in Ports, v \in Tags : Broadcast(p, v) \/ (IsSwitch(p) /\ FloodInto(p, v))
  \/ Step

Spec == Init /\ [][Next]_vars

-----------------------------------------------------------------------------
(* The broadcast domain the walk should find *)

\* The VLAN of the frame: the one it was sent in, or the one of the access
\* port that takes it first.
FrameVlan ==
  IF way = "in" THEN TagAfter(origin, vlan)
  ELSE IF Peer[origin] # NoPort THEN TagAfter(Peer[origin], vlan)
  ELSE vlan

\* That VLAN is decided before the walk branches.
VlanDecided ==
  FrameVlan # Untagged \/ \A p \in Ports : port[p].mode # "access"

\* A port that takes part in the frame's VLAN, or knows none.
Member(p) ==
  /\ port[p].enabled
  /\ IsSwitch(p) /\ port[p].mode # "none" /\ FrameVlan # Untagged =>
       CarriesVlan(p, FrameVlan)

\* One switch away: in on p, out of another member, over its link to q.
NextHop(p, q) ==
  /\ IsSwitch(p) /\ Member(q) /\ q # origin
  /\ \E e \in Ports : /\ DeviceOf[e] = DeviceOf[p] /\ e # p
                      /\ Member(e) /\ Peer[e] = q

\* Where the frame is before it has gone through any switch.
FirstHop(q) ==
  IF way = "in" THEN NextHop(origin, q)
                ELSE Peer[origin] = q /\ Member(q) /\ q # origin

ReachedPorts == {reached[i] : i \in 1..Len(reached)}

\* A VLAN is a separate broadcast domain: whatever the order in which loops
\* bring the frame round, each port that gets it is a member of its VLAN, next
\* to the sender or to a port that got it before.
FloodKeepsToDomain ==
  origin # NoPort /\ VlanDecided =>
    \A i \in 1..Len(reached) :
      \/ FirstHop(reached[i])
      \/ \E j \in 1..(i - 1) : NextHop(reached[j], reached[i])

\* ... and, when the walk is over, no such port is missing, though _flood marks
\* a port seen before it looks at the VLAN of the copy that came first.
FloodFillsDomain ==
  Done /\ origin # NoPort /\ VlanDecided =>
    \A q \in Ports :
      FirstHop(q) \/ (\E p \in ReachedPorts : NextHop(p, q)) => q \in ReachedPorts

\* A redundant cable is no broadcast storm: a port gets the frame at most once,
\* and the sender's own never.
EachPortOnce ==
  /\ \A i, j \in 1..Len(reached) : i # j => reached[i] # reached[j]
  /\ origin \notin ReachedPorts

\* The three together: what _flood answers is the broadcast domain of the frame,
\* whatever loops the learner has cabled and whichever copy came first.
FloodCoversDomain == FloodKeepsToDomain /\ FloodFillsDomain /\ EachPortOnce
=============================================================================
