----------------------------- MODULE FrameWalk ------------------------------
(***************************************************************************)
(* One hop of the packet simulator: the sender's ARP request is flooded,   *)
(* and, once it is answered, the frame is followed through the switches to *)
(* the device that terminates it (Forwarder.resolve_arp and                *)
(* _traverse_switches, services/simulation/forwarding.py); and a DHCP      *)
(* client's Discover (Simulator._find_dhcp_pool, protocols.py).            *)
(*                                                                         *)
(* ARP and frame each put a question to Flooding, with the VLAN they take  *)
(* to be the frame's.  Interfaces have different addresses and MACs.       *)
(***************************************************************************)
EXTENDS Flooding

CONSTANTS
  Addressed,    \* the ports with an IP address
  DefaultVlan   \* 1

ASSUME AddressedAssumption   == Addressed \subseteq Ports
ASSUME DefaultVlanAssumption == DefaultVlan \in Vlans

VARIABLES
  phase,    \* what the simulator is doing
  sender,   \* the port that asks
  target,   \* the port with the address, and the MAC, looked for
  walked,   \* the switches _traverse_switches has been through
  landed    \* the devices it returned: none yet, or one

hop == <<phase, sender, target, walked, landed>>

WalkTypeOK ==
  /\ TypeOK
  /\ phase \in {"idle", "arp", "frame", "landed", "lost", "timeout", "dhcp"}
  /\ sender \in Ports \cup {NoPort} /\ target \in Ports \cup {NoPort}
  /\ walked \in SUBSET Switches
  /\ landed \in SUBSET Devices

WalkInit ==
  /\ Init
  /\ phase = "idle" /\ sender = NoPort /\ target = NoPort
  /\ walked = {} /\ landed = {}

-----------------------------------------------------------------------------
\* The VLAN of a port in a switchport mode, even trunk; other ports have none.
VlanOf(p) == IF port[p].mode = "none" THEN Untagged ELSE port[p].access

\* The simulator answers one call after another.
Ready == Done /\ phase \notin {"arp", "frame"}

Asking(kind, p, t) ==
  /\ phase' = kind /\ sender' = p /\ target' = t
  /\ walked' = {} /\ landed' = {}

\* deliver has chosen the egress p, which is up, and the next hop's address.
ArpRequest(p, t) ==
  /\ Ready
  /\ p \in Addressed /\ port[p].enabled
  /\ t \in Addressed /\ DeviceOf[t] # DeviceOf[p]
  /\ Broadcast(p, VlanOf(p))
  /\ Asking("arp", p, t)

\* The Discover leaves the client's first enabled interface, a host's in VLAN 1.
FirstUp(p) ==
  \E i \in 1..Len(Interfaces[DeviceOf[p]]) :
    /\ Interfaces[DeviceOf[p]][i] = p /\ port[p].enabled
    /\ \A j \in 1..(i - 1) : ~port[Interfaces[DeviceOf[p]][j]].enabled

DhcpDiscover(p) ==
  /\ Ready
  /\ FirstUp(p)
  /\ Broadcast(p, IF port[p].mode = "none" THEN DefaultVlan ELSE port[p].access)
  /\ Asking("dhcp", p, NoPort)

Flood ==
  /\ Step
  /\ UNCHANGED hop

\* The loop of _traverse_switches, at the port q the frame arrives on: it ends
\* at a device that is no switch, or one it has been through.
ArriveInDefaultVlan(q) ==     \* mutant: the frame is taken to be in VLAN 1
  \/ /\ ~IsSwitch(q) \/ DeviceOf[q] \in walked
     /\ phase' = "landed" /\ landed' = {DeviceOf[q]}
     /\ UNCHANGED <<vars, walked>>
  \/ /\ IsSwitch(q) /\ DeviceOf[q] \notin walked
     /\ phase' = "frame" /\ walked' = walked \cup {DeviceOf[q]}
     /\ FloodInto(q, DefaultVlan)
     /\ UNCHANGED landed

Arrive(q) ==
  \/ /\ ~IsSwitch(q) \/ DeviceOf[q] \in walked
     /\ phase' = "landed" /\ landed' = {DeviceOf[q]}
     /\ UNCHANGED <<vars, walked>>
  \/ /\ IsSwitch(q) /\ DeviceOf[q] \notin walked
     /\ phase' = "frame" /\ walked' = walked \cup {DeviceOf[q]}
     /\ FloodInto(q, VlanOf(q))
     /\ UNCHANGED landed

ArpAnswered ==
  /\ phase = "arp" /\ Done /\ target \in ReachedPorts
  /\ Arrive(Peer[sender])
  /\ UNCHANGED <<sender, target>>

ArpTimeout ==
  /\ phase = "arp" /\ Done /\ target \notin ReachedPorts
  /\ phase' = "timeout"
  /\ UNCHANGED <<vars, sender, target, walked, landed>>

\* The switch finds the MAC behind one of its ports ...
SwitchForward ==
  /\ phase = "frame" /\ Done /\ target \in ReachedPorts
  /\ Arrive(target)
  /\ UNCHANGED <<sender, target>>

\* ... or "No port has" it.
FrameLost ==
  /\ phase = "frame" /\ Done /\ target \notin ReachedPorts
  /\ phase' = "lost"
  /\ UNCHANGED <<vars, sender, target, walked, landed>>

WalkNext ==
  \/ \E p, t \in Ports : ArpRequest(p, t)
  \/ \E p \in Ports : DhcpDiscover(p)
  \/ Flood
  \/ ArpAnswered \/ ArpTimeout
  \/ SwitchForward \/ FrameLost

WalkSpec == WalkInit /\ [][WalkNext]_<<vars, hop>>

-----------------------------------------------------------------------------
(* What the trace tells the learner *)

\* The first switch takes the frame in the VLAN it took the request in.  It need
\* not when a host is cabled to a trunk, or ports in two VLANs to one another.
SameVlan ==
  LET q == Peer[sender]
  IN  TagAfter(q, VlanOf(sender)) = TagAfter(q, VlanOf(q))

\* Whoever got an answer to an ARP request gets the frame to the device that
\* answered: the second walk, which starts at the switch and may come back to the
\* sender's port, agrees with the first.  (The owner of the address is no switch;
\* nor is the sender, or the frame's VLAN is decided before the walk branches.)
AnswerMeansDelivery ==
  /\ phase = "lost" /\ ~IsSwitch(target) /\ SameVlan =>
       IsSwitch(sender) /\ ~VlanDecided
  /\ phase = "landed" => landed = {DeviceOf[target]}

\* "A host has no VLAN concept: the frame takes the VLAN of whichever switch
\* access port it arrives on", so an access port that is up admits it.
AccessPortAdmitsHost ==
  Done /\ phase \in {"arp", "dhcp", "timeout"} /\ ~IsSwitch(sender)
       /\ port[sender].mode = "none" /\ Peer[sender] # NoPort
  => LET p == Peer[sender]
     IN  IsSwitch(p) /\ port[p].mode = "access" /\ port[p].enabled
         => p \in ReachedPorts

\* "Switches frames and routes between VLANs": a Layer 3 switch takes the
\* frames for an address of its own once it has answered the ARP request.
LayerThreeSwitchTakesFrames ==
  phase = "lost" => ~IsSwitch(target)
=============================================================================
