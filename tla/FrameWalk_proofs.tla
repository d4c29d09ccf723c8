-------------------------- MODULE FrameWalk_proofs --------------------------
(***************************************************************************)
(* Proofs about Flooding, for every wiring, every configuration and every  *)
(* order of the interfaces: _flood answers exactly the broadcast domain,   *)
(* each port once.                                                         *)
(*                                                                         *)
(* The invariant says of a walk under way what the queue stands for: the   *)
(* entries are dropped or let in as members of the frame's VLAN are, they  *)
(* are joined to ports already reached, and whatever is next to such a     *)
(* port has been looked at or is in the queue.                             *)
(*                                                                         *)
(* Then about FrameWalk: every step of a hop is a step of Flooding or      *)
(* leaves it alone, so what holds of one walk holds of every ARP request,  *)
(* Discover and switched frame.  And an answered request means that the    *)
(* frame arrives: the frame's walk is the request's, but for the entries   *)
(* of the sender's port, which is already seen in the one.                 *)
(***************************************************************************)
EXTENDS FrameWalk, TLAPS, SequenceTheorems, WellFoundedInduction

Queued(q)  == \E i \in 1..Len(queue) : queue[i][1] = q
Pending(q) == q \in seen \/ Queued(q)

\* The ports whose switch has the frame, or had it.
Entered == ReachedPorts \cup (IF way = "in" THEN {origin} ELSE {})

Joined(q) == FirstHop(q) \/ \E p \in ReachedPorts : NextHop(p, q)

\* An entry is treated at its port as the frame's VLAN deserves.
Agrees(q, v) == (Admits(q, v) <=> Member(q)) /\ TagAfter(q, v) = FrameVlan

EntriesAgree == \A i \in 1..Len(queue) : Agrees(queue[i][1], queue[i][2])

EntriesJoined ==
  \A i \in 1..Len(queue) :
    Member(queue[i][1]) /\ queue[i][1] # origin => Joined(queue[i][1])

ReachedJoined ==
  \A i \in 1..Len(reached) :
    FirstHop(reached[i]) \/ \E j \in 1..(i - 1) : NextHop(reached[j], reached[i])

HereEntered ==
  here # NoPort => here \in Entered /\ IsSwitch(here) /\ tag = FrameVlan

SeenReached == \A q \in seen : Member(q) /\ q # origin => q \in ReachedPorts

EnteredFlooded ==
  \A p \in Entered, q \in Ports : p # here /\ NextHop(p, q) => Pending(q)

HereFlooded ==
  here # NoPort =>
    \A i \in 1..Len(Interfaces[DeviceOf[here]]) :
      i < next /\ Leaves(here, Interfaces[DeviceOf[here]][i], FrameVlan)
        => Pending(Peer[Interfaces[DeviceOf[here]][i]])

FirstPending == way = "out" /\ Peer[origin] # NoPort => Pending(Peer[origin])

\* What the walk knows when the frame's VLAN is decided.
DomainInv ==
  /\ EntriesAgree /\ EntriesJoined /\ ReachedJoined
  /\ HereEntered /\ SeenReached
  /\ EnteredFlooded /\ HereFlooded /\ FirstPending

OnceInv ==
  /\ \A i \in 1..Len(reached) : reached[i] \in seen
  /\ EachPortOnce
  /\ origin # NoPort => origin \in seen
  /\ origin = NoPort => Done /\ reached = <<>>

FloodInv ==
  /\ TypeOK
  /\ OnceInv
  /\ origin # NoPort /\ VlanDecided => DomainInv

-----------------------------------------------------------------------------
(* Ports and VLANs *)

\* What Settings says of one port.
LEMMA SettingTypes ==
  ASSUME TypeOK, NEW p \in Ports
  PROVE  /\ port[p].enabled \in BOOLEAN
         /\ port[p].mode \in {"none", "access", "trunk"}
         /\ port[p].access \in Vlans
<1>1. port[p] \in Settings
  BY DEF TypeOK
<1> QED BY <1>1 DEF Settings

LEMMA TagTypes ==
  ASSUME TypeOK, NEW p \in Ports, NEW v \in Tags
  PROVE  TagAfter(p, v) \in Tags
BY SettingTypes DEF TagAfter, Tags

LEMMA FrameVlanType ==
  ASSUME TypeOK, origin \in Ports
  PROVE  FrameVlan \in Tags
<1>1. Peer[origin] # NoPort => Peer[origin] \in Ports
  BY PeerAssumption
<1>2. vlan \in Tags
  BY DEF TypeOK
<1> QED BY <1>1, <1>2, TagTypes DEF FrameVlan

\* Once the VLAN is decided a frame that has it is let in by its members, and
\* keeps it.
LEMMA DecidedAgrees ==
  ASSUME TypeOK, VlanDecided, NEW q \in Ports
  PROVE  Agrees(q, FrameVlan)
<1>1. Admits(q, FrameVlan) <=> Member(q)
  BY DEF Admits, Member
<1>2. TagAfter(q, FrameVlan) = FrameVlan
  BY DEF TagAfter, VlanDecided
<1> QED BY <1>1, <1>2 DEF Agrees

\* The first port takes the frame with the VLAN of the question.
LEMMA FirstAgrees ==
  ASSUME TypeOK, origin \in Ports, way = "out", Peer[origin] # NoPort
  PROVE  Agrees(Peer[origin], vlan)
<1> DEFINE q == Peer[origin]
<1>1. q \in Ports
  BY PeerAssumption
<1>2. FrameVlan = TagAfter(q, vlan)
  BY DEF FrameVlan
<1>3. CASE IsSwitch(q) /\ port[q].mode = "access" /\ vlan = Untagged
  <2>1. FrameVlan = port[q].access /\ FrameVlan # Untagged
    BY <1>1, <1>2, <1>3, SettingTypes, VlansAssumption DEF TagAfter
  <2>2. CarriesVlan(q, FrameVlan)
    BY <1>3, <2>1 DEF CarriesVlan
  <2> QED BY <1>2, <1>3, <2>1, <2>2 DEF Agrees, Admits, Member
<1>4. CASE ~(IsSwitch(q) /\ port[q].mode = "access" /\ vlan = Untagged)
  <2>1. FrameVlan = vlan
    BY <1>2, <1>4 DEF TagAfter
  <2> QED BY <1>2, <2>1 DEF Agrees, Admits, Member
<1> QED BY <1>3, <1>4

\* A question does not change while it is answered.
LEMMA SameQuestion ==
  ASSUME UNCHANGED question
  PROVE  /\ FrameVlan' = FrameVlan /\ VlanDecided' = VlanDecided
         /\ origin' = origin /\ way' = way /\ port' = port /\ vlan' = vlan
         /\ \A q : Member(q)' = Member(q) /\ FirstHop(q)' = FirstHop(q)
         /\ \A p, q : NextHop(p, q)' = NextHop(p, q)
         /\ \A q, v : Agrees(q, v)' = Agrees(q, v)
         /\ \A p, e, v : Leaves(p, e, v)' = Leaves(p, e, v)
BY DEF question, FrameVlan, VlanDecided, Member, FirstHop, NextHop, Agrees,
       Leaves, Admits, TagAfter, CarriesVlan, IsSwitch

\* Of two ports of one switch, a link out of the one leads to the next hop of
\* the other.
LEMMA HopLeaves ==
  ASSUME TypeOK, NEW p \in Ports, NEW q \in Ports, NextHop(p, q)
  PROVE  \E i \in 1..Len(Interfaces[DeviceOf[p]]) :
           /\ Leaves(p, Interfaces[DeviceOf[p]][i], FrameVlan)
           /\ Peer[Interfaces[DeviceOf[p]][i]] = q
<1>1. PICK e \in Ports : /\ DeviceOf[e] = DeviceOf[p] /\ e # p
                         /\ Member(e) /\ Peer[e] = q
  BY DEF NextHop
<1>2. PICK i \in 1..Len(Interfaces[DeviceOf[p]]) : Interfaces[DeviceOf[p]][i] = e
  BY <1>1, PortsAssumption
<1>3. IsSwitch(e) /\ q # NoPort
  BY <1>1, PeerAssumption DEF NextHop, IsSwitch
<1>4. Leaves(p, e, FrameVlan)
  BY <1>1, <1>3 DEF Leaves, Member
<1> QED BY <1>1, <1>2, <1>4

LEMMA LeavesIsHop ==
  ASSUME TypeOK, NEW p \in Ports, IsSwitch(p),
         NEW e \in Ports, DeviceOf[e] = DeviceOf[p],
         Leaves(p, e, FrameVlan), Member(Peer[e]), Peer[e] # origin
  PROVE  NextHop(p, Peer[e])
<1>1. Member(e)
  BY DEF Leaves, Member
<1> QED BY <1>1 DEF NextHop, Leaves

-----------------------------------------------------------------------------
(* The beginning of a walk *)

LEMMA FloodInit == Init => FloodInv
<1> SUFFICES ASSUME Init PROVE FloodInv
  OBVIOUS
<1>1. TypeOK
  <2>1. port \in [Ports -> Settings]
    BY ConfigurationsAssumption DEF Init
  <2>2. queue \in Seq(Ports \X Tags) /\ reached \in Seq(Ports)
    BY DEF Init
  <2>3. vlan \in Tags /\ tag \in Tags
    BY DEF Init, Tags
  <2> QED BY <2>1, <2>2, <2>3 DEF Init, TypeOK
<1>2. OnceInv
  BY PeerAssumption DEF Init, OnceInv, EachPortOnce, ReachedPorts, Done
<1> QED BY <1>1, <1>2 DEF FloodInv, Init

LEMMA BroadcastPreserves ==
  ASSUME FloodInv, NEW p \in Ports, NEW v \in Tags, Broadcast(p, v)
  PROVE  FloodInv'
<1> USE DEF Broadcast
<1>1. TypeOK'
  <2>1. Peer[p] # NoPort => Peer[p] \in Ports
    BY PeerAssumption
  <2>2. queue' \in Seq(Ports \X Tags)
    <3>1. CASE Peer[p] = NoPort
      BY <3>1
    <3>2. CASE Peer[p] # NoPort
      <4>1. <<Peer[p], v>> \in Ports \X Tags
        BY <2>1, <3>2
      <4> QED BY <3>2, <4>1
    <3> QED BY <3>1, <3>2
  <2>3. reached' \in Seq(Ports) /\ seen' \in SUBSET Ports
    OBVIOUS
  <2> QED BY <2>2, <2>3 DEF FloodInv, TypeOK
<1>2. OnceInv'
  BY PeerAssumption DEF OnceInv, EachPortOnce, ReachedPorts
<1>3. ASSUME VlanDecided' PROVE DomainInv'
  <2>1. /\ origin' = p /\ way' = "out" /\ vlan' = v /\ here' = NoPort
        /\ seen' = {p} /\ reached' = <<>> /\ p # NoPort
    BY PeerAssumption DEF Done
  <2>2. /\ Peer[p] = NoPort => queue' = <<>>
        /\ Peer[p] # NoPort => queue' = << <<Peer[p], v>> >>
    OBVIOUS
  <2>3. \A i \in 1..Len(queue') :
          Peer[p] # NoPort /\ queue'[i][1] = Peer[p] /\ queue'[i][2] = v
    BY <2>2
  <2>4. EntriesAgree'
    <3>1. Peer[p] # NoPort => Agrees(Peer[p], v)'
      <4>1. (origin \in Ports /\ way = "out" /\ Peer[origin] # NoPort
              => Agrees(Peer[origin], vlan))'
        BY <1>1, FirstAgrees, PTL
      <4> QED BY <2>1, <4>1
    <3> QED BY <2>3, <3>1 DEF EntriesAgree
  <2>5. EntriesJoined'
    BY <2>1, <2>3 DEF EntriesJoined, Joined, FirstHop
  <2>6. ReachedJoined' /\ EnteredFlooded'
    BY <2>1 DEF ReachedJoined, EnteredFlooded, Entered, ReachedPorts
  <2>7. HereEntered' /\ SeenReached' /\ HereFlooded'
    BY <2>1 DEF HereEntered, SeenReached, HereFlooded
  <2>8. FirstPending'
    BY <2>1, <2>2 DEF FirstPending, Pending, Queued
  <2> QED BY <2>4, <2>5, <2>6, <2>7, <2>8 DEF DomainInv
<1> QED BY <1>1, <1>2, <1>3 DEF FloodInv

LEMMA FloodIntoPreserves ==
  ASSUME FloodInv, NEW p \in Ports, NEW v \in Tags, IsSwitch(p), FloodInto(p, v)
  PROVE  FloodInv'
<1>1. /\ origin' = p /\ way' = "in" /\ vlan' = v /\ here' = p /\ next' = 1
      /\ seen' = {p} /\ reached' = <<>> /\ queue' = <<>> /\ port' = port
      /\ tag' = TagAfter(p, v) /\ p # NoPort
  BY PeerAssumption DEF FloodInto, Done
<1>2. TypeOK'
  <2>1. TypeOK /\ TagAfter(p, v) \in Tags
    BY TagTypes DEF FloodInv
  <2> QED BY <1>1, <2>1 DEF TypeOK
<1>3. OnceInv'
  BY <1>1 DEF OnceInv, EachPortOnce, ReachedPorts
<1>4. DomainInv'
  <2>1. EntriesAgree' /\ EntriesJoined' /\ ReachedJoined' /\ FirstPending'
    BY <1>1 DEF EntriesAgree, EntriesJoined, ReachedJoined, FirstPending
  <2>2. Entered' = {p}
    BY <1>1 DEF Entered, ReachedPorts
  <2>3. HereEntered'
    BY <1>1, <2>2 DEF HereEntered, FrameVlan, TagAfter, IsSwitch
  <2>4. SeenReached' /\ EnteredFlooded'
    BY <1>1, <2>2 DEF SeenReached, EnteredFlooded
  <2>5. HereFlooded'
    BY <1>1 DEF HereFlooded
  <2> QED BY <2>1, <2>3, <2>4, <2>5 DEF DomainInv
<1> QED BY <1>2, <1>3, <1>4 DEF FloodInv

-----------------------------------------------------------------------------
(* A turn of the loop over the queue *)

LEMMA VisitSteps ==
  ASSUME FloodInv, Visit
  PROVE  \E p \in Ports, v \in Tags :
           /\ origin # NoPort /\ here = NoPort
           /\ Len(queue) > 0 /\ queue[1][1] = p /\ queue[1][2] = v
           /\ queue' \in Seq(Ports \X Tags) /\ Len(queue') = Len(queue) - 1
           /\ \A i \in 1..Len(queue') : queue'[i] = queue[i + 1]
           /\ seen' = seen \cup {p}
           /\ \/ /\ p \in seen \/ ~Admits(p, v)
                 /\ UNCHANGED <<reached, here, tag, next>>
              \/ /\ p \notin seen /\ Admits(p, v)
                 /\ reached' = Append(reached, p)
                 /\ IF IsSwitch(p)
                    THEN here' = p /\ tag' = TagAfter(p, v) /\ next' = 1
                    ELSE UNCHANGED <<here, tag, next>>
           /\ UNCHANGED question
<1>1. queue \in Seq(Ports \X Tags) /\ queue # <<>>
  BY DEF FloodInv, TypeOK, Visit
<1>2. /\ Head(queue) \in Ports \X Tags /\ Head(queue) = queue[1]
      /\ Tail(queue) \in Seq(Ports \X Tags)
      /\ Len(Tail(queue)) = Len(queue) - 1 /\ Len(queue) \in Nat
      /\ \A i \in 1..Len(Tail(queue)) : Tail(queue)[i] = queue[i + 1]
  BY <1>1, HeadTailProperties
<1>3. Len(queue) > 0
  BY <1>1, <1>2, EmptySeq
<1>4. origin # NoPort
  BY <1>1 DEF FloodInv, OnceInv, Done
<1>5. Head(queue)[1] \in Ports /\ Head(queue)[2] \in Tags
  BY <1>2
<1>6. Tail(queue) = queue' /\ UNCHANGED question /\ here = NoPort
  BY DEF Visit
<1> QED BY <1>2, <1>3, <1>4, <1>5, <1>6 DEF Visit

LEMMA EnteredArePorts ==
  ASSUME TypeOK, origin \in Ports
  PROVE  Entered \in SUBSET Ports
<1>1. \A i \in 1..Len(reached) : reached[i] \in Ports
  BY ElementOfSeq DEF TypeOK
<1> QED BY <1>1 DEF Entered, ReachedPorts

\* Appending a port to the answer.
LEMMA ReachOneMore ==
  ASSUME TypeOK, NEW p \in Ports, reached' = Append(reached, p)
  PROVE  /\ reached' \in Seq(Ports) /\ Len(reached') = Len(reached) + 1
         /\ Len(reached) \in Nat
         /\ \A i \in 1..Len(reached) : reached'[i] = reached[i]
         /\ reached'[Len(reached) + 1] = p
         /\ ReachedPorts' = ReachedPorts \cup {p}
<1>1. reached \in Seq(Ports)
  BY DEF TypeOK
<1>2. /\ reached' \in Seq(Ports) /\ Len(reached') = Len(reached) + 1
      /\ Len(reached) \in Nat
      /\ \A i \in 1..Len(reached) : reached'[i] = reached[i]
      /\ reached'[Len(reached) + 1] = p
  BY <1>1, AppendProperties
<1>3. \A i \in 1..Len(reached') : i \in 1..Len(reached) \/ i = Len(reached) + 1
  BY <1>2
<1>4. \A i \in 1..Len(reached) : i \in 1..Len(reached')
  BY <1>2
<1>5. Len(reached) + 1 \in 1..Len(reached')
  BY <1>2
<1> QED BY <1>2, <1>3, <1>4, <1>5 DEF ReachedPorts

\* What stays in the queue when its head is taken is still to be looked at.
LEMMA StillPending ==
  ASSUME NEW p, Len(queue) \in Nat, Len(queue) > 0, queue[1][1] = p,
         Len(queue') = Len(queue) - 1,
         \A i \in 1..Len(queue') : queue'[i] = queue[i + 1],
         seen' = seen \cup {p}
  PROVE  \A q : Pending(q) => Pending(q)'
<1> SUFFICES ASSUME NEW q, NEW i \in 1..Len(queue), queue[i][1] = q
             PROVE  Pending(q)'
  BY DEF Pending, Queued
<1>1. CASE i = 1
  BY <1>1 DEF Pending
<1>2. CASE i # 1
  <2>1. i - 1 \in 1..Len(queue') /\ (i - 1) + 1 = i
    BY <1>2
  <2>2. queue'[i - 1][1] = q
    BY <2>1
  <2> QED BY <2>1, <2>2 DEF Pending, Queued
<1> QED BY <1>1, <1>2

LEMMA VisitPreserves ==
  ASSUME FloodInv, Visit
  PROVE  FloodInv'
<1>1. PICK p \in Ports, v \in Tags :
         /\ origin # NoPort /\ here = NoPort
         /\ Len(queue) > 0 /\ queue[1][1] = p /\ queue[1][2] = v
         /\ queue' \in Seq(Ports \X Tags) /\ Len(queue') = Len(queue) - 1
         /\ \A i \in 1..Len(queue') : queue'[i] = queue[i + 1]
         /\ seen' = seen \cup {p}
         /\ \/ /\ p \in seen \/ ~Admits(p, v)
               /\ UNCHANGED <<reached, here, tag, next>>
            \/ /\ p \notin seen /\ Admits(p, v)
               /\ reached' = Append(reached, p)
               /\ IF IsSwitch(p)
                  THEN here' = p /\ tag' = TagAfter(p, v) /\ next' = 1
                  ELSE UNCHANGED <<here, tag, next>>
         /\ UNCHANGED question
  BY VisitSteps
<1>2. TypeOK /\ OnceInv /\ p # NoPort /\ origin \in Ports /\ Len(queue) \in Nat
  BY <1>1, PeerAssumption DEF FloodInv, TypeOK
<1>3. /\ FrameVlan' = FrameVlan /\ VlanDecided' = VlanDecided
      /\ origin' = origin /\ way' = way /\ port' = port /\ vlan' = vlan
      /\ \A q : Member(q)' = Member(q) /\ FirstHop(q)' = FirstHop(q)
      /\ \A q, r : NextHop(q, r)' = NextHop(q, r)
      /\ \A q, w : Agrees(q, w)' = Agrees(q, w)
  BY <1>1, SameQuestion
<1>4. \A q : Pending(q) => Pending(q)'
  BY <1>1, <1>2, StillPending
<1>5. \A i \in 1..Len(queue') : i + 1 \in 1..Len(queue)
  BY <1>1, <1>2
<1>6. VlanDecided => EntriesAgree'
  BY <1>1, <1>3, <1>5 DEF EntriesAgree, FloodInv, DomainInv
<1>7. 1 \in 1..Len(queue)
  BY <1>1, <1>2
<1>8. VlanDecided => Agrees(p, v) /\ (Member(p) /\ p # origin => Joined(p))
  BY <1>1, <1>7 DEF FloodInv, DomainInv, EntriesAgree, EntriesJoined
<1>9. CASE /\ p \in seen \/ ~Admits(p, v)
           /\ UNCHANGED <<reached, here, tag, next>>
  <2>1. TypeOK'
    BY <1>1, <1>2, <1>3, <1>9 DEF TypeOK
  <2>2. ReachedPorts' = ReachedPorts /\ Entered' = Entered
    BY <1>3, <1>9 DEF ReachedPorts, Entered
  <2>3. OnceInv'
    BY <1>1, <1>2, <1>3, <1>9, <2>2 DEF OnceInv, EachPortOnce
  <2>4. ASSUME VlanDecided PROVE DomainInv'
    <3>1. DomainInv
      BY <1>1, <2>4 DEF FloodInv
    <3>2. EntriesJoined'
      BY <1>1, <1>3, <1>5, <2>2, <3>1 DEF DomainInv, EntriesJoined, Joined
    <3>3. ReachedJoined'
      BY <1>3, <1>9, <3>1 DEF DomainInv, ReachedJoined
    <3>4. SeenReached'
      BY <1>1, <1>3, <1>8, <1>9, <2>2, <2>4, <3>1
         DEF DomainInv, SeenReached, Agrees
    <3>5. EnteredFlooded'
      BY <1>3, <1>4, <1>9, <2>2, <3>1 DEF DomainInv, EnteredFlooded
    <3>6. HereEntered' /\ HereFlooded'
      BY <1>1, <1>9 DEF HereEntered, HereFlooded
    <3>7. FirstPending'
      BY <1>3, <1>4, <3>1 DEF DomainInv, FirstPending
    <3> QED BY <1>6, <2>4, <3>2, <3>3, <3>4, <3>5, <3>6, <3>7 DEF DomainInv
  <2> QED BY <1>3, <2>1, <2>3, <2>4 DEF FloodInv
<1>10. CASE /\ p \notin seen /\ Admits(p, v)
            /\ reached' = Append(reached, p)
            /\ IF IsSwitch(p)
               THEN here' = p /\ tag' = TagAfter(p, v) /\ next' = 1
               ELSE UNCHANGED <<here, tag, next>>
  <2>1. /\ reached' \in Seq(Ports) /\ Len(reached') = Len(reached) + 1
        /\ Len(reached) \in Nat
        /\ \A i \in 1..Len(reached) : reached'[i] = reached[i]
        /\ reached'[Len(reached) + 1] = p
        /\ ReachedPorts' = ReachedPorts \cup {p}
    BY <1>2, <1>10, ReachOneMore
  <2>2. TypeOK'
    <3>1. TagAfter(p, v) \in Tags
      BY <1>2, TagTypes
    <3> QED BY <1>1, <1>2, <1>3, <1>10, <2>1, <3>1 DEF TypeOK
  <2>3. Entered' = Entered \cup {p}
    BY <1>3, <2>1 DEF Entered
  <2>4. \A i \in 1..Len(reached') : i \in 1..Len(reached) \/ i = Len(reached) + 1
    BY <2>1
  <2>5. p # origin /\ \A i \in 1..Len(reached) : reached[i] # p
    BY <1>1, <1>2, <1>10 DEF OnceInv
  <2>6. OnceInv'
    <3>1. \A i \in 1..Len(reached') : reached'[i] \in seen'
      BY <1>1, <1>2, <2>1, <2>4 DEF OnceInv
    <3>2. \A i, j \in 1..Len(reached') : i # j => reached'[i] # reached'[j]
      BY <1>2, <2>1, <2>4, <2>5 DEF OnceInv, EachPortOnce
    <3>3. origin' \notin ReachedPorts'
      BY <1>2, <1>3, <2>1, <2>5 DEF OnceInv, EachPortOnce
    <3> QED BY <1>1, <1>2, <1>3, <3>1, <3>2, <3>3 DEF OnceInv, EachPortOnce
  <2>7. ASSUME VlanDecided PROVE DomainInv'
    <3>1. DomainInv
      BY <1>1, <2>7 DEF FloodInv
    <3>2. Member(p) /\ Joined(p) /\ TagAfter(p, v) = FrameVlan
      BY <1>8, <1>10, <2>5, <2>7 DEF Agrees
    <3>3. EntriesJoined'
      BY <1>1, <1>3, <1>5, <2>1, <3>1 DEF DomainInv, EntriesJoined, Joined
    <3>4. ReachedJoined'
      <4>1. ASSUME NEW i \in 1..Len(reached)
            PROVE  \/ FirstHop(reached'[i])
                   \/ \E j \in 1..(i - 1) : NextHop(reached'[j], reached'[i])
        <5>1. \A j \in 1..(i - 1) : j \in 1..Len(reached)
          BY <2>1
        <5>2. \/ FirstHop(reached[i])
              \/ \E j \in 1..(i - 1) : NextHop(reached[j], reached[i])
          BY <3>1 DEF DomainInv, ReachedJoined
        <5>3. reached'[i] = reached[i]
          BY <2>1
        <5> QED BY <2>1, <5>1, <5>2, <5>3
      <4>2. \/ FirstHop(p)
            \/ \E j \in 1..Len(reached) : NextHop(reached'[j], p)
        BY <2>1, <3>2 DEF Joined, ReachedPorts
      <4>3. (Len(reached) + 1) - 1 = Len(reached)
        BY <2>1
      <4>4. \A i \in 1..Len(reached') :
              \/ FirstHop(reached'[i])
              \/ \E j \in 1..(i - 1) : NextHop(reached'[j], reached'[i])
        BY <2>1, <2>4, <4>1, <4>2, <4>3
      <4> QED BY <1>3, <4>4 DEF ReachedJoined
    <3>5. SeenReached'
      BY <1>1, <1>3, <2>1, <3>1 DEF DomainInv, SeenReached
    <3>6. EnteredFlooded'
      <4>1. ASSUME NEW q \in Entered', NEW r \in Ports, q # here', NextHop(q, r)
            PROVE  Pending(r)'
        <5>1. q # p \/ ~IsSwitch(p)
          BY <1>10, <4>1
        <5>2. q # p
          BY <4>1, <5>1 DEF NextHop
        <5>3. q \in Entered /\ q # here
          BY <1>1, <1>2, <2>3, <4>1, <5>2, EnteredArePorts, PeerAssumption
        <5> QED BY <1>4, <3>1, <4>1, <5>3 DEF DomainInv, EnteredFlooded
      <4> QED BY <1>3, <4>1 DEF EnteredFlooded
    <3>7. HereEntered'
      BY <1>1, <1>3, <1>10, <2>3, <3>2 DEF HereEntered, IsSwitch
    <3>8. HereFlooded'
      BY <1>1, <1>10 DEF HereFlooded
    <3>9. FirstPending'
      BY <1>3, <1>4, <3>1 DEF DomainInv, FirstPending
    <3> QED BY <1>6, <2>7, <3>3, <3>4, <3>5, <3>6, <3>7, <3>8, <3>9
            DEF DomainInv
  <2> QED BY <1>3, <2>2, <2>6, <2>7 DEF FloodInv
<1> QED BY <1>1, <1>9, <1>10

-----------------------------------------------------------------------------
(* A turn of the loop over the interfaces *)

\* The entry, if any, that a turn of the loop adds.
LEMMA FloodOutSteps ==
  ASSUME FloodInv, FloodOut
  PROVE  \E e \in Ports :
           /\ origin \in Ports /\ here \in Ports
           /\ next \in 1..Len(Interfaces[DeviceOf[here]])
           /\ e = Interfaces[DeviceOf[here]][next] /\ DeviceOf[e] = DeviceOf[here]
           /\ \/ /\ Leaves(here, e, tag) /\ Peer[e] \notin seen
                 /\ Peer[e] \in Ports
                 /\ queue' = Append(queue, <<Peer[e], tag>>)
              \/ /\ ~Leaves(here, e, tag) \/ Peer[e] \in seen
                 /\ queue' = queue
<1> DEFINE e == Interfaces[DeviceOf[here]][next]
<1>1. here \in Ports /\ next \in Nat \ {0}
  BY DEF FloodInv, TypeOK, FloodOut
<1>2. origin \in Ports
  BY <1>1 DEF FloodInv, TypeOK, OnceInv, Done, FloodOut
<1>3. DeviceOf[here] \in Devices /\ Interfaces[DeviceOf[here]] \in Seq(Ports)
  BY <1>1, PortsAssumption
<1>4. next \in 1..Len(Interfaces[DeviceOf[here]])
  <2>1. Len(Interfaces[DeviceOf[here]]) \in Nat
    BY <1>3
  <2> QED BY <1>1, <2>1 DEF FloodOut
<1>5. e \in Ports /\ DeviceOf[e] = DeviceOf[here]
  BY <1>3, <1>4, PortsAssumption, ElementOfSeq
<1>6. Leaves(here, e, tag) => Peer[e] \in Ports
  BY <1>5, PeerAssumption DEF Leaves
<1> QED BY <1>1, <1>2, <1>4, <1>5, <1>6 DEF FloodOut

LEMMA FloodOutPreserves ==
  ASSUME FloodInv, FloodOut
  PROVE  FloodInv'
<1>1. PICK e \in Ports :
         /\ origin \in Ports /\ here \in Ports
         /\ next \in 1..Len(Interfaces[DeviceOf[here]])
         /\ e = Interfaces[DeviceOf[here]][next] /\ DeviceOf[e] = DeviceOf[here]
         /\ \/ /\ Leaves(here, e, tag) /\ Peer[e] \notin seen
               /\ Peer[e] \in Ports
               /\ queue' = Append(queue, <<Peer[e], tag>>)
            \/ /\ ~Leaves(here, e, tag) \/ Peer[e] \in seen
               /\ queue' = queue
  BY FloodOutSteps
<1>2. /\ TypeOK /\ OnceInv /\ queue \in Seq(Ports \X Tags) /\ Len(queue) \in Nat
      /\ tag \in Tags /\ next \in Nat
  BY DEF FloodInv, TypeOK
<1>3. /\ FrameVlan' = FrameVlan /\ VlanDecided' = VlanDecided
      /\ origin' = origin /\ way' = way /\ port' = port /\ vlan' = vlan
      /\ \A q : Member(q)' = Member(q) /\ FirstHop(q)' = FirstHop(q)
      /\ \A q, r : NextHop(q, r)' = NextHop(q, r)
      /\ \A q, w : Agrees(q, w)' = Agrees(q, w)
      /\ \A q, r, w : Leaves(q, r, w)' = Leaves(q, r, w)
  BY SameQuestion DEF FloodOut
<1>4. /\ seen' = seen /\ reached' = reached /\ here' = here /\ tag' = tag
      /\ next' = next + 1
  BY DEF FloodOut
<1>5. ReachedPorts' = ReachedPorts /\ Entered' = Entered
  BY <1>3, <1>4 DEF ReachedPorts, Entered
<1>6. /\ queue' \in Seq(Ports \X Tags)
      /\ \A i \in 1..Len(queue') :
           \/ i \in 1..Len(queue) /\ queue'[i] = queue[i]
           \/ /\ Leaves(here, e, tag) /\ Peer[e] \in Ports
              /\ queue'[i][1] = Peer[e] /\ queue'[i][2] = tag
      /\ \A i \in 1..Len(queue) : i \in 1..Len(queue') /\ queue'[i] = queue[i]
      /\ Leaves(here, e, tag) /\ Peer[e] \notin seen =>
           \E i \in 1..Len(queue') : queue'[i][1] = Peer[e]
  <2>1. CASE queue' = queue /\ (~Leaves(here, e, tag) \/ Peer[e] \in seen)
    BY <1>2, <2>1
  <2>2. CASE /\ Leaves(here, e, tag) /\ Peer[e] \in Ports
             /\ queue' = Append(queue, <<Peer[e], tag>>)
    <3>1. <<Peer[e], tag>> \in Ports \X Tags
      BY <1>2, <2>2
    <3>2. /\ queue' \in Seq(Ports \X Tags) /\ Len(queue') = Len(queue) + 1
          /\ \A i \in 1..Len(queue) : queue'[i] = queue[i]
          /\ queue'[Len(queue) + 1] = <<Peer[e], tag>>
      BY <1>2, <2>2, <3>1, AppendProperties
    <3>3. /\ \A i \in 1..Len(queue') : i \in 1..Len(queue) \/ i = Len(queue) + 1
          /\ \A i \in 1..Len(queue) : i \in 1..Len(queue')
          /\ Len(queue) + 1 \in 1..Len(queue')
      BY <1>2, <3>2
    <3> QED BY <2>2, <3>2, <3>3
  <2> QED BY <1>1, <2>1, <2>2
<1>7. \A q : Pending(q) => Pending(q)'
  BY <1>4, <1>6 DEF Pending, Queued
<1>8. TypeOK'
  BY <1>2, <1>3, <1>4, <1>6 DEF TypeOK
<1>9. OnceInv'
  BY <1>1, <1>2, <1>3, <1>4, <1>5, PeerAssumption DEF OnceInv, EachPortOnce
<1>10. ASSUME VlanDecided PROVE DomainInv'
  <2>1. DomainInv
    BY <1>1, <1>10, PeerAssumption DEF FloodInv
  <2>2. here \in Entered /\ IsSwitch(here) /\ tag = FrameVlan
    BY <1>1, <2>1, PeerAssumption DEF DomainInv, HereEntered
  <2>3. EntriesAgree'
    <3>1. ASSUME NEW i \in 1..Len(queue')
          PROVE  Agrees(queue'[i][1], queue'[i][2])
      <4>1. CASE i \in 1..Len(queue) /\ queue'[i] = queue[i]
        BY <2>1, <4>1 DEF DomainInv, EntriesAgree
      <4>2. CASE /\ Peer[e] \in Ports
                 /\ queue'[i][1] = Peer[e] /\ queue'[i][2] = tag
        BY <1>2, <1>10, <2>2, <4>2, DecidedAgrees
      <4> QED BY <1>6, <4>1, <4>2
    <3> QED BY <1>3, <3>1 DEF EntriesAgree
  <2>4. EntriesJoined'
    <3>1. ASSUME NEW i \in 1..Len(queue'),
                 Member(queue'[i][1]), queue'[i][1] # origin
          PROVE  Joined(queue'[i][1])
      <4>1. CASE i \in 1..Len(queue) /\ queue'[i] = queue[i]
        BY <2>1, <3>1, <4>1 DEF DomainInv, EntriesJoined
      <4>2. CASE Leaves(here, e, tag) /\ queue'[i][1] = Peer[e]
        <5>1. NextHop(here, Peer[e])
          BY <1>1, <1>2, <2>2, <3>1, <4>2, LeavesIsHop
        <5>2. here \in ReachedPorts \/ (way = "in" /\ here = origin)
          BY <2>2 DEF Entered
        <5> QED BY <4>2, <5>1, <5>2 DEF Joined, FirstHop
      <4> QED BY <1>6, <4>1, <4>2
    <3> QED BY <1>3, <1>5, <3>1 DEF EntriesJoined, Joined
  <2>5. ReachedJoined' /\ SeenReached'
    BY <1>3, <1>4, <1>5, <2>1 DEF DomainInv, ReachedJoined, SeenReached
  <2>6. HereEntered'
    BY <1>1, <1>3, <1>4, <1>5, <2>2 DEF HereEntered, IsSwitch
  <2>7. EnteredFlooded'
    BY <1>3, <1>4, <1>5, <1>7, <2>1 DEF DomainInv, EnteredFlooded
  <2>8. HereFlooded'
    <3>1. ASSUME NEW i \in 1..Len(Interfaces[DeviceOf[here]]), i < next + 1,
                 Leaves(here, Interfaces[DeviceOf[here]][i], FrameVlan),
                 NEW q, Peer[Interfaces[DeviceOf[here]][i]] = q
          PROVE  Pending(q)'
      <4>1. CASE i < next
        <5>1. Pending(q)
          BY <1>1, <2>1, <3>1, <4>1, PeerAssumption DEF DomainInv, HereFlooded
        <5> QED BY <1>7, <5>1
      <4>2. CASE i = next
        <5>1. Leaves(here, e, tag) /\ Peer[e] = q
          BY <1>1, <2>2, <3>1, <4>2
        <5> QED BY <1>4, <1>6, <5>1 DEF Pending, Queued
      <4>3. i < next \/ i = next
        BY <1>2, <3>1
      <4> QED BY <4>1, <4>2, <4>3
    <3> QED BY <1>3, <1>4, <3>1 DEF HereFlooded, Pending, Queued
  <2>9. FirstPending'
    BY <1>3, <1>7, <2>1 DEF DomainInv, FirstPending
  <2> QED BY <1>10, <2>3, <2>4, <2>5, <2>6, <2>7, <2>8, <2>9 DEF DomainInv
<1> QED BY <1>3, <1>8, <1>9, <1>10 DEF FloodInv

LEMMA FloodedOutPreserves ==
  ASSUME FloodInv, FloodedOut
  PROVE  FloodInv'
<1>1. /\ here \in Ports /\ next \in Nat \ {0} /\ TypeOK /\ OnceInv
      /\ next > Len(Interfaces[DeviceOf[here]])
  BY DEF FloodInv, TypeOK, FloodedOut
<1>2. origin \in Ports /\ here # NoPort
  BY <1>1 DEF FloodInv, TypeOK, OnceInv, Done, FloodedOut
<1>3. /\ FrameVlan' = FrameVlan /\ VlanDecided' = VlanDecided
      /\ origin' = origin /\ way' = way /\ port' = port /\ vlan' = vlan
      /\ \A q : Member(q)' = Member(q) /\ FirstHop(q)' = FirstHop(q)
      /\ \A q, r : NextHop(q, r)' = NextHop(q, r)
      /\ \A q, w : Agrees(q, w)' = Agrees(q, w)
  BY SameQuestion DEF FloodedOut
<1>4. /\ queue' = queue /\ seen' = seen /\ reached' = reached
      /\ here' = NoPort /\ tag' = Untagged /\ next' = 1
  BY DEF FloodedOut
<1>5. ReachedPorts' = ReachedPorts /\ Entered' = Entered
  BY <1>3, <1>4 DEF ReachedPorts, Entered
<1>6. \A q : Pending(q)' = Pending(q)
  BY <1>4 DEF Pending, Queued
<1>7. TypeOK'
  BY <1>1, <1>3, <1>4 DEF TypeOK, Tags
<1>8. OnceInv'
  BY <1>1, <1>2, <1>3, <1>4, <1>5, PeerAssumption DEF OnceInv, EachPortOnce
<1>9. ASSUME VlanDecided PROVE DomainInv'
  <2>1. DomainInv
    BY <1>2, <1>9, PeerAssumption DEF FloodInv
  <2>2. EntriesAgree' /\ EntriesJoined'
    BY <1>3, <1>4, <1>5, <2>1 DEF DomainInv, EntriesAgree, EntriesJoined, Joined
  <2>3. ReachedJoined' /\ SeenReached'
    BY <1>3, <1>4, <1>5, <2>1 DEF DomainInv, ReachedJoined, SeenReached
  <2>4. HereEntered' /\ HereFlooded'
    BY <1>4 DEF HereEntered, HereFlooded
  <2>5. EnteredFlooded'
    <3>1. ASSUME NEW p \in Entered, NEW q \in Ports, NextHop(p, q)
          PROVE  Pending(q)
      <4>1. CASE p # here
        BY <2>1, <3>1, <4>1 DEF DomainInv, EnteredFlooded
      <4>2. CASE p = here
        <5>1. PICK i \in 1..Len(Interfaces[DeviceOf[here]]) :
                /\ Leaves(here, Interfaces[DeviceOf[here]][i], FrameVlan)
                /\ Peer[Interfaces[DeviceOf[here]][i]] = q
          BY <1>1, <3>1, <4>2, HopLeaves
        <5>2. DeviceOf[here] \in Devices /\ Interfaces[DeviceOf[here]] \in Seq(Ports)
          BY <1>1, PortsAssumption
        <5>3. Len(Interfaces[DeviceOf[here]]) \in Nat
          BY <5>2
        <5>4. i < next
          BY <1>1, <5>3
        <5> QED BY <1>2, <2>1, <5>1, <5>4 DEF DomainInv, HereFlooded
      <4> QED BY <4>1, <4>2
    <3> QED BY <1>3, <1>5, <1>6, <3>1 DEF EnteredFlooded
  <2>6. FirstPending'
    BY <1>3, <1>6, <2>1 DEF DomainInv, FirstPending
  <2> QED BY <2>2, <2>3, <2>4, <2>5, <2>6 DEF DomainInv
<1> QED BY <1>3, <1>7, <1>8, <1>9 DEF FloodInv

LEMMA FloodStutters ==
  ASSUME FloodInv, UNCHANGED vars
  PROVE  FloodInv'
<1>1. /\ FrameVlan' = FrameVlan /\ VlanDecided' = VlanDecided
      /\ origin' = origin /\ way' = way /\ port' = port /\ vlan' = vlan
      /\ \A q : Member(q)' = Member(q) /\ FirstHop(q)' = FirstHop(q)
      /\ \A p, q : NextHop(p, q)' = NextHop(p, q)
      /\ \A q, v : Agrees(q, v)' = Agrees(q, v)
      /\ \A p, e, v : Leaves(p, e, v)' = Leaves(p, e, v)
  BY SameQuestion DEF vars
<1>2. /\ queue' = queue /\ seen' = seen /\ reached' = reached
      /\ here' = here /\ tag' = tag /\ next' = next
  BY DEF vars, walk
<1>3. ReachedPorts' = ReachedPorts /\ Entered' = Entered
  BY <1>1, <1>2 DEF ReachedPorts, Entered
<1>4. \A q : Pending(q)' = Pending(q)
  BY <1>2 DEF Pending, Queued
<1>5. TypeOK' /\ OnceInv'
  BY <1>1, <1>2, <1>3 DEF FloodInv, TypeOK, OnceInv, EachPortOnce, Done
<1>6. ASSUME DomainInv PROVE DomainInv'
  <2>1. EntriesAgree' /\ EntriesJoined' /\ ReachedJoined' /\ SeenReached'
    BY <1>1, <1>2, <1>3, <1>6
       DEF DomainInv, EntriesAgree, EntriesJoined, Joined, ReachedJoined,
           SeenReached
  <2>2. HereEntered' /\ EnteredFlooded' /\ HereFlooded' /\ FirstPending'
    BY <1>1, <1>2, <1>3, <1>4, <1>6
       DEF DomainInv, HereEntered, EnteredFlooded, HereFlooded, FirstPending,
           IsSwitch
  <2> QED BY <2>1, <2>2 DEF DomainInv
<1> QED BY <1>1, <1>5, <1>6 DEF FloodInv

-----------------------------------------------------------------------------
(* What a walk finds *)

\* Every step of a walk, and every new question, preserves the invariant.
LEMMA FloodStep ==
  ASSUME FloodInv, [Next]_vars
  PROVE  FloodInv'
<1>1. CASE \E p \in Ports, v \in Tags : Broadcast(p, v)
  BY <1>1, BroadcastPreserves
<1>2. CASE \E p \in Ports, v \in Tags : IsSwitch(p) /\ FloodInto(p, v)
  BY <1>2, FloodIntoPreserves
<1>3. CASE Visit
  BY <1>3, VisitPreserves
<1>4. CASE FloodOut
  BY <1>4, FloodOutPreserves
<1>5. CASE FloodedOut
  BY <1>5, FloodedOutPreserves
<1>6. CASE UNCHANGED vars
  BY <1>6, FloodStutters
<1> QED BY <1>1, <1>2, <1>3, <1>4, <1>5, <1>6 DEF Next, Step

\* The invariant holds of every walk.
THEOREM FloodInvariant == Spec => []FloodInv
BY FloodInit, FloodStep, PTL DEF Spec

\* Every variable keeps its type.
THEOREM FloodTypeCorrect == Spec => []TypeOK
<1>1. FloodInv => TypeOK
  BY DEF FloodInv
<1> QED BY <1>1, FloodInvariant, PTL

\* A frame stays in its broadcast domain: _flood lets no frame into another
\* VLAN, whatever loops there are and in whatever order it meets them.
THEOREM FloodStaysInDomain == Spec => []FloodKeepsToDomain
<1>1. FloodInv => FloodKeepsToDomain
  BY DEF FloodInv, DomainInv, ReachedJoined, FloodKeepsToDomain
<1> QED BY <1>1, FloodInvariant, PTL

\* A finished walk has reached the whole domain: marking a port seen before
\* looking at the frame's VLAN loses nobody.
THEOREM FloodReachesDomain == Spec => []FloodFillsDomain
<1>1. FloodInv => FloodFillsDomain
  <2> SUFFICES ASSUME FloodInv, Done, origin # NoPort, VlanDecided,
                      NEW q \in Ports,
                      FirstHop(q) \/ (\E p \in ReachedPorts : NextHop(p, q))
               PROVE  q \in ReachedPorts
    BY DEF FloodFillsDomain
  <2>1. DomainInv /\ origin \in Ports /\ q # NoPort
    BY PeerAssumption DEF FloodInv, TypeOK
  <2>2. Pending(q) => q \in seen
    <3>1. Len(queue) = 0
      BY DEF Done
    <3> QED BY <3>1 DEF Pending, Queued
  <2>3. Member(q) /\ q # origin
    BY <2>1 DEF FirstHop, NextHop
  <2>4. Pending(q)
    <3>1. CASE way = "out" /\ FirstHop(q)
      BY <2>1, <3>1 DEF FirstHop, DomainInv, FirstPending
    <3>2. CASE \E p \in Entered : NextHop(p, q)
      <4>1. PICK p \in Entered : NextHop(p, q)
        BY <3>2
      <4>2. p # here
        BY <2>1, <4>1, EnteredArePorts, PeerAssumption DEF Done, FloodInv
      <4> QED BY <2>1, <4>1, <4>2 DEF DomainInv, EnteredFlooded
    <3> QED BY <2>1, <3>1, <3>2 DEF FirstHop, Entered, FloodInv, TypeOK
  <2> QED BY <2>1, <2>2, <2>3, <2>4 DEF DomainInv, SeenReached
<1> QED BY <1>1, FloodInvariant, PTL

\* However the switches are looped, each port gets the frame at most once and
\* the sender never: no storm.
THEOREM FloodReachesOnce == Spec => []EachPortOnce
<1>1. FloodInv => EachPortOnce
  BY DEF FloodInv, OnceInv
<1> QED BY <1>1, FloodInvariant, PTL

\* What _flood answers is the broadcast domain: all of it, nothing else, once.
THEOREM FloodIsTheDomain == Spec => []FloodCoversDomain
BY FloodStaysInDomain, FloodReachesDomain, FloodReachesOnce, PTL
   DEF FloodCoversDomain

-----------------------------------------------------------------------------
(* Hops *)

\* Without a usable link on the sender's port nothing is ever reached.
UnpluggedReachesNone ==
  way = "out" /\ origin # NoPort /\ Peer[origin] = NoPort =>
    Done /\ reached = <<>>

WalkInv ==
  /\ WalkTypeOK
  /\ UnpluggedReachesNone
  /\ phase = "arp" => sender \in Ports /\ origin = sender /\ way = "out"
  /\ phase = "frame" => target \in Ports

-----------------------------------------------------------------------------
(* The steps of a hop as steps of Flooding *)

LEMMA VlanOfType ==
  ASSUME TypeOK, NEW p \in Ports
  PROVE  VlanOf(p) \in Tags
BY SettingTypes DEF VlanOf, Tags

LEMMA ReachedArePorts ==
  ASSUME TypeOK
  PROVE  ReachedPorts \in SUBSET Ports
BY ElementOfSeq DEF TypeOK, ReachedPorts

LEMMA ArriveSteps ==
  ASSUME TypeOK, NEW q \in Ports, Arrive(q)
  PROVE  [Next]_vars
<1>1. VlanOf(q) \in Tags
  BY VlanOfType
<1> QED BY <1>1 DEF Arrive, Next

\* An answered request went out over a link.
LEMMA AnsweredIsPlugged ==
  ASSUME WalkInv, phase = "arp", target \in ReachedPorts
  PROVE  Peer[sender] \in Ports
<1>1. sender \in Ports /\ origin = sender /\ way = "out" /\ origin # NoPort
  BY PeerAssumption DEF WalkInv
<1>2. CASE Peer[sender] = NoPort
  <2>1. reached = <<>>
    BY <1>1, <1>2 DEF WalkInv, UnpluggedReachesNone
  <2> QED BY <2>1 DEF ReachedPorts
<1> QED BY <1>1, <1>2, PeerAssumption

LEMMA HopSteps ==
  ASSUME WalkInv, WalkNext
  PROVE  [Next]_vars
<1>1. TypeOK
  BY DEF WalkInv, WalkTypeOK
<1>2. CASE \E p, t \in Ports : ArpRequest(p, t)
  <2>1. PICK p \in Ports : Broadcast(p, VlanOf(p))
    BY <1>2 DEF ArpRequest
  <2>2. VlanOf(p) \in Tags
    BY <1>1, VlanOfType
  <2> QED BY <2>1, <2>2 DEF Next
<1>3. CASE \E p \in Ports : DhcpDiscover(p)
  <2>1. PICK p \in Ports :
          Broadcast(p, IF port[p].mode = "none" THEN DefaultVlan ELSE port[p].access)
    BY <1>3 DEF DhcpDiscover
  <2>2. (IF port[p].mode = "none" THEN DefaultVlan ELSE port[p].access) \in Tags
    BY <1>1, SettingTypes, DefaultVlanAssumption DEF Tags
  <2> QED BY <2>1, <2>2 DEF Next
<1>4. CASE Flood
  BY <1>4 DEF Flood, Next
<1>5. CASE ArpAnswered
  <2>1. Peer[sender] \in Ports
    BY <1>5, AnsweredIsPlugged DEF ArpAnswered
  <2> QED BY <1>1, <1>5, <2>1, ArriveSteps DEF ArpAnswered
<1>6. CASE SwitchForward
  <2>1. target \in Ports
    BY <1>6 DEF SwitchForward, WalkInv
  <2> QED BY <1>1, <1>6, <2>1, ArriveSteps DEF SwitchForward
<1>7. CASE ArpTimeout \/ FrameLost
  BY <1>7 DEF ArpTimeout, FrameLost
<1> QED BY <1>2, <1>3, <1>4, <1>5, <1>6, <1>7 DEF WalkNext

\* A port without a link stays one: nothing enters its queue.
LEMMA UnpluggedPreserved ==
  ASSUME UnpluggedReachesNone, [Next]_vars
  PROVE  UnpluggedReachesNone'
<1>1. CASE \E p \in Ports, v \in Tags : Broadcast(p, v)
  BY <1>1 DEF Broadcast, Done, UnpluggedReachesNone
<1>2. CASE \E p \in Ports, v \in Tags : FloodInto(p, v)
  BY <1>2 DEF FloodInto, UnpluggedReachesNone
<1>3. CASE Visit
  BY <1>3 DEF Visit, question, Done, UnpluggedReachesNone
<1>4. CASE FloodOut \/ FloodedOut
  BY <1>4 DEF FloodOut, FloodedOut, question, Done, UnpluggedReachesNone
<1>5. CASE UNCHANGED vars
  BY <1>5 DEF vars, question, walk, Done, UnpluggedReachesNone
<1> QED BY <1>1, <1>2, <1>3, <1>4, <1>5 DEF Next, Step

-----------------------------------------------------------------------------
(* The invariant *)

LEMMA WalkBegins == WalkInit => WalkInv
<1>1. Init => TypeOK
  BY FloodInit DEF FloodInv
<1> QED BY <1>1 DEF WalkInit, Init, WalkInv, WalkTypeOK, UnpluggedReachesNone

LEMMA ArrivePreserves ==
  ASSUME WalkInv, TypeOK', UnpluggedReachesNone', NEW q \in Ports, Arrive(q),
         target \in Ports, UNCHANGED <<sender, target>>
  PROVE  WalkInv'
<1>1. DeviceOf[q] \in Devices
  BY PortsAssumption
<1>2. phase' \in {"landed", "frame"} /\ landed' \in SUBSET Devices
  BY <1>1 DEF Arrive, WalkInv, WalkTypeOK
<1>3. walked' \in SUBSET Switches
  BY DEF Arrive, IsSwitch, WalkInv, WalkTypeOK
<1> QED BY <1>2, <1>3 DEF WalkInv, WalkTypeOK

LEMMA WalkPreserves ==
  ASSUME FloodInv', WalkInv, [WalkNext]_<<vars, hop>>
  PROVE  WalkInv'
<1>1. CASE WalkNext
  <2>1. TypeOK' /\ UnpluggedReachesNone'
    BY <1>1, HopSteps, UnpluggedPreserved DEF FloodInv, WalkInv
  <2>2. CASE \E p, t \in Ports : ArpRequest(p, t)
    BY <2>1, <2>2 DEF ArpRequest, Broadcast, Asking, WalkInv, WalkTypeOK
  <2>3. CASE \E p \in Ports : DhcpDiscover(p)
    BY <2>1, <2>3 DEF DhcpDiscover, Asking, WalkInv, WalkTypeOK
  <2>4. CASE Flood
    <3>1. UNCHANGED hop /\ origin' = origin /\ way' = way
      BY <2>4 DEF Flood, Step, Visit, FloodOut, FloodedOut, question
    <3> QED BY <2>1, <3>1 DEF hop, WalkInv, WalkTypeOK
  <2>5. CASE ArpAnswered
    <3>1. Peer[sender] \in Ports /\ target \in Ports
      BY <2>5, AnsweredIsPlugged, ReachedArePorts
         DEF ArpAnswered, WalkInv, WalkTypeOK
    <3> QED BY <2>1, <2>5, <3>1, ArrivePreserves DEF ArpAnswered
  <2>6. CASE SwitchForward
    BY <2>1, <2>6, ArrivePreserves DEF SwitchForward, WalkInv
  <2>7. CASE ArpTimeout \/ FrameLost
    BY <2>1, <2>7 DEF ArpTimeout, FrameLost, WalkInv, WalkTypeOK
  <2> QED BY <1>1, <2>2, <2>3, <2>4, <2>5, <2>6, <2>7 DEF WalkNext
<1>2. CASE UNCHANGED <<vars, hop>>
  <2>1. TypeOK' /\ UNCHANGED hop /\ origin' = origin /\ way' = way
    BY <1>2 DEF FloodInv, vars, question
  <2>2. UnpluggedReachesNone'
    BY <1>2, UnpluggedPreserved DEF WalkInv
  <2> QED BY <2>1, <2>2 DEF hop, WalkInv, WalkTypeOK
<1> QED BY <1>1, <1>2

THEOREM WalkInvariant == WalkSpec => [](FloodInv /\ WalkInv)
<1>1. WalkInit => FloodInv /\ WalkInv
  BY FloodInit, WalkBegins DEF WalkInit
<1>2. FloodInv /\ WalkInv /\ [WalkNext]_<<vars, hop>> => (FloodInv /\ WalkInv)'
  <2> SUFFICES ASSUME FloodInv, WalkInv, [WalkNext]_<<vars, hop>>
               PROVE  (FloodInv /\ WalkInv)'
    OBVIOUS
  <2>1. [Next]_vars
    BY HopSteps
  <2>2. FloodInv'
    BY <2>1, FloodStep
  <2> QED BY <2>2, WalkPreserves
<1> QED BY <1>1, <1>2, PTL DEF WalkSpec

-----------------------------------------------------------------------------
(* The results *)

\* A hop is a sequence of walks: ARP, DHCP and the switched path use _flood as
\* Flooding describes it, so that its theorems hold of each of them.
THEOREM WalkImplementsFlooding == WalkSpec => Spec
<1>1. WalkInit => Init
  BY DEF WalkInit
<1>2. WalkInv /\ [WalkNext]_<<vars, hop>> => [Next]_vars
  BY HopSteps
<1> QED BY <1>1, <1>2, WalkInvariant, PTL DEF WalkSpec, Spec

\* The variables of a hop keep their types.
THEOREM WalkTypeCorrect == WalkSpec => []WalkTypeOK
<1>1. WalkInv => WalkTypeOK
  BY DEF WalkInv
<1> QED BY <1>1, WalkInvariant, PTL

\* No ARP request, Discover or switched frame gets into another VLAN, misses
\* a port of its own, or reaches a port twice.
THEOREM WalkKeepsToDomain == WalkSpec => []FloodCoversDomain
BY WalkImplementsFlooding, FloodIsTheDomain, PTL

-----------------------------------------------------------------------------
(* One walk follows another *)

\* A state of the walk as a value: the order of the answer left out.
Now == [queue |-> queue, seen |-> seen, got |-> ReachedPorts,
        here |-> here, tag |-> tag, next |-> next]

Over(x) == x.queue = <<>> /\ x.here = NoPort

Enters(x) == /\ Head(x.queue)[1] \notin x.seen
             /\ Admits(Head(x.queue)[1], Head(x.queue)[2])

AfterVisit(x) ==
  LET p == Head(x.queue)[1]
      v == Head(x.queue)[2]
  IN  [queue |-> Tail(x.queue), seen |-> x.seen \cup {p},
       got   |-> IF Enters(x) THEN x.got \cup {p} ELSE x.got,
       here  |-> IF Enters(x) /\ IsSwitch(p) THEN p ELSE x.here,
       tag   |-> IF Enters(x) /\ IsSwitch(p) THEN TagAfter(p, v) ELSE x.tag,
       next  |-> IF Enters(x) /\ IsSwitch(p) THEN 1 ELSE x.next]

AfterFlood(x) ==
  LET e == Interfaces[DeviceOf[x.here]][x.next]
  IN  [queue |-> IF Leaves(x.here, e, x.tag) /\ Peer[e] \notin x.seen
                 THEN Append(x.queue, <<Peer[e], x.tag>>) ELSE x.queue,
       seen  |-> x.seen, got |-> x.got, here |-> x.here, tag |-> x.tag,
       next  |-> x.next + 1]

AfterFlooded(x) ==
  [queue |-> x.queue, seen |-> x.seen, got |-> x.got,
   here  |-> NoPort, tag |-> Untagged, next |-> 1]

\* What a turn of the loops makes of the state x.
After(x) ==
  IF x.here = NoPort THEN AfterVisit(x)
  ELSE IF x.next <= Len(Interfaces[DeviceOf[x.here]]) THEN AfterFlood(x)
  ELSE AfterFlooded(x)

ClosedUnder(S) == \A x \in S : ~Over(x) => After(x) \in S

\* From x the loops come to y; they end with the target among the reached.
LeadsTo(x, y) == \A S : x \in S /\ ClosedUnder(S) => y \in S
Leads(x) ==
  \A S : x \in S /\ ClosedUnder(S) => \E y \in S : Over(y) /\ target \in y.got

\* The turn the walk takes is the one After describes.
LEMMA StepIsAfter ==
  ASSUME FloodInv, Step
  PROVE  Now' = After(Now) /\ ~Over(Now)
<1>1. CASE Visit
  <2>1. queue # <<>> /\ here = NoPort
    BY <1>1 DEF Visit
  <2>2. Enters(Now) <=> Head(queue)[1] \notin seen /\ Admits(Head(queue)[1], Head(queue)[2])
    BY DEF Enters, Now
  <2>3. TypeOK /\ Head(queue)[1] \in Ports
    BY <1>1, VisitSteps, HeadTailProperties, EmptySeq DEF FloodInv, TypeOK
  <2>4. CASE Enters(Now)
    <3>1. reached' = Append(reached, Head(queue)[1])
      BY <1>1, <2>2, <2>4 DEF Visit
    <3>2. ReachedPorts' = ReachedPorts \cup {Head(queue)[1]}
      BY <2>3, <3>1, ReachOneMore
    <3>3. Now' = AfterVisit(Now)
      BY <1>1, <2>1, <2>2, <2>4, <3>2 DEF Visit, AfterVisit, Now
    <3> QED BY <2>1, <3>3 DEF After, Now, Over
  <2>5. CASE ~Enters(Now)
    <3>1. ReachedPorts' = ReachedPorts
      BY <1>1, <2>2, <2>5 DEF Visit, ReachedPorts
    <3>2. Now' = AfterVisit(Now)
      BY <1>1, <2>1, <2>2, <2>5, <3>1 DEF Visit, AfterVisit, Now
    <3> QED BY <2>1, <3>2 DEF After, Now, Over
  <2> QED BY <2>4, <2>5
<1>2. CASE FloodOut
  <2>1. ReachedPorts' = ReachedPorts
    BY <1>2 DEF FloodOut, ReachedPorts
  <2>2. Now' = AfterFlood(Now)
    BY <1>2, <2>1 DEF FloodOut, AfterFlood, Now
  <2> QED BY <1>2, <2>2 DEF FloodOut, After, Now, Over
<1>3. CASE FloodedOut
  <2>1. ReachedPorts' = ReachedPorts
    BY <1>3 DEF FloodedOut, ReachedPorts
  <2>2. Now' = AfterFlooded(Now)
    BY <1>3, <2>1 DEF FloodedOut, AfterFlooded, Now
  <2>3. ~(next <= Len(Interfaces[DeviceOf[here]])) /\ here # NoPort
    <3>1. here \in Ports /\ next \in Nat
      BY <1>3 DEF FloodedOut, FloodInv, TypeOK
    <3>2. Interfaces[DeviceOf[here]] \in Seq(Ports)
      BY <3>1, PortsAssumption
    <3>3. Len(Interfaces[DeviceOf[here]]) \in Nat
      BY <3>2
    <3> QED BY <1>3, <3>1, <3>3 DEF FloodedOut
  <2> QED BY <2>2, <2>3 DEF After, Now, Over
<1> QED BY <1>1, <1>2, <1>3 DEF Step

\* The settings of the ports decide the turns.
LEMMA SameTurns ==
  ASSUME port' = port
  PROVE  /\ \A x : After(x)' = After(x) /\ Over(x)' = Over(x)
         /\ \A S : ClosedUnder(S)' = ClosedUnder(S)
         /\ \A x, y : LeadsTo(x, y)' = LeadsTo(x, y)
         /\ target' = target => \A x : Leads(x)' = Leads(x)
<1>1. \A x : After(x)' = After(x) /\ Over(x)' = Over(x)
  BY DEF After, AfterVisit, AfterFlood, AfterFlooded, Over, Enters, Admits,
         Leaves, TagAfter, CarriesVlan, IsSwitch
<1>2. \A S : ClosedUnder(S)' = ClosedUnder(S)
  BY <1>1 DEF ClosedUnder
<1>3. \A x, y : LeadsTo(x, y)' = LeadsTo(x, y)
  BY <1>2 DEF LeadsTo
<1>4. target' = target => \A x : Leads(x)' = Leads(x)
  BY <1>1, <1>2 DEF Leads
<1> QED BY <1>1, <1>2, <1>3, <1>4

\* Following the turns of the loops: one more, the first, the last, all.
LEMMA LeadsOneMore ==
  ASSUME NEW x, NEW y, LeadsTo(x, y), ~Over(y)
  PROVE  LeadsTo(x, After(y))
BY DEF LeadsTo, ClosedUnder

LEMMA LeadsFromNext ==
  ASSUME NEW x, Leads(x), ~Over(x)
  PROVE  Leads(After(x))
<1> SUFFICES ASSUME NEW S, After(x) \in S, ClosedUnder(S)
             PROVE  \E y \in S : Over(y) /\ target \in y.got
  BY DEF Leads
<1>1. ClosedUnder(S \cup {x})
  BY DEF ClosedUnder
<1>2. PICK y \in S \cup {x} : Over(y) /\ target \in y.got
  BY <1>1 DEF Leads
<1> QED BY <1>2

LEMMA LeadsNoFurther ==
  ASSUME NEW x, Leads(x), Over(x)
  PROVE  target \in x.got
<1>1. ClosedUnder({x})
  BY DEF ClosedUnder
<1> QED BY <1>1 DEF Leads

LEMMA LeadsToLeads ==
  ASSUME NEW x, NEW y, LeadsTo(x, y), Over(y), target \in y.got
  PROVE  Leads(x)
BY DEF LeadsTo, Leads

-----------------------------------------------------------------------------
(* Queues that differ by entries for one port *)

\* t is s without the entries for p: f says where its entries are in s.
Embeds(f, t, s, p) ==
  /\ f \in [1..Len(t) -> 1..Len(s)]
  /\ \A i, j \in 1..Len(t) : i < j => f[i] < f[j]
  /\ \A i \in 1..Len(t) : t[i] = s[f[i]] /\ t[i][1] # p
  /\ \A j \in 1..Len(s) : s[j][1] # p => \E i \in 1..Len(t) : f[i] = j

Without(t, s, p) == \E f : Embeds(f, t, s, p)

\* Queues that begin alike, and what taking and adding an entry does to them.
LEMMA WithoutEmpty ==
  ASSUME NEW p
  PROVE  Without(<<>>, <<>>, p)
<1> DEFINE f == [i \in 1..0 |-> i]
<1>1. Embeds(f, <<>>, <<>>, p)
  BY DEF Embeds
<1> QED BY <1>1 DEF Without

LEMMA EmptyWithout ==
  ASSUME NEW E, NEW t \in Seq(E), NEW p, Without(t, <<>>, p)
  PROVE  t = <<>>
<1>1. PICK f : Embeds(f, t, <<>>, p)
  BY DEF Without
<1>2. Len(t) \in Nat /\ f \in [1..Len(t) -> 1..0]
  BY <1>1 DEF Embeds
<1>3. ~(1 \in 1..Len(t))
  BY <1>2
<1>4. Len(t) = 0
  BY <1>2, <1>3
<1> QED BY <1>4, EmptySeq

\* The head of s is for p.
LEMMA WithoutDropHead ==
  ASSUME NEW E, NEW t \in Seq(E), NEW s \in Seq(E), NEW p, Without(t, s, p),
         s # <<>>, Head(s)[1] = p
  PROVE  Without(t, Tail(s), p)
<1>1. PICK f : Embeds(f, t, s, p)
  BY DEF Without
<1>2. /\ Len(t) \in Nat /\ Len(s) \in Nat /\ Len(s) > 0 /\ s[1][1] = p
      /\ Len(Tail(s)) = Len(s) - 1
      /\ \A i \in 1..Len(Tail(s)) : Tail(s)[i] = s[i + 1]
  BY HeadTailProperties, EmptySeq
<1>3. \A i \in 1..Len(t) : f[i] \in 1..Len(s) /\ f[i] # 1
  BY <1>1, <1>2 DEF Embeds
<1> DEFINE g == [i \in 1..Len(t) |-> f[i] - 1]
<1>4. \A i \in 1..Len(t) : g[i] \in 1..Len(Tail(s)) /\ g[i] + 1 = f[i]
  BY <1>2, <1>3
<1>5. Embeds(g, t, Tail(s), p)
  <2>1. g \in [1..Len(t) -> 1..Len(Tail(s))]
    BY <1>4
  <2>2. \A i, j \in 1..Len(t) : i < j => g[i] < g[j]
    <3> SUFFICES ASSUME NEW i \in 1..Len(t), NEW j \in 1..Len(t), i < j
                 PROVE  g[i] < g[j]
      OBVIOUS
    <3>1. f[i] < f[j] /\ f[i] \in Nat /\ f[j] \in Nat
      BY <1>1, <1>2, <1>3 DEF Embeds
    <3> QED BY <3>1
  <2>3. \A i \in 1..Len(t) : t[i] = Tail(s)[g[i]] /\ t[i][1] # p
    BY <1>1, <1>2, <1>4 DEF Embeds
  <2>4. ASSUME NEW j \in 1..Len(Tail(s)), Tail(s)[j][1] # p
        PROVE  \E i \in 1..Len(t) : g[i] = j
    <3>1. j + 1 \in 1..Len(s) /\ s[j + 1][1] # p
      BY <1>2, <2>4
    <3>2. PICK i \in 1..Len(t) : f[i] = j + 1
      BY <1>1, <3>1 DEF Embeds
    <3> QED BY <1>2, <3>2
  <2> QED BY <2>1, <2>2, <2>3, <2>4 DEF Embeds
<1> QED BY <1>5 DEF Without

\* The head of s is not for p.
LEMMA WithoutHeads ==
  ASSUME NEW E, NEW t \in Seq(E), NEW s \in Seq(E), NEW p, Without(t, s, p),
         s # <<>>, Head(s)[1] # p
  PROVE  t # <<>> /\ Head(t) = Head(s) /\ Without(Tail(t), Tail(s), p)
<1>1. PICK f : Embeds(f, t, s, p)
  BY DEF Without
<1>2. /\ Len(t) \in Nat /\ Len(s) \in Nat /\ Len(s) > 0 /\ Head(s) = s[1]
      /\ Len(Tail(s)) = Len(s) - 1
      /\ \A i \in 1..Len(Tail(s)) : Tail(s)[i] = s[i + 1]
  BY HeadTailProperties, EmptySeq
<1>3. \A i \in 1..Len(t) : f[i] \in 1..Len(s)
  BY <1>1 DEF Embeds
<1>4. 1 \in 1..Len(t) /\ f[1] = 1
  <2>1. 1 \in 1..Len(s) /\ s[1][1] # p
    BY <1>2
  <2>2. PICK i \in 1..Len(t) : f[i] = 1
    BY <1>1, <2>1 DEF Embeds
  <2>3. 1 \in 1..Len(t)
    BY <1>2, <2>2
  <2>4. ~(1 < i)
    <3>1. 1 < i => f[1] < 1
      BY <1>1, <2>2, <2>3 DEF Embeds
    <3>2. f[1] \in 1..Len(s)
      BY <1>3, <2>3
    <3> QED BY <1>2, <3>1, <3>2
  <2> QED BY <1>2, <2>2, <2>3, <2>4
<1>5. t # <<>>
  BY <1>2, <1>4
<1>6. /\ Head(t) = t[1] /\ Len(Tail(t)) = Len(t) - 1
      /\ \A i \in 1..Len(Tail(t)) : Tail(t)[i] = t[i + 1]
  BY <1>5, HeadTailProperties
<1>7. Head(t) = Head(s)
  BY <1>1, <1>2, <1>4, <1>6 DEF Embeds
<1> DEFINE g == [i \in 1..Len(Tail(t)) |-> f[i + 1] - 1]
<1>8. \A i \in 1..Len(Tail(t)) :
        /\ i + 1 \in 1..Len(t)
        /\ g[i] \in 1..Len(Tail(s)) /\ g[i] + 1 = f[i + 1]
  <2> SUFFICES ASSUME NEW i \in 1..Len(Tail(t))
               PROVE  /\ i + 1 \in 1..Len(t)
                      /\ g[i] \in 1..Len(Tail(s)) /\ g[i] + 1 = f[i + 1]
    OBVIOUS
  <2>1. i + 1 \in 1..Len(t) /\ 1 < i + 1
    BY <1>2, <1>6
  <2>2. f[1] < f[i + 1] /\ f[i + 1] \in 1..Len(s)
    BY <1>1, <1>3, <1>4, <2>1 DEF Embeds
  <2> QED BY <1>2, <1>4, <2>1, <2>2
<1>9. Embeds(g, Tail(t), Tail(s), p)
  <2>1. g \in [1..Len(Tail(t)) -> 1..Len(Tail(s))]
    BY <1>8
  <2>2. \A i, j \in 1..Len(Tail(t)) : i < j => g[i] < g[j]
    <3> SUFFICES ASSUME NEW i \in 1..Len(Tail(t)), NEW j \in 1..Len(Tail(t)),
                        i < j
                 PROVE  g[i] < g[j]
      OBVIOUS
    <3>0. i + 1 \in 1..Len(t) /\ j + 1 \in 1..Len(t) /\ i + 1 < j + 1
      BY <1>2, <1>6, <1>8
    <3>1. f[i + 1] < f[j + 1] /\ f[i + 1] \in 1..Len(s) /\ f[j + 1] \in 1..Len(s)
      BY <1>1, <1>3, <3>0 DEF Embeds
    <3> QED BY <1>2, <3>1
  <2>3. \A i \in 1..Len(Tail(t)) : Tail(t)[i] = Tail(s)[g[i]] /\ Tail(t)[i][1] # p
    BY <1>1, <1>2, <1>6, <1>8 DEF Embeds
  <2>4. ASSUME NEW j \in 1..Len(Tail(s)), Tail(s)[j][1] # p
        PROVE  \E i \in 1..Len(Tail(t)) : g[i] = j
    <3>1. j + 1 \in 1..Len(s) /\ s[j + 1][1] # p /\ j + 1 # 1
      BY <1>2, <2>4
    <3>2. PICK i \in 1..Len(t) : f[i] = j + 1
      BY <1>1, <3>1 DEF Embeds
    <3>3. i # 1
      BY <1>4, <3>1, <3>2
    <3>4. i - 1 \in 1..Len(Tail(t)) /\ (i - 1) + 1 = i
      BY <1>2, <1>6, <3>3
    <3>5. g[i - 1] = j
      BY <1>2, <3>2, <3>4
    <3> QED BY <3>4, <3>5
  <2> QED BY <2>1, <2>2, <2>3, <2>4 DEF Embeds
<1> QED BY <1>5, <1>7, <1>9 DEF Without

\* An entry for p is added to s alone, another to both.
LEMMA WithoutAppendOne ==
  ASSUME NEW E, NEW t \in Seq(E), NEW s \in Seq(E), NEW p, Without(t, s, p),
         NEW a \in E, a[1] = p
  PROVE  Without(t, Append(s, a), p)
<1>1. PICK f : Embeds(f, t, s, p)
  BY DEF Without
<1>2. /\ Len(t) \in Nat /\ Len(s) \in Nat /\ Len(Append(s, a)) = Len(s) + 1
      /\ \A i \in 1..Len(s) : Append(s, a)[i] = s[i]
      /\ Append(s, a)[Len(s) + 1] = a
  BY AppendProperties
<1>3. \A i \in 1..Len(s) : i \in 1..Len(Append(s, a))
  BY <1>2
<1>4. \A i \in 1..Len(Append(s, a)) : i \in 1..Len(s) \/ i = Len(s) + 1
  BY <1>2
<1>5. Embeds(f, t, Append(s, a), p)
  BY <1>1, <1>2, <1>3, <1>4 DEF Embeds
<1> QED BY <1>5 DEF Without

LEMMA WithoutAppendBoth ==
  ASSUME NEW E, NEW t \in Seq(E), NEW s \in Seq(E), NEW p, Without(t, s, p),
         NEW a \in E, a[1] # p
  PROVE  Without(Append(t, a), Append(s, a), p)
<1>1. PICK f : Embeds(f, t, s, p)
  BY DEF Without
<1> DEFINE u == Append(t, a)
           w == Append(s, a)
<1>2. /\ Len(t) \in Nat /\ Len(s) \in Nat
      /\ Len(w) = Len(s) + 1 /\ w[Len(s) + 1] = a
      /\ \A i \in 1..Len(s) : w[i] = s[i]
      /\ Len(u) = Len(t) + 1 /\ u[Len(t) + 1] = a
      /\ \A i \in 1..Len(t) : u[i] = t[i]
  BY AppendProperties
<1> HIDE DEF u, w
<1> DEFINE g == [i \in 1..Len(u) |-> IF i = Len(t) + 1 THEN Len(s) + 1 ELSE f[i]]
<1>3. \A i \in 1..Len(t) : /\ i \in 1..Len(u) /\ i # Len(t) + 1
                           /\ g[i] = f[i] /\ f[i] \in 1..Len(s) /\ f[i] \in 1..Len(w)
  <2>1. \A i \in 1..Len(t) : i \in 1..Len(u) /\ i # Len(t) + 1
    BY <1>2
  <2>2. \A i \in 1..Len(t) : f[i] \in 1..Len(s)
    BY <1>1 DEF Embeds
  <2>3. \A j \in 1..Len(s) : j \in 1..Len(w)
    BY <1>2
  <2> QED BY <2>1, <2>2, <2>3
<1>4. Len(t) + 1 \in 1..Len(u) /\ g[Len(t) + 1] = Len(s) + 1 /\ Len(s) + 1 \in 1..Len(w)
  BY <1>2
<1>5. \A i \in 1..Len(u) : i \in 1..Len(t) \/ i = Len(t) + 1
  BY <1>2
<1>6. \A j \in 1..Len(w) : j \in 1..Len(s) \/ j = Len(s) + 1
  BY <1>2
<1>7. g \in [1..Len(u) -> 1..Len(w)]
  BY <1>3, <1>4, <1>5
<1>8. ASSUME NEW i \in 1..Len(u), NEW j \in 1..Len(u), i < j
      PROVE  g[i] < g[j]
  <2>1. CASE j \in 1..Len(t)
    <3>1. i \in 1..Len(t)
      BY <1>2, <1>8, <2>1
    <3> QED BY <1>1, <1>3, <1>8, <2>1, <3>1 DEF Embeds
  <2>2. CASE j = Len(t) + 1
    <3>1. i \in 1..Len(t)
      BY <1>2, <1>8, <2>2
    <3>2. g[i] \in 1..Len(s) /\ g[j] = Len(s) + 1
      BY <1>3, <1>4, <2>2, <3>1
    <3> QED BY <1>2, <3>2
  <2> QED BY <1>5, <2>1, <2>2
<1>9. \A i \in 1..Len(u) : u[i] = w[g[i]] /\ u[i][1] # p
  BY <1>1, <1>2, <1>3, <1>4, <1>5 DEF Embeds
<1>10. ASSUME NEW j \in 1..Len(w), w[j][1] # p
       PROVE  \E i \in 1..Len(u) : g[i] = j
  <2>1. CASE j \in 1..Len(s)
    <3>1. PICK i \in 1..Len(t) : f[i] = j
      BY <1>1, <1>2, <1>10, <2>1 DEF Embeds
    <3> QED BY <1>3, <3>1
  <2>2. CASE j = Len(s) + 1
    BY <1>4, <2>2
  <2> QED BY <1>6, <2>1, <2>2
<1> HIDE DEF g
<1>11. Embeds(g, u, w, p)
  BY <1>7, <1>8, <1>9, <1>10 DEF Embeds
<1> QED BY <1>11 DEF Without, u, w

-----------------------------------------------------------------------------
(* The frame's walk behind the one of the ARP request *)

\* The state x is ahead of the walk by what the sender's own port gets.
Trails(x) ==
  /\ x.queue \in Seq(Ports \X Tags)
  /\ Without(x.queue, queue, sender)
  /\ x.seen = seen \cup {sender}
  /\ x.got \subseteq ReachedPorts \cup {origin}
  /\ x.here = here /\ x.tag = tag /\ x.next = next

\* The frame gets to the target, as the walk of the request did.
Follows == \E x : Trails(x) /\ Leads(x)

\* A turn of the frame's walk is one of the request's, or looks at the sender.
LEMMA TrailsVisit ==
  ASSUME FloodInv, Visit, sender \in Ports, ~IsSwitch(sender), sender' = sender,
         NEW x, Trails(x)
  PROVE  \E y : Trails(y)' /\ (y = x \/ (y = After(x) /\ ~Over(x)))
<1> DEFINE p == Head(queue)[1]
           v == Head(queue)[2]
<1>1. /\ queue \in Seq(Ports \X Tags) /\ queue # <<>> /\ here = NoPort /\ TypeOK
      /\ p \in Ports /\ Tail(queue) \in Seq(Ports \X Tags)
  <2>1. queue \in Seq(Ports \X Tags) /\ queue # <<>> /\ here = NoPort /\ TypeOK
    BY DEF FloodInv, TypeOK, Visit
  <2>2. Head(queue) \in Ports \X Tags /\ Tail(queue) \in Seq(Ports \X Tags)
    BY <2>1, HeadTailProperties
  <2> QED BY <2>1, <2>2
<1>2. /\ queue' = Tail(queue) /\ seen' = seen \cup {p} /\ origin' = origin
      /\ \/ /\ p \in seen \/ ~Admits(p, v)
            /\ reached' = reached /\ here' = here /\ tag' = tag /\ next' = next
         \/ /\ p \notin seen /\ Admits(p, v)
            /\ reached' = Append(reached, p)
            /\ IF IsSwitch(p)
               THEN here' = p /\ tag' = TagAfter(p, v) /\ next' = 1
               ELSE here' = here /\ tag' = tag /\ next' = next
  BY DEF Visit, question
<1>3. /\ p \in seen \/ ~Admits(p, v) => ReachedPorts' = ReachedPorts
      /\ p \notin seen /\ Admits(p, v) => ReachedPorts' = ReachedPorts \cup {p}
  <2>1. reached' = reached => ReachedPorts' = ReachedPorts
    BY DEF ReachedPorts
  <2>2. reached' = Append(reached, p) => ReachedPorts' = ReachedPorts \cup {p}
    BY <1>1, ReachOneMore
  <2> QED BY <1>2, <2>1, <2>2
<1>4. CASE p = sender
  <2>1. Without(x.queue, Tail(queue), sender)
    BY <1>1, <1>4, WithoutDropHead DEF Trails
  <2>2. here' = here /\ tag' = tag /\ next' = next
    BY <1>2, <1>4
  <2>3. ReachedPorts \subseteq ReachedPorts'
    BY <1>3
  <2>4. Trails(x)'
    BY <1>2, <1>4, <2>1, <2>2, <2>3 DEF Trails
  <2> QED BY <2>4
<1>5. CASE p # sender
  <2>1. /\ x.queue # <<>> /\ Head(x.queue) = Head(queue)
        /\ Without(Tail(x.queue), Tail(queue), sender)
    BY <1>1, <1>5, WithoutHeads DEF Trails
  <2>2. Tail(x.queue) \in Seq(Ports \X Tags)
    BY <2>1, HeadTailProperties DEF Trails
  <2>3. Enters(x) <=> p \notin seen /\ Admits(p, v)
    BY <1>5, <2>1 DEF Enters, Trails
  <2>4. PICK y : y = After(x)
    OBVIOUS
  <2>5. y = AfterVisit(x) /\ ~Over(x)
    BY <1>1, <2>1, <2>4 DEF After, Over, Trails
  <2>6. /\ y.queue = Tail(x.queue) /\ y.seen = x.seen \cup {p}
        /\ y.got = IF Enters(x) THEN x.got \cup {p} ELSE x.got
        /\ y.here = IF Enters(x) /\ IsSwitch(p) THEN p ELSE x.here
        /\ y.tag = IF Enters(x) /\ IsSwitch(p) THEN TagAfter(p, v) ELSE x.tag
        /\ y.next = IF Enters(x) /\ IsSwitch(p) THEN 1 ELSE x.next
    BY <2>1, <2>5 DEF AfterVisit
  <2>7. y.seen = seen' \cup {sender'}
    BY <1>2, <2>6 DEF Trails
  <2>8. y.got \subseteq ReachedPorts' \cup {origin'}
    BY <1>2, <1>3, <2>3, <2>6 DEF Trails
  <2>9. y.here = here' /\ y.tag = tag' /\ y.next = next'
    BY <1>2, <2>3, <2>6 DEF Trails
  <2>10. Trails(y)'
    BY <1>2, <2>1, <2>2, <2>6, <2>7, <2>8, <2>9 DEF Trails
  <2> QED BY <2>4, <2>5, <2>10
<1> QED BY <1>4, <1>5

LEMMA TrailsFlood ==
  ASSUME FloodInv, FloodOut, sender \in Ports, sender' = sender,
         NEW x, Trails(x)
  PROVE  \E y : Trails(y)' /\ y = After(x) /\ ~Over(x)
<1> DEFINE e == Interfaces[DeviceOf[here]][next]
<1>1. /\ here \in Ports /\ here # NoPort /\ next <= Len(Interfaces[DeviceOf[here]])
      /\ next \in Nat \ {0} /\ tag \in Tags
      /\ queue \in Seq(Ports \X Tags)
  BY DEF FloodInv, TypeOK, FloodOut
<1>2. e \in Ports
  <2>1. Interfaces[DeviceOf[here]] \in Seq(Ports)
    BY <1>1, PortsAssumption
  <2>2. Len(Interfaces[DeviceOf[here]]) \in Nat
    BY <2>1
  <2>3. next \in 1..Len(Interfaces[DeviceOf[here]])
    BY <1>1, <2>2
  <2> QED BY <2>1, <2>3, ElementOfSeq
<1>3. /\ queue' = IF Leaves(here, e, tag) /\ Peer[e] \notin seen
                  THEN Append(queue, <<Peer[e], tag>>) ELSE queue
      /\ next' = next + 1 /\ seen' = seen /\ reached' = reached
      /\ here' = here /\ tag' = tag /\ origin' = origin
  BY DEF FloodOut, question
<1>4. ReachedPorts' = ReachedPorts
  BY <1>3 DEF ReachedPorts
<1>5. PICK y : y = After(x)
  OBVIOUS
<1>6. y = AfterFlood(x) /\ ~Over(x)
  BY <1>1, <1>5 DEF After, Over, Trails
<1>7. /\ y.queue = IF Leaves(here, e, tag) /\ Peer[e] \notin x.seen
                   THEN Append(x.queue, <<Peer[e], tag>>) ELSE x.queue
      /\ y.seen = x.seen /\ y.got = x.got /\ y.here = here /\ y.tag = tag
      /\ y.next = next + 1
  BY <1>6 DEF AfterFlood, Trails
<1>8. y.queue \in Seq(Ports \X Tags) /\ Without(y.queue, queue', sender)
  <2> DEFINE a == <<Peer[e], tag>>
  <2>0. Leaves(here, e, tag) => a \in Ports \X Tags
    BY <1>1, <1>2, PeerAssumption DEF Leaves
  <2>1. CASE ~(Leaves(here, e, tag) /\ Peer[e] \notin seen)
    BY <1>3, <1>7, <2>1 DEF Trails
  <2>2. CASE Leaves(here, e, tag) /\ Peer[e] \notin seen /\ Peer[e] = sender
    <3>1. y.queue = x.queue /\ queue' = Append(queue, a) /\ a[1] = sender
      BY <1>3, <1>7, <2>2 DEF Trails
    <3> HIDE DEF a
    <3> QED BY <1>1, <2>0, <2>2, <3>1, WithoutAppendOne DEF Trails
  <2>3. CASE Leaves(here, e, tag) /\ Peer[e] \notin seen /\ Peer[e] # sender
    <3>1. y.queue = Append(x.queue, a) /\ queue' = Append(queue, a) /\ a[1] # sender
      BY <1>3, <1>7, <2>3 DEF Trails
    <3> HIDE DEF a
    <3>2. Without(Append(x.queue, a), Append(queue, a), sender)
      BY <1>1, <2>0, <2>3, <3>1, WithoutAppendBoth DEF Trails
    <3>3. Append(x.queue, a) \in Seq(Ports \X Tags)
      BY <2>0, <2>3, AppendProperties DEF Trails
    <3> QED BY <3>1, <3>2, <3>3
  <2> QED BY <2>1, <2>2, <2>3
<1>9. Trails(y)'
  BY <1>3, <1>4, <1>7, <1>8 DEF Trails
<1> QED BY <1>5, <1>6, <1>9

LEMMA TrailsFlooded ==
  ASSUME FloodInv, FloodedOut, sender' = sender, NEW x, Trails(x)
  PROVE  \E y : Trails(y)' /\ y = After(x) /\ ~Over(x)
<1>1. /\ here # NoPort /\ ~(next <= Len(Interfaces[DeviceOf[here]]))
      /\ here' = NoPort /\ tag' = Untagged /\ next' = 1
      /\ queue' = queue /\ seen' = seen /\ origin' = origin
      /\ ReachedPorts' = ReachedPorts
  <2>1. here \in Ports /\ next \in Nat
    BY DEF FloodedOut, FloodInv, TypeOK
  <2>2. Interfaces[DeviceOf[here]] \in Seq(Ports)
    BY <2>1, PortsAssumption
  <2>3. Len(Interfaces[DeviceOf[here]]) \in Nat
    BY <2>2
  <2> QED BY <2>1, <2>3 DEF FloodedOut, question, ReachedPorts
<1>2. PICK y : y = After(x)
  OBVIOUS
<1>3. y = AfterFlooded(x) /\ ~Over(x)
  BY <1>1, <1>2 DEF After, Over, Trails
<1>4. Trails(y)'
  BY <1>1, <1>3 DEF Trails, AfterFlooded
<1> QED BY <1>2, <1>3, <1>4

LEMMA FollowsOn ==
  ASSUME FloodInv, Step, sender \in Ports, ~IsSwitch(sender), Follows,
         sender' = sender, target' = target
  PROVE  Follows'
<1>1. PICK x : Trails(x) /\ Leads(x)
  BY DEF Follows
<1>2. PICK y : Trails(y)' /\ (y = x \/ (y = After(x) /\ ~Over(x)))
  <2>1. CASE Visit
    BY <1>1, <2>1, TrailsVisit
  <2>2. CASE FloodOut
    BY <1>1, <2>2, TrailsFlood
  <2>3. CASE FloodedOut
    BY <1>1, <2>3, TrailsFlooded
  <2> QED BY <2>1, <2>2, <2>3 DEF Step
<1>3. Leads(y)
  BY <1>1, <1>2, LeadsFromNext
<1>4. port' = port
  BY DEF Step, Visit, FloodOut, FloodedOut, question
<1>5. Leads(y)'
  BY <1>3, <1>4, SameTurns
<1> QED BY <1>2, <1>5 DEF Follows

\* At its end the frame's walk has reached what the request's had.
LEMMA FollowedIsReached ==
  ASSUME FloodInv, Done, Follows
  PROVE  target \in ReachedPorts \cup {origin}
<1>1. PICK x : Trails(x) /\ Leads(x)
  BY DEF Follows
<1>2. Over(x)
  BY <1>1, EmptyWithout DEF Done, Trails, Over
<1> QED BY <1>1, <1>2, LeadsNoFurther DEF Trails

-----------------------------------------------------------------------------
(* The request and the frame *)

\* The walk of the request, once the switch behind the sender's port has it.
First ==
  LET q == Peer[sender]
  IN  [queue |-> <<>>, seen |-> {sender, q}, got |-> {q},
       here |-> q, tag |-> TagAfter(q, VlanOf(sender)), next |-> 1]

\* How far the request has come: on the cable, dropped at its end, answered
\* there by a device that is no switch, or on its way from First.
Asked ==
  LET q == Peer[sender]
  IN  q # NoPort =>
        \/ /\ queue = << <<q, vlan>> >> /\ here = NoPort
           /\ seen = {sender} /\ reached = <<>>
        \/ Done /\ reached = <<>>
        \/ ~IsSwitch(q) /\ Done /\ ReachedPorts = {q}
        \/ IsSwitch(q) /\ LeadsTo(First, Now)

\* The target is in the frame's domain: in every set that has the first hops
\* and the next hops of its members.
HopsClosed(R) ==
  \A q \in Ports : FirstHop(q) \/ (\E p \in R : NextHop(p, q)) => q \in R
Finds == \A R \in SUBSET Ports : HopsClosed(R) => target \in R

\* The frame that has to find the device that answered.
FrameFollows ==
  /\ sender \in Ports /\ origin = Peer[sender] /\ origin \in Ports
  /\ IsSwitch(origin) /\ way = "in" /\ vlan = VlanOf(origin)
  /\ SameVlan => /\ VlanDecided => Finds
                 /\ ~IsSwitch(sender) => Follows

AnswerInv ==
  /\ phase = "arp" => vlan = VlanOf(sender) /\ walked = {} /\ Asked
  /\ phase = "frame" /\ ~IsSwitch(target) => FrameFollows
  /\ AnswerMeansDelivery

\* A request that is under way.
LEMMA AskedStep ==
  ASSUME FloodInv, Step, Asked, sender \in Ports, vlan = VlanOf(sender),
         UNCHANGED hop
  PROVE  Asked'
<1> DEFINE q == Peer[sender]
<1>1. /\ UNCHANGED question /\ sender' = sender /\ port' = port /\ vlan' = vlan
  BY DEF Step, Visit, FloodOut, FloodedOut, question, hop
<1>2. First' = First
  BY <1>1 DEF First, VlanOf, TagAfter, IsSwitch
<1>3. SUFFICES ASSUME q # NoPort
               PROVE  \/ Done' /\ reached' = <<>>
                      \/ ~IsSwitch(q) /\ Done' /\ ReachedPorts' = {q}
                      \/ IsSwitch(q) /\ LeadsTo(First, Now)'
  BY <1>1 DEF Asked, IsSwitch
<1>4. ~Done
  BY StepIsAfter DEF Over, Now, Done
<1>5. CASE /\ queue = << <<q, vlan>> >> /\ here = NoPort
           /\ seen = {sender} /\ reached = <<>>
  <2>1. Visit
    BY <1>5 DEF Step, FloodOut, FloodedOut
  <2>2. Head(queue) = <<q, vlan>> /\ Tail(queue) = <<>>
    BY <1>5
  <2>3. CASE q \in seen \/ ~Admits(q, vlan)
    BY <1>5, <2>1, <2>2, <2>3 DEF Visit, Done
  <2>4. CASE q \notin seen /\ Admits(q, vlan)
    <3>1. /\ reached' = <<q>> /\ queue' = <<>> /\ seen' = {sender, q}
          /\ IF IsSwitch(q)
             THEN here' = q /\ tag' = TagAfter(q, vlan) /\ next' = 1
             ELSE here' = NoPort
      BY <1>5, <2>1, <2>2, <2>4 DEF Visit
    <3>2. ReachedPorts' = {q}
      BY <3>1 DEF ReachedPorts
    <3>3. CASE ~IsSwitch(q)
      BY <3>1, <3>2, <3>3 DEF Done
    <3>4. CASE IsSwitch(q)
      <4>1. Now' = First
        BY <3>1, <3>2, <3>4 DEF Now, First
      <4> QED BY <1>2, <3>4, <4>1 DEF LeadsTo
    <3> QED BY <3>3, <3>4
  <2> QED BY <2>3, <2>4
<1>6. CASE IsSwitch(q) /\ LeadsTo(First, Now)
  <2>1. LeadsTo(First, After(Now)) /\ Now' = After(Now)
    BY <1>6, LeadsOneMore, StepIsAfter
  <2>2. PICK x, y : x = First /\ y = After(Now)
    OBVIOUS
  <2>3. LeadsTo(x, y)'
    BY <1>1, <2>1, <2>2, SameTurns
  <2>4. x = First' /\ y = Now'
    BY <1>2, <2>1, <2>2
  <2>5. LeadsTo(First, Now)'
    BY <2>3, <2>4 DEF LeadsTo
  <2> QED BY <1>6, <2>5
<1> QED BY <1>3, <1>4, <1>5, <1>6 DEF Asked

\* A set of numbers that is not empty has a least one.
LEMMA LeastOfNat ==
  ASSUME NEW S \in SUBSET Nat, S # {}
  PROVE  \E n \in S : \A m \in S : n <= m
<1> DEFINE Less == {p \in Nat \X Nat : p[1] < p[2]}
<1>1. IsWellFoundedOn(Less, Nat)
  BY ONLY NatLessThanWellFounded, Zenon DEF OpToRel
<1>2. PICK n \in S : \A m \in S : ~(<<m, n>> \in Less)
  <2> HIDE DEF Less
  <2> QED BY <1>1, WFMin
<1>3. \A m \in S : n <= m
  <2> SUFFICES ASSUME NEW m \in S PROVE n <= m
    OBVIOUS
  <2>1. ~(m < n)
    BY <1>2
  <2> QED BY <2>1
<1> QED BY <1>3

\* Who answers a request behind a switch is in the domain of the frame that the
\* switch gets in the same VLAN.
LEMMA AnswerIsFound ==
  ASSUME FloodInv, sender \in Ports, origin = sender, way = "out",
         NEW q \in Ports, q = Peer[sender], IsSwitch(q), vlan = VlanOf(sender),
         target \in ReachedPorts, target # q, target' = target,
         FloodInto(q, VlanOf(q)), SameVlan, VlanDecided'
  PROVE  Finds'
<1>1. /\ origin' = q /\ way' = "in" /\ vlan' = VlanOf(q) /\ port' = port
  BY DEF FloodInto
<1>2. FrameVlan = TagAfter(q, vlan) /\ FrameVlan' = FrameVlan
  <2>1. FrameVlan = TagAfter(q, vlan)
    BY PeerAssumption DEF FrameVlan
  <2>2. FrameVlan' = TagAfter(q, VlanOf(q))
    BY <1>1 DEF FrameVlan, TagAfter, IsSwitch
  <2> QED BY <2>1, <2>2 DEF SameVlan
<1>3. VlanDecided
  BY <1>1, <1>2 DEF VlanDecided
<1>4. ReachedJoined /\ TypeOK /\ origin # NoPort
  BY <1>3, PeerAssumption DEF FloodInv, DomainInv
<1>5. \A r : Member(r)' = Member(r)
  BY <1>1, <1>2 DEF Member, CarriesVlan, IsSwitch
<1>6. \A p, r : NextHop(p, r) /\ r # q => NextHop(p, r)'
  BY <1>1, <1>5 DEF NextHop, IsSwitch
<1>7. SUFFICES ASSUME NEW R \in SUBSET Ports, HopsClosed(R)' PROVE target \in R
  BY DEF Finds
<1>8. \A r \in Ports : FirstHop(r)' \/ (\E p \in R : NextHop(p, r)') => r \in R
  BY <1>7 DEF HopsClosed
<1>9. /\ Len(reached) \in Nat
      /\ \A i \in 1..Len(reached) : reached[i] \in Ports
  BY <1>4, ElementOfSeq DEF TypeOK
<1> DEFINE Missed == {i \in 1..Len(reached) : reached[i] \notin R \cup {q}}
<1>10. Missed = {}
  <2> SUFFICES ASSUME Missed # {} PROVE FALSE
    OBVIOUS
  <2>1. Missed \in SUBSET Nat
    OBVIOUS
  <2>2. PICK i \in Missed : \A j \in Missed : i <= j
    <3> HIDE DEF Missed
    <3> QED BY <2>1, LeastOfNat
  <2>3. PICK r : r = reached[i]
    OBVIOUS
  <2>4. i \in 1..Len(reached) /\ r \in Ports /\ r \notin R \cup {q}
    BY <1>9, <2>3
  <2>5. CASE FirstHop(r)
    BY <2>4, <2>5 DEF FirstHop
  <2>6. CASE \E j \in 1..(i - 1) : NextHop(reached[j], r)
    <3>1. PICK j \in 1..(i - 1) : NextHop(reached[j], r)
      BY <2>6
    <3>2. PICK p : p = reached[j]
      OBVIOUS
    <3>3. j \in 1..Len(reached) /\ j \notin Missed
      BY <1>9, <2>2, <2>4
    <3>4. p \in R \cup {q}
      BY <3>2, <3>3
    <3>5. NextHop(p, r)'
      BY <1>6, <2>4, <3>1, <3>2
    <3>6. p = q => FirstHop(r)'
      BY <1>1, <3>5 DEF FirstHop
    <3> QED BY <1>8, <2>4, <3>4, <3>5, <3>6
  <2> QED BY <1>4, <2>3, <2>4, <2>5, <2>6 DEF ReachedJoined
<1> QED BY <1>9, <1>10 DEF ReachedPorts

\* What the invariant asks of the wiring, the question and the hop alone.
LEMMA SameHop ==
  ASSUME UNCHANGED question, UNCHANGED hop
  PROVE  /\ SameVlan' = SameVlan /\ VlanDecided' = VlanDecided /\ Finds' = Finds
         /\ AnswerMeansDelivery' = AnswerMeansDelivery
         /\ \A p : VlanOf(p)' = VlanOf(p) /\ IsSwitch(p)' = IsSwitch(p)
         /\ phase' = phase /\ sender' = sender /\ target' = target
         /\ walked' = walked /\ origin' = origin /\ way' = way /\ vlan' = vlan
         /\ port' = port
<1>1. /\ phase' = phase /\ sender' = sender /\ target' = target
      /\ walked' = walked /\ landed' = landed
      /\ origin' = origin /\ way' = way /\ vlan' = vlan /\ port' = port
  BY DEF hop, question
<1>2. \A p : VlanOf(p)' = VlanOf(p) /\ IsSwitch(p)' = IsSwitch(p)
  BY <1>1 DEF VlanOf, IsSwitch
<1>3. SameVlan' = SameVlan
  BY <1>1 DEF SameVlan, VlanOf, TagAfter, IsSwitch
<1>4. VlanDecided' = VlanDecided
  BY SameQuestion
<1>5. Finds' = Finds
  <2>1. \A R : HopsClosed(R)' = HopsClosed(R)
    BY SameQuestion DEF HopsClosed
  <2> QED BY <1>1, <2>1 DEF Finds
<1>6. AnswerMeansDelivery' = AnswerMeansDelivery
  BY <1>1, <1>3, <1>4 DEF AnswerMeansDelivery, IsSwitch
<1> QED BY <1>1, <1>2, <1>3, <1>4, <1>5, <1>6

LEMMA AnswerFlood ==
  ASSUME FloodInv, WalkInv, AnswerInv, Flood
  PROVE  AnswerInv'
<1>1. UNCHANGED question /\ UNCHANGED hop /\ Step
  BY DEF Flood, Step, Visit, FloodOut, FloodedOut
<1>2. /\ SameVlan' = SameVlan /\ VlanDecided' = VlanDecided /\ Finds' = Finds
      /\ AnswerMeansDelivery' = AnswerMeansDelivery
      /\ \A p : VlanOf(p)' = VlanOf(p) /\ IsSwitch(p)' = IsSwitch(p)
      /\ phase' = phase /\ sender' = sender /\ target' = target
      /\ walked' = walked /\ origin' = origin /\ way' = way /\ vlan' = vlan
      /\ port' = port
  BY <1>1, SameHop
<1>3. ASSUME phase = "arp" PROVE Asked'
  BY <1>1, <1>3, AskedStep DEF WalkInv, AnswerInv
<1>4. ASSUME phase = "frame", ~IsSwitch(target) PROVE FrameFollows'
  <2>1. FrameFollows
    BY <1>4 DEF AnswerInv
  <2>2. SameVlan /\ ~IsSwitch(sender) => Follows'
    BY <1>1, <1>2, <2>1, FollowsOn DEF FrameFollows
  <2>3. VlanOf(origin)' = VlanOf(origin)
    BY <1>2 DEF VlanOf
  <2> QED BY <1>2, <2>1, <2>2, <2>3 DEF FrameFollows, IsSwitch
<1>5. VlanOf(sender)' = VlanOf(sender)
  BY <1>2 DEF VlanOf
<1> QED BY <1>2, <1>3, <1>4, <1>5 DEF AnswerInv, IsSwitch

LEMMA AnswerStutters ==
  ASSUME AnswerInv, UNCHANGED <<vars, hop>>
  PROVE  AnswerInv'
<1>1. UNCHANGED question /\ UNCHANGED hop /\ UNCHANGED walk
  BY DEF vars
<1>2. /\ SameVlan' = SameVlan /\ VlanDecided' = VlanDecided /\ Finds' = Finds
      /\ AnswerMeansDelivery' = AnswerMeansDelivery
      /\ phase' = phase /\ sender' = sender /\ target' = target
      /\ walked' = walked /\ origin' = origin /\ way' = way /\ vlan' = vlan
      /\ port' = port
  BY <1>1, SameHop
<1>3. VlanOf(sender)' = VlanOf(sender) /\ VlanOf(origin)' = VlanOf(origin)
  BY <1>2 DEF VlanOf
<1>4. /\ queue' = queue /\ seen' = seen /\ reached' = reached /\ here' = here
      /\ tag' = tag /\ next' = next /\ ReachedPorts' = ReachedPorts
  BY <1>1 DEF walk, ReachedPorts
<1>5. Asked => Asked'
  <2>1. First' = First /\ Now' = Now
    BY <1>2, <1>3, <1>4 DEF First, Now, TagAfter, IsSwitch
  <2>2. LeadsTo(First, Now) => LeadsTo(First, Now)'
    <3>1. \A S : ClosedUnder(S)' = ClosedUnder(S)
      BY <1>2, SameTurns
    <3> QED BY <2>1, <3>1 DEF LeadsTo
  <2> QED BY <1>2, <1>4, <2>2 DEF Asked, Done, IsSwitch
<1>6. Follows => Follows'
  <2>1. \A x : Trails(x) => Trails(x)'
    BY <1>2, <1>4 DEF Trails
  <2>2. \A x : Leads(x)' = Leads(x)
    BY <1>2, SameTurns
  <2> QED BY <2>1, <2>2 DEF Follows
<1>7. FrameFollows => FrameFollows'
  BY <1>2, <1>3, <1>6 DEF FrameFollows, IsSwitch
<1> QED BY <1>2, <1>3, <1>5, <1>7 DEF AnswerInv, IsSwitch

\* The request is answered: by the device behind the sender's port, or to the
\* switch there, which gets the frame.
LEMMA AnswerArrives ==
  ASSUME FloodInv, WalkInv, AnswerInv, ArpAnswered
  PROVE  AnswerInv'
<1> DEFINE q == Peer[sender]
<1>1. /\ phase = "arp" /\ Done /\ target \in ReachedPorts
      /\ sender' = sender /\ target' = target /\ q \in Ports /\ q # NoPort
      /\ sender \in Ports /\ origin = sender /\ way = "out"
      /\ vlan = VlanOf(sender) /\ walked = {} /\ Asked
  <2>1. q \in Ports
    BY AnsweredIsPlugged DEF ArpAnswered
  <2> QED BY <2>1, PeerAssumption DEF ArpAnswered, WalkInv, AnswerInv
<1>2. \/ ~IsSwitch(q) /\ ReachedPorts = {q}
      \/ IsSwitch(q) /\ LeadsTo(First, Now)
  BY <1>1 DEF Asked, Done, ReachedPorts
<1>3. CASE ~IsSwitch(q)
  <2>1. phase' = "landed" /\ landed' = {DeviceOf[q]}
    BY <1>1, <1>3 DEF ArpAnswered, Arrive
  <2>2. target = q
    BY <1>1, <1>2, <1>3
  <2> QED BY <1>1, <2>1, <2>2 DEF AnswerInv, AnswerMeansDelivery
<1>4. CASE IsSwitch(q)
  <2>1. phase' = "frame" /\ FloodInto(q, VlanOf(q))
    BY <1>1, <1>4 DEF ArpAnswered, Arrive
  <2>2. /\ origin' = q /\ way' = "in" /\ vlan' = VlanOf(q) /\ port' = port
        /\ seen' = {q} /\ here' = q /\ next' = 1 /\ queue' = <<>>
        /\ tag' = TagAfter(q, VlanOf(q))
    BY <1>1, <2>1 DEF FloodInto, Done
  <2>3. SameVlan' = SameVlan
    BY <1>1, <2>2 DEF SameVlan, VlanOf, TagAfter, IsSwitch
  <2>4. ASSUME ~IsSwitch(target), SameVlan, VlanDecided' PROVE Finds'
    <3>1. target # q
      BY <1>4, <2>4
    <3> HIDE DEF q
    <3>2. q = Peer[sender]
      BY DEF q
    <3> QED BY <1>1, <1>4, <2>1, <2>4, <3>1, <3>2, AnswerIsFound
  <2>5. ASSUME SameVlan PROVE Follows'
    <3>1. PICK x : x = First
      OBVIOUS
    <3>2. /\ x.queue = <<>> /\ x.seen = {sender, q} /\ x.got = {q} /\ x.here = q
          /\ x.tag = TagAfter(q, VlanOf(sender)) /\ x.next = 1
      BY <3>1 DEF First
    <3>3. x.tag = tag'
      BY <2>2, <2>5, <3>2 DEF SameVlan
    <3>4. Without(<<>>, <<>>, sender)
      BY WithoutEmpty
    <3>5. Trails(x)'
      BY <1>1, <2>2, <3>2, <3>3, <3>4 DEF Trails
    <3>6. Over(Now) /\ target \in Now.got
      BY <1>1 DEF Over, Now, Done
    <3>7. LeadsTo(x, Now)
      BY <1>2, <1>4, <3>1
    <3>8. Leads(x)
      BY <3>6, <3>7, LeadsToLeads
    <3>9. Leads(x)'
      BY <1>1, <2>2, <3>8, SameTurns
    <3> QED BY <3>5, <3>9 DEF Follows
  <2>6. VlanOf(q) = VlanOf(origin)'
    BY <2>2 DEF VlanOf
  <2>7. ~IsSwitch(target) => FrameFollows'
    BY <1>1, <1>4, <2>2, <2>3, <2>4, <2>5, <2>6 DEF FrameFollows, IsSwitch
  <2> QED BY <1>1, <2>1, <2>7 DEF AnswerInv, AnswerMeansDelivery, IsSwitch
<1> QED BY <1>3, <1>4

\* A frame that is lost was not one that had to find the target.
LEMMA AnswerLost ==
  ASSUME FloodInv, FloodFillsDomain, WalkInv, AnswerInv, FrameLost
  PROVE  AnswerInv'
<1>1. /\ phase = "frame" /\ phase' = "lost" /\ Done /\ target \notin ReachedPorts
      /\ UNCHANGED <<vars, sender, target, walked, landed>>
  BY DEF FrameLost
<1>2. /\ port' = port /\ sender' = sender /\ target' = target
      /\ UNCHANGED question
  BY <1>1 DEF vars, question
<1>3. SameVlan' = SameVlan /\ VlanDecided' = VlanDecided
  BY <1>2, SameQuestion DEF SameVlan, VlanOf, TagAfter, IsSwitch
<1>4. ASSUME ~IsSwitch(target), SameVlan
      PROVE  IsSwitch(sender) /\ ~VlanDecided
  <2>1. FrameFollows
    BY <1>1, <1>4 DEF AnswerInv
  <2>2. target # origin
    BY <1>4, <2>1 DEF FrameFollows
  <2>3. IsSwitch(sender)
    <3> SUFFICES ASSUME ~IsSwitch(sender) PROVE FALSE
      OBVIOUS
    <3>1. Follows
      BY <1>4, <2>1 DEF FrameFollows
    <3> QED BY <1>1, <2>2, <3>1, FollowedIsReached
  <2>4. ~VlanDecided
    <3> SUFFICES ASSUME VlanDecided PROVE FALSE
      OBVIOUS
    <3>1. Finds
      BY <1>4, <2>1 DEF FrameFollows
    <3>2. origin # NoPort
      BY <2>1, PeerAssumption DEF FrameFollows
    <3>3. HopsClosed(ReachedPorts)
      BY <1>1, <3>2 DEF FloodFillsDomain, HopsClosed
    <3>4. ReachedPorts \in SUBSET Ports
      BY ReachedArePorts DEF FloodInv
    <3> QED BY <1>1, <3>1, <3>3, <3>4 DEF Finds
  <2> QED BY <2>3, <2>4
<1> QED BY <1>1, <1>2, <1>3, <1>4 DEF AnswerInv, AnswerMeansDelivery, IsSwitch

LEMMA AnswerPreserves ==
  ASSUME FloodInv, FloodFillsDomain, WalkInv, AnswerInv,
         [WalkNext]_<<vars, hop>>
  PROVE  AnswerInv'
<1>1. CASE \E p, t \in Ports : ArpRequest(p, t)
  <2>1. PICK p \in Ports, t \in Ports : ArpRequest(p, t)
    BY <1>1
  <2>2. /\ phase' = "arp" /\ sender' = p /\ walked' = {} /\ vlan' = VlanOf(p)
        /\ port' = port /\ here' = NoPort /\ seen' = {p} /\ reached' = <<>>
        /\ queue' = IF Peer[p] = NoPort THEN <<>> ELSE << <<Peer[p], VlanOf(p)>> >>
    BY <2>1 DEF ArpRequest, Broadcast, Asking, Done
  <2>3. VlanOf(sender)' = VlanOf(p)
    BY <2>2 DEF VlanOf
  <2>4. Asked'
    BY <2>2 DEF Asked
  <2> QED BY <2>2, <2>3, <2>4 DEF AnswerInv, AnswerMeansDelivery
<1>2. CASE \E p \in Ports : DhcpDiscover(p)
  BY <1>2 DEF DhcpDiscover, Asking, AnswerInv, AnswerMeansDelivery
<1>3. CASE Flood
  BY <1>3, AnswerFlood
<1>4. CASE ArpAnswered
  BY <1>4, AnswerArrives
<1>5. CASE ArpTimeout
  BY <1>5 DEF ArpTimeout, AnswerInv, AnswerMeansDelivery
<1>6. CASE SwitchForward
  <2>1. /\ sender' = sender /\ target' = target
        /\ \/ phase' = "landed" /\ landed' = {DeviceOf[target]}
           \/ phase' = "frame" /\ IsSwitch(target)
    BY <1>6 DEF SwitchForward, Arrive
  <2> QED BY <2>1 DEF AnswerInv, AnswerMeansDelivery, IsSwitch
<1>7. CASE FrameLost
  BY <1>7, AnswerLost
<1>8. CASE UNCHANGED <<vars, hop>>
  BY <1>8, AnswerStutters
<1> QED BY <1>1, <1>2, <1>3, <1>4, <1>5, <1>6, <1>7, <1>8 DEF WalkNext

\* Whoever got an answer to an ARP request gets the frame to the device that
\* answered, whatever loops the two walks meet and in whatever order, where the
\* first switch keeps them in one VLAN; a sender that is a switch, where that VLAN
\* is decided before the walk branches.
THEOREM AnswersMeanDelivery == WalkSpec => []AnswerMeansDelivery
<1>1. WalkInit => AnswerInv
  BY DEF WalkInit, AnswerInv, AnswerMeansDelivery
<1>2. FloodInv /\ FloodFillsDomain /\ WalkInv /\ AnswerInv /\ [WalkNext]_<<vars, hop>>
        => AnswerInv'
  BY AnswerPreserves
<1>3. WalkSpec => []FloodFillsDomain
  BY WalkImplementsFlooding, FloodReachesDomain, PTL
<1>4. AnswerInv => AnswerMeansDelivery
  BY DEF AnswerInv
<1> QED BY <1>1, <1>2, <1>3, <1>4, WalkInvariant, PTL DEF WalkSpec
=============================================================================
