--------------------------- MODULE Grading_proofs ---------------------------
(***************************************************************************)
(* About the simulated network, in a lab or out of one.  Faults and        *)
(* repairs keep it a network that can be simulated; every route of a       *)
(* routing table is accounted for by an interface, a static route or a     *)
(* neighbour; and every ARP answer in a cache is of a port that has the    *)
(* address, heard where a packet would leave for it.  From that:           *)
(*  - learned routes are one hop long (LearnedRouteLeadsThere);            *)
(*  - a lease is an address that can be used (LeaseIsUsable);              *)
(*  - a question has one answer in a given network, because the exchange   *)
(*    that answers it takes each step in one way (SameQuestionSameVerdict);*)
(*  - a lab put right again answers as its author's network does, though   *)
(*    its static routes be in another order (MendedScoresFull);            *)
(*  - in a well-configured network a packet has more hops left than there  *)
(*    are routers before it (WellConfiguredReaches).                       *)
(***************************************************************************)
EXTENDS GradingAnswers, TLAPS, FiniteSetTheorems, SequenceTheorems, WellFoundedInduction

-----------------------------------------------------------------------------
(* Least elements, and the two loops *)

LEMMA LeastOfNat ==
  ASSUME NEW S \in SUBSET Nat, S # {}
  PROVE  \E n \in S : \A m \in S : n <= m
<1> DEFINE Less == {p \in Nat \X Nat : p[1] < p[2]}
<1>1. IsWellFoundedOn(Less, Nat)
  BY ONLY NatLessThanWellFounded, Zenon DEF OpToRel
<1>2. PICK n \in S : \A m \in S : ~(<<m, n>> \in Less)
  <2> HIDE DEF Less
  <2> QED BY <1>1, WFMin
<1>3. \A m \in S : n <= m
  <2> SUFFICES ASSUME NEW m \in S PROVE n <= m
    OBVIOUS
  <2>1. ~(m < n)
    BY <1>2
  <2> QED BY <2>1
<1> QED BY <1>3

\* What holds at 0 and is handed on holds up to n.
LEMMA UpTo ==
  ASSUME NEW n \in Nat, NEW S \in SUBSET Nat,
         0 \in S, \A i \in 0..n : i \in S => i + 1 \in S
  PROVE  n \in S
<1> SUFFICES ASSUME n \notin S PROVE FALSE
  OBVIOUS
<1> DEFINE Bad == {i \in 0..n : i \notin S}
<1>1. PICK i \in Bad : \A j \in Bad : i <= j
  <2>1. Bad \in SUBSET Nat /\ Bad # {}
    OBVIOUS
  <2> HIDE DEF Bad
  <2> QED BY <2>1, LeastOfNat
<1>2. i \in 0..n /\ i \notin S /\ i # 0
  OBVIOUS
<1>3. i - 1 \in 0..n /\ i - 1 \notin Bad
  BY <1>1, <1>2
<1>4. i - 1 \in S
  BY <1>3
<1> QED BY <1>2, <1>3, <1>4

\* A loop of n turns, each a function of what the one before it left, runs.
LEMMA LoopRuns ==
  ASSUME NEW V, NEW start \in V, NEW n \in Nat, NEW turn \in [1..n -> [V -> V]]
  PROVE  \E b \in [0..n -> V] : b[0] = start /\ \A i \in 1..n : b[i] = turn[i][b[i - 1]]
<1> DEFINE Runs(b, m) == b[0] = start /\ \A i \in 1..m : b[i] = turn[i][b[i - 1]]
           Can == {m \in Nat : m <= n => \E b \in [0..n -> V] : Runs(b, m)}
<1>1. 0 \in Can
  <2>1. [i \in 0..n |-> start] \in [0..n -> V] /\ Runs([i \in 0..n |-> start], 0)
    OBVIOUS
  <2> QED BY <2>1
<1>2. ASSUME NEW m \in 0..n, m \in Can PROVE m + 1 \in Can
  <2> SUFFICES ASSUME m + 1 <= n
               PROVE  \E b \in [0..n -> V] : Runs(b, m + 1)
    OBVIOUS
  <2>1. PICK b \in [0..n -> V] : Runs(b, m)
    BY <1>2
  <2> DEFINE next == turn[m + 1][b[m]]
             c == [b EXCEPT ![m + 1] = next]
  <2>2. next \in V
    <3>1. b[m] \in V /\ m + 1 \in 1..n
      BY <2>1
    <3> QED BY <3>1
  <2>3. c \in [0..n -> V] /\ c[m + 1] = next /\ \A i \in 0..n : i # m + 1 => c[i] = b[i]
    <3> HIDE DEF next
    <3> QED BY <2>1, <2>2
  <2>4. ASSUME NEW i \in 1..(m + 1) PROVE c[i] = turn[i][c[i - 1]]
    <3>1. i - 1 \in 0..n /\ i - 1 # m + 1 /\ i \in 0..n
      BY <2>4
    <3>2. c[i - 1] = b[i - 1]
      BY <2>3, <3>1
    <3>3. CASE i = m + 1
      BY <2>3, <3>2, <3>3
    <3>4. CASE i # m + 1
      <4>1. i \in 1..m /\ c[i] = b[i]
        BY <2>3, <3>1, <3>4
      <4> QED BY <2>1, <3>2, <4>1
    <3> QED BY <3>3, <3>4
  <2>5. c[0] = start
    BY <2>1, <2>3
  <2> HIDE DEF c
  <2> QED BY <2>3, <2>4, <2>5
<1>3. n \in Can
  <2>1. Can \in SUBSET Nat
    OBVIOUS
  <2> HIDE DEF Can
  <2> QED BY <1>1, <1>2, <2>1, UpTo
<1> QED BY <1>3

\* What is left of a router's routes are routes.
LEMMA WithoutIsTyped ==
  ASSUME NEW S, NEW routes \in Seq(S), NEW n
  PROVE  Without(routes, n) \in Seq(S)
<1> DEFINE len == Len(routes)
           Turn(left, i) == IF n \in {{}, routes[i].network} THEN left
                            ELSE Append(left, routes[i])
           turn == [i \in 1..len |-> [left \in Seq(S) |-> Turn(left, i)]]
           Loop(b) == b = [i \in 0..len |-> IF i = 0 THEN <<>>
                           ELSE IF n \in {{}, routes[i].network} THEN b[i - 1]
                           ELSE Append(b[i - 1], routes[i])]
           kept == CHOOSE b : Loop(b)
<1>1. len \in Nat /\ \A i \in 1..len : routes[i] \in S
  BY ElementOfSeq
<1>2. \A left \in Seq(S), i \in 1..len : Turn(left, i) \in Seq(S)
  BY <1>1
<1>3. turn \in [1..len -> [Seq(S) -> Seq(S)]]
  <2> HIDE DEF Turn
  <2> QED BY <1>2
<1>4. PICK b \in [0..len -> Seq(S)] : b[0] = <<>> /\ \A i \in 1..len : b[i] = turn[i][b[i - 1]]
  <2> DEFINE V == Seq(S)
             none == <<>>
  <2>1. none \in V /\ turn \in [1..len -> [V -> V]] /\ len \in Nat
    BY <1>1, <1>3
  <2> HIDE DEF turn, len, V, none
  <2>2. \E b \in [0..len -> V] : b[0] = none /\ \A i \in 1..len : b[i] = turn[i][b[i - 1]]
    BY <2>1, LoopRuns
  <2> QED BY <2>2 DEF V, none
<1>5. \A i \in 1..len : b[i] = Turn(b[i - 1], i)
  <2> SUFFICES ASSUME NEW i \in 1..len PROVE b[i] = Turn(b[i - 1], i)
    OBVIOUS
  <2>1. b[i - 1] \in Seq(S)
    <3>1. i - 1 \in 0..len
      BY <1>1
    <3> HIDE DEF len
    <3> QED BY <1>4, <3>1
  <2> HIDE DEF Turn
  <2> QED BY <1>4, <2>1
<1>6. Loop(b)
  <2>1. \A i \in 0..len : i # 0 => i \in 1..len
    BY <1>1
  <2> HIDE DEF len
  <2> QED BY <1>4, <1>5, <2>1
<1>7. Loop(kept)
  <2> HIDE DEF Loop
  <2> QED BY <1>6
<1>8. Without(routes, n) = kept[len]
  BY DEF Without
<1>9. kept[0] = <<>> /\ \A i \in 0..len : i # 0 => kept[i] = Turn(kept[i - 1], i)
  <2>1. 0 \in 0..len
    BY <1>1
  <2> HIDE DEF kept, len
  <2> QED BY <1>7, <2>1
<1> DEFINE Typed == {i \in Nat : i <= len => kept[i] \in Seq(S)}
<1> HIDE DEF kept
<1>10. 0 \in Typed
  <2>1. <<>> \in Seq(S)
    OBVIOUS
  <2> QED BY <1>1, <1>9, <2>1
<1>11. ASSUME NEW i \in 0..len, i \in Typed PROVE i + 1 \in Typed
  <2> SUFFICES ASSUME i + 1 <= len PROVE kept[i + 1] \in Seq(S)
    BY <1>1
  <2>1. kept[i] \in Seq(S) /\ i + 1 \in 1..len
    BY <1>1, <1>11
  <2>2. kept[i + 1] = Turn(kept[(i + 1) - 1], i + 1) /\ (i + 1) - 1 = i
    <3> HIDE DEF Turn
    <3> QED BY <1>1, <1>9, <2>1
  <2>3. kept[i + 1] = Turn(kept[i], i + 1)
    <3> HIDE DEF Turn
    <3> QED BY <2>2
  <2> HIDE DEF Turn
  <2> QED BY <1>2, <2>1, <2>3
<1>12. len \in Typed
  <2>1. Typed \in SUBSET Nat
    OBVIOUS
  <2> HIDE DEF Typed, len
  <2> QED BY <1>1, <1>10, <1>11, <2>1, UpTo
<1> QED BY <1>1, <1>8, <1>12

-----------------------------------------------------------------------------
(* Faults and repairs keep a document a document *)

Fields == [up : SUBSET Ports, cabled : SUBSET Ports, ip : [Ports -> AnyAddress],
           net : [Ports -> Subnets], gateway : [Devices -> AnyAddress],
           routes : [Devices -> Seq(StaticRoute)],
           speaks : [Devices -> SUBSET {"ospf", "eigrp", "rip"}],
           advertises : [Devices -> SUBSET Subnets],
           resolver : [Devices -> AnyAddress], pools : [Devices -> Seq(DhcpPool)]]

Drawn == {d \in Fields : \A p \in Ports : Addressed(d.ip[p], d.net[p])}

LEMMA DrawnIsDocument == \A d : d \in Drawn <=> Document(d)
  BY DEF Drawn, Document, Fields

\* One field after the other, and the two that belong together.
LEMMA FieldsKept ==
  ASSUME NEW d \in Drawn
  PROVE  /\ \A U \in SUBSET Ports : [d EXCEPT !.up = U] \in Drawn
         /\ \A U \in SUBSET Ports : [d EXCEPT !.cabled = U] \in Drawn
         /\ \A r \in Devices, a \in AnyAddress : [d EXCEPT !.gateway[r] = a] \in Drawn
         /\ \A r \in Devices, t \in Seq(StaticRoute) : [d EXCEPT !.routes[r] = t] \in Drawn
         /\ \A p \in Ports, a \in AnyAddress, n \in Subnets :
              Addressed(a, n) => Readdressed(d, p, a, n) \in Drawn
<1>1. d \in Fields /\ \A p \in Ports : Addressed(d.ip[p], d.net[p])
  BY DEF Drawn
<1>2. ASSUME NEW U \in SUBSET Ports PROVE [d EXCEPT !.up = U] \in Drawn
  BY <1>1, <1>2 DEF Drawn, Fields
<1>3. ASSUME NEW U \in SUBSET Ports PROVE [d EXCEPT !.cabled = U] \in Drawn
  BY <1>1, <1>3 DEF Drawn, Fields
<1>4. ASSUME NEW r \in Devices, NEW a \in AnyAddress PROVE [d EXCEPT !.gateway[r] = a] \in Drawn
  BY <1>1, <1>4 DEF Drawn, Fields
<1>5. ASSUME NEW r \in Devices, NEW t \in Seq(StaticRoute)
      PROVE  [d EXCEPT !.routes[r] = t] \in Drawn
  BY <1>1, <1>5 DEF Drawn, Fields
<1>6. ASSUME NEW p \in Ports, NEW a \in AnyAddress, NEW n \in Subnets, Addressed(a, n)
      PROVE  Readdressed(d, p, a, n) \in Drawn
  <2> DEFINE e == Readdressed(d, p, a, n)
  <2>1. e \in Fields
    BY <1>1, <1>6 DEF Fields, Readdressed
  <2>2. ASSUME NEW q \in Ports PROVE Addressed(e.ip[q], e.net[q])
    <3>1. e.ip[q] = (IF q = p THEN a ELSE d.ip[q]) /\ e.net[q] = (IF q = p THEN n ELSE d.net[q])
      BY <1>1, <1>6 DEF Fields, Readdressed
    <3> QED BY <1>1, <1>6, <3>1 DEF Addressed
  <2> QED BY <2>1, <2>2 DEF Drawn
<1> QED BY <1>2, <1>3, <1>4, <1>5, <1>6

LEMMA FaultKeepsDocument ==
  ASSUME NEW d \in Drawn, NEW f \in Faults
  PROVE  ApplyOne(d, f) \in Drawn
<1>1. /\ f.kind \in FaultKinds /\ f.device \in Named /\ f.port \in Ports
      /\ f.address \in AnyAddress /\ f.network \in Subnets
      /\ f.kind = "wrong_address" => Addressed(f.address, f.network)
  BY FaultsAssumption
<1>2. d \in Fields
  BY DEF Drawn
<1>3. CASE f.device \notin Devices
  BY <1>3 DEF ApplyOne
<1>4. CASE f.device \in Devices /\ f.kind = "shutdown_interface"
  <2>1. ApplyOne(d, f) = [d EXCEPT !.up = d.up \ {f.port}] /\ d.up \ {f.port} \in SUBSET Ports
    BY <1>2, <1>4 DEF ApplyOne, Shutdown, Fields
  <2> QED BY <2>1, FieldsKept
<1>5. CASE f.device \in Devices /\ f.kind = "wrong_address"
  <2>1. ApplyOne(d, f) = Readdressed(d, f.port, f.address, f.network)
    BY <1>5 DEF ApplyOne
  <2> QED BY <1>1, <1>5, <2>1, FieldsKept
<1>6. CASE f.device \in Devices /\ f.kind = "wrong_gateway"
  <2>1. ApplyOne(d, f) = [d EXCEPT !.gateway[f.device] = f.address]
    BY <1>6 DEF ApplyOne, Rerouted
  <2> QED BY <1>1, <1>6, <2>1, FieldsKept
<1>7. CASE f.device \in Devices /\ f.kind = "remove_static_route"
  <2> DEFINE left == Without(d.routes[f.device], f.network)
  <2>1. left \in Seq(StaticRoute)
    <3>1. d.routes[f.device] \in Seq(StaticRoute)
      BY <1>2, <1>7 DEF Fields
    <3> QED BY <3>1, WithoutIsTyped
  <2>2. ApplyOne(d, f) = [d EXCEPT !.routes[f.device] = left]
    BY <1>7 DEF ApplyOne, Unrouted
  <2> HIDE DEF left
  <2> QED BY <1>7, <2>1, <2>2, FieldsKept
<1>8. CASE f.device \in Devices /\ f.kind \in {"disable_link", "wrong_cable"}
  <2> DEFINE left == d.cabled \ {p \in Ports : Lan[p] = Lan[f.port]}
  <2>1. left \in SUBSET Ports
    BY <1>2 DEF Fields
  <2>2. ApplyOne(d, f) = [d EXCEPT !.cabled = left]
    BY <1>8 DEF ApplyOne, Unplugged
  <2> HIDE DEF left
  <2> QED BY <2>1, <2>2, FieldsKept
<1> QED BY <1>1, <1>3, <1>4, <1>5, <1>6, <1>7, <1>8 DEF FaultKinds

\* A list of faults is such a loop.
LEMMA FaultsRun ==
  ASSUME NEW d \in Drawn, NEW m \in Nat, NEW turn \in [1..m -> [Drawn -> Drawn]]
  PROVE  \E b \in [0..m -> Drawn] : b[0] = d /\ \A i \in 1..m : b[i] = turn[i][b[i - 1]]
BY LoopRuns

LEMMA FaultsKeepDocument ==
  ASSUME NEW d \in Drawn, NEW faults \in Seq(Faults)
  PROVE  ApplyFaults(d, faults) \in Drawn
<1> DEFINE len == Len(faults)
           turn == [i \in 1..len |-> [e \in Drawn |-> ApplyOne(e, faults[i])]]
<1>1. len \in Nat /\ \A i \in 1..len : faults[i] \in Faults
  BY ElementOfSeq
<1>2. turn \in [1..len -> [Drawn -> Drawn]]
  BY <1>1, FaultKeepsDocument
<1>3. PICK b \in [0..len -> Drawn] : b[0] = d /\ \A i \in 1..len : b[i] = turn[i][b[i - 1]]
  <2>1. PICK t \in [1..len -> [Drawn -> Drawn]] : t = turn
    BY <1>2
  <2>2. PICK m \in Nat : m = len
    BY <1>1
  <2> HIDE DEF turn, len
  <2>3. \E b \in [0..m -> Drawn] : b[0] = d /\ \A i \in 1..m : b[i] = t[i][b[i - 1]]
    <3>1. t \in [1..m -> [Drawn -> Drawn]]
      BY <2>1, <2>2
    <3>2. d \in Drawn /\ m \in Nat
      OBVIOUS
    <3> QED BY ONLY <3>1, <3>2, FaultsRun
  <2> QED BY <2>1, <2>2, <2>3
<1> DEFINE Loop(g) == g = [i \in 0..len |-> IF i = 0 THEN d ELSE ApplyOne(g[i - 1], faults[i])]
           broken == CHOOSE g : Loop(g)
<1>4. \A i \in 1..len : b[i] = ApplyOne(b[i - 1], faults[i])
  <2> SUFFICES ASSUME NEW i \in 1..len PROVE b[i] = ApplyOne(b[i - 1], faults[i])
    OBVIOUS
  <2>1. b[i - 1] \in Drawn
    <3>1. i - 1 \in 0..len
      BY <1>1
    <3> HIDE DEF len
    <3> QED BY <1>3, <3>1
  <2> QED BY <1>3, <2>1
<1>5. Loop(b)
  <2>1. \A i \in 0..len : i # 0 => i \in 1..len
    BY <1>1
  <2> HIDE DEF len
  <2> QED BY <1>3, <1>4, <2>1
<1>6. Loop(broken)
  <2> HIDE DEF Loop
  <2> QED BY <1>5
<1>7. ApplyFaults(d, faults) = broken[len]
  BY DEF ApplyFaults
<1>8. broken[0] = d /\ \A i \in 0..len : i # 0 => broken[i] = ApplyOne(broken[i - 1], faults[i])
  <2>1. 0 \in 0..len
    BY <1>1
  <2> HIDE DEF broken, len
  <2> QED BY <1>6, <2>1
<1> DEFINE Typed == {i \in Nat : i <= len => broken[i] \in Drawn}
<1> HIDE DEF broken
<1>9. 0 \in Typed
  BY <1>1, <1>8
<1>10. ASSUME NEW i \in 0..len, i \in Typed PROVE i + 1 \in Typed
  <2> SUFFICES ASSUME i + 1 <= len PROVE broken[i + 1] \in Drawn
    BY <1>1
  <2>1. broken[i] \in Drawn /\ i + 1 \in 1..len
    BY <1>1, <1>10
  <2>2. broken[i + 1] = ApplyOne(broken[(i + 1) - 1], faults[i + 1]) /\ (i + 1) - 1 = i
    BY <1>1, <1>8, <2>1
  <2>3. broken[i + 1] = ApplyOne(broken[i], faults[i + 1])
    BY <2>2
  <2> QED BY <1>1, <2>1, <2>3, FaultKeepsDocument
<1>11. len \in Typed
  <2>1. Typed \in SUBSET Nat
    OBVIOUS
  <2> HIDE DEF Typed, len
  <2> QED BY <1>1, <1>9, <1>10, <2>1, UpTo
<1> QED BY <1>1, <1>7, <1>11

LEMMA MendedIsDocument ==
  ASSUME Document(lab.document), NEW d \in Drawn, NEW p \in Ports, NEW e \in Mended(d, p)
  PROVE  e \in Drawn
<1> DEFINE h == DeviceOf[p]
           a == lab.document
<1>1. h \in Devices /\ d \in Fields /\ a \in Fields /\ \A q \in Ports : Addressed(a.ip[q], a.net[q])
  BY PortsAssumption, DrawnIsDocument DEF Drawn
<1>2. CASE e = [d EXCEPT !.up = d.up \cup {p}]
  <2>1. d.up \cup {p} \in SUBSET Ports
    BY <1>1 DEF Fields
  <2> QED BY <1>2, <2>1, FieldsKept
<1>3. CASE e = Readdressed(d, p, a.ip[p], a.net[p])
  <2>1. a.ip[p] \in AnyAddress /\ a.net[p] \in Subnets
    BY <1>1 DEF Fields
  <2> QED BY <1>1, <1>3, <2>1, FieldsKept
<1>4. CASE e = [d EXCEPT !.gateway[h] = a.gateway[h]]
  <2>1. a.gateway[h] \in AnyAddress
    BY <1>1 DEF Fields
  <2> QED BY <1>1, <1>4, <2>1, FieldsKept
<1>5. CASE e = [d EXCEPT !.cabled = d.cabled \cup {q \in Ports : Lan[q] = Lan[p]}]
  <2>1. d.cabled \cup {q \in Ports : Lan[q] = Lan[p]} \in SUBSET Ports
    BY <1>1 DEF Fields
  <2> QED BY <1>5, <2>1, FieldsKept
<1>6. ASSUME NEW t \in ToSet(a.routes[h]), e = [d EXCEPT !.routes[h] = Append(d.routes[h], t)]
      PROVE  e \in Drawn
  <2>1. a.routes[h] \in Seq(StaticRoute) /\ d.routes[h] \in Seq(StaticRoute)
    BY <1>1 DEF Fields
  <2>2. t \in StaticRoute
    BY <1>6, <2>1, ElementOfSeq DEF ToSet
  <2>3. Append(d.routes[h], t) \in Seq(StaticRoute)
    BY <2>1, <2>2
  <2> QED BY <1>1, <1>6, <2>3, FieldsKept
<1> QED BY <1>2, <1>3, <1>4, <1>5, <1>6 DEF Mended, Rerouted

-----------------------------------------------------------------------------
(* What the code chooses: the first port, the best route *)

LEMMA FirstIsIn == \A S \in SUBSET Ports : S # {} => First(S) \in S
<1> SUFFICES ASSUME NEW S \in SUBSET Ports, S # {} PROVE First(S) \in S
  OBVIOUS
<1>1. \A p \in Ports : Place(p) \in Nat
  <2> SUFFICES ASSUME NEW p \in Ports PROVE Place(p) \in Nat
    OBVIOUS
  <2>1. PICK i \in 1..Len(PortOrder) : PortOrder[i] = p
    BY PortsAssumption DEF Ports, ToSet
  <2> QED BY <2>1 DEF Place
<1>2. PICK n \in {Place(p) : p \in S} : \A m \in {Place(p) : p \in S} : n <= m
  <2> DEFINE T == {Place(p) : p \in S}
  <2>1. T \in SUBSET Nat /\ T # {}
    BY <1>1
  <2> HIDE DEF T
  <2>2. \E n \in T : \A m \in T : n <= m
    BY <2>1, LeastOfNat
  <2> QED BY <2>2 DEF T
<1>3. PICK p \in S : n = Place(p)
  BY <1>2
<1>4. \A q \in S : Place(p) <= Place(q)
  BY <1>2, <1>3
<1> QED BY <1>4 DEF First

\* What a routing table holds.
Entry == [network : Subnets, nextHop : AnyAddress, exit : Ports \cup {NoPort},
          distance : Nat, place : Nat]

LEMMA SubnetIsFinite ==
  \A n \in Subnets : n \subseteq Nat /\ IsFiniteSet(n) /\ Cardinality(n) \in Nat
<1> SUFFICES ASSUME NEW n \in Subnets
             PROVE  n \subseteq Nat /\ IsFiniteSet(n) /\ Cardinality(n) \in Nat
  OBVIOUS
<1>1. PICK f \in Addresses, l \in Addresses : n = f..l
  BY DEF Subnets
<1>2. f \in Nat /\ l \in Nat
  BY AddressesAssumption
<1>3. IsFiniteSet(n)
  BY <1>1, <1>2, FS_Interval
<1> QED BY <1>1, <1>2, <1>3, FS_CardinalityType

\* Of some routes, one is the first that lookup_route's order puts.
LEMMA SomeRouteIsFirst ==
  ASSUME NEW M \in SUBSET Entry, M # {}
  PROVE  \E t \in M : \A u \in M : Before(t, u)
<1> DEFINE Length(t) == Cardinality(t.network)
           Shortest == {t \in M : \A u \in M : Length(t) <= Length(u)}
           Nearest  == {t \in Shortest : \A u \in Shortest : t.distance <= u.distance}
<1>1. \A t \in M : Length(t) \in Nat /\ t.distance \in Nat /\ t.place \in Nat
  BY SubnetIsFinite DEF Entry
<1>2. Shortest # {}
  <2> DEFINE N == {Length(t) : t \in M}
  <2>1. N \in SUBSET Nat /\ N # {}
    BY <1>1
  <2> HIDE DEF N
  <2>2. \E n \in N : \A m \in N : n <= m
    BY <2>1, LeastOfNat
  <2> QED BY <2>2 DEF N
<1>3. Nearest # {}
  <2> DEFINE N == {t.distance : t \in Shortest}
  <2>1. N \in SUBSET Nat /\ N # {}
    BY <1>1, <1>2
  <2> HIDE DEF N, Shortest
  <2>2. \E n \in N : \A m \in N : n <= m
    BY <2>1, LeastOfNat
  <2> QED BY <2>2 DEF N
<1>4. PICK t \in Nearest : \A u \in Nearest : t.place <= u.place
  <2> DEFINE N == {t.place : t \in Nearest}
  <2>1. N \in SUBSET Nat /\ N # {}
    BY <1>1, <1>3
  <2> HIDE DEF N, Nearest, Shortest
  <2>2. \E n \in N : \A m \in N : n <= m
    BY <2>1, LeastOfNat
  <2> QED BY <2>2 DEF N
<1>5. ASSUME NEW u \in M PROVE Before(t, u)
  <2>1. t \in M /\ Length(t) <= Length(u)
    BY <1>5
  <2>2. CASE u \notin Shortest
    <3>1. PICK w \in M : ~(Length(u) <= Length(w))
      BY <2>2
    <3>2. Length(t) <= Length(w)
      BY <3>1
    <3>3. Length(t) < Length(u)
      <4> HIDE DEF Length
      <4> QED BY <1>1, <2>1, <3>1, <3>2
    <3> QED BY <3>3 DEF Before
  <2>3. CASE u \in Shortest
    <3>1. Length(t) = Length(u) /\ t.distance <= u.distance
      <4>1. Length(u) <= Length(t) /\ t.distance <= u.distance
        BY <2>1, <2>3
      <4> HIDE DEF Length, Nearest, Shortest
      <4> QED BY <1>1, <2>1, <4>1
    <3>2. CASE u \in Nearest
      <4>1. t.place <= u.place
        BY <1>4, <3>2
      <4> QED BY <1>1, <2>1, <3>1, <4>1 DEF Before
    <3>3. CASE u \notin Nearest
      <4>1. PICK w \in Shortest : ~(u.distance <= w.distance)
        BY <2>3, <3>3
      <4>2. t.distance <= w.distance
        BY <4>1
      <4>3. t.distance < u.distance
        <5>1. w \in M
          BY <4>1
        <5> HIDE DEF Nearest, Shortest, Length
        <5> QED BY <1>1, <2>1, <4>1, <4>2, <5>1
      <4> QED BY <3>1, <4>3 DEF Before
    <3> QED BY <3>2, <3>3
  <2> QED BY <2>2, <2>3
<1>6. t \in M
  BY <1>4
<1> QED BY <1>5, <1>6

\* What lookup_route finds is one of the routes that match, or the gateway.
LEMMA LookupFinds ==
  ASSUME NEW d, NEW a, table[d] \subseteq Entry, NEW t \in LookupRoute(d, a)
  PROVE  \/ /\ t \in table[d] /\ a \in t.network
            /\ \A u \in table[d] : a \in u.network => Before(t, u)
         \/ /\ doc.gateway[d] # NoAddress /\ \A u \in table[d] : a \notin u.network
            /\ t = Route(Addresses, doc.gateway[d], NoPort, 0, 0)
<1> DEFINE matches == {u \in table[d] : a \in u.network}
           Best(u) == \A w \in matches : Before(u, w)
<1>1. CASE matches # {}
  <2>1. t = CHOOSE u \in matches : Best(u)
    BY <1>1 DEF LookupRoute
  <2>2. \E u \in matches : Best(u)
    <3>1. matches \in SUBSET Entry
      OBVIOUS
    <3> HIDE DEF matches
    <3> QED BY <1>1, <3>1, SomeRouteIsFirst
  <2>3. t \in matches /\ Best(t)
    <3> HIDE DEF matches, Best
    <3> QED BY <2>1, <2>2
  <2> QED BY <2>3
<1>2. CASE matches = {}
  BY <1>2 DEF LookupRoute
<1> QED BY <1>1, <1>2

-----------------------------------------------------------------------------
(* Where the routes of a table come from *)

\* A route to a subnet of the device's own.
Connected(d, t) == \E p \in PortsOf(d) \cap doc.up : t.network = doc.net[p]

\* A route to a subnet of the router that the next hop is a port of, which is
\* on a subnet of the exit.
Learned(d, t) ==
  \E q \in Ports \cap doc.up : \E hop \in PortsOf(DeviceOf[q]) \cap doc.up :
    /\ t.network = doc.net[q] /\ t.nextHop = doc.ip[hop]
    /\ t.exit \in PortsOf(d) \cap doc.up
    /\ doc.net[hop] = doc.net[t.exit] /\ doc.net[hop] # {}

Static(d, t) ==
  \E i \in DOMAIN doc.routes[d] : t = AsRoute(doc.routes[d][i], Len(PortOrder) + i)

Accounted(d, t) == Connected(d, t) \/ Static(d, t) \/ Learned(d, t)

TablesSound ==
  \A d \in Devices : /\ table[d] \subseteq Entry
                     /\ \A t \in table[d] : Accounted(d, t)

LEMMA DocumentFields == Document(doc) => doc \in Fields
  BY DEF Document, Fields

LEMMA PlaceIsNat == \A p \in Ports : Place(p) \in Nat
<1> SUFFICES ASSUME NEW p \in Ports PROVE Place(p) \in Nat
  OBVIOUS
<1>1. PICK i \in 1..Len(PortOrder) : PortOrder[i] = p
  BY PortsAssumption DEF Ports, ToSet
<1> QED BY <1>1 DEF Place

LEMMA HopIsShared ==
  ASSUME NEW d, NEW peer, NEW via \in NextHopTowards(d, peer)
  PROVE  /\ via[1] \in PortsOf(d) \cap doc.up
         /\ via[2] \in PortsOf(peer) \cap doc.up
         /\ doc.net[via[2]] # {} /\ doc.net[via[2]] = doc.net[via[1]]
<1> DEFINE Shared(p) == {q \in PortsOf(peer) \cap doc.up :
                           doc.net[q] # {} /\ doc.net[q] = doc.net[p]}
           exits == {p \in PortsOf(d) \cap doc.up : Shared(p) # {}}
           exit == First(exits)
           hop == First(Shared(exit))
<1>1. exits # {} /\ via = <<exit, hop>>
  BY DEF NextHopTowards
<1>2. exit \in exits
  <2>1. exits \in SUBSET Ports
    BY DEF PortsOf
  <2> HIDE DEF exits
  <2> QED BY <1>1, <2>1, FirstIsIn
<1>3. hop \in Shared(exit)
  <2>1. Shared(exit) # {} /\ Shared(exit) \in SUBSET Ports
    <3> HIDE DEF exit
    <3> QED BY <1>2 DEF PortsOf
  <2> HIDE DEF Shared, exit
  <2> QED BY <2>1, FirstIsIn
<1> HIDE DEF exit, hop
<1> QED BY <1>1, <1>2, <1>3

LEMMA TableIsSound ==
  ASSUME Document(doc), NEW d \in Devices, NEW t \in RoutingTable(d)
  PROVE  t \in Entry /\ Accounted(d, t)
<1>1. doc \in Fields /\ Len(PortOrder) \in Nat
  BY DocumentFields, PortsAssumption
<1>2. CASE t \in ConnectedRoutes(d)
  <2>1. PICK p \in {q \in PortsOf(d) \cap doc.up : doc.net[q] # {}} :
               t = Route(doc.net[p], NoAddress, p, 0, Place(p))
    BY <1>2 DEF ConnectedRoutes
  <2>2. p \in Ports /\ doc.net[p] \in Subnets /\ Place(p) \in Nat
    BY <1>1, <2>1, PlaceIsNat DEF PortsOf, Fields
  <2>3. t \in Entry
    BY <2>1, <2>2 DEF Route, Entry, AnyAddress
  <2>4. Connected(d, t)
    BY <2>1 DEF Connected, Route
  <2> QED BY <2>3, <2>4 DEF Accounted
<1>3. CASE t \in StaticRoutes(d)
  <2>1. PICK i \in DOMAIN doc.routes[d] : t = AsRoute(doc.routes[d][i], Len(PortOrder) + i)
    BY <1>3 DEF StaticRoutes
  <2>2. doc.routes[d] \in Seq(StaticRoute)
    BY <1>1 DEF Fields
  <2>3. doc.routes[d][i] \in StaticRoute /\ i \in Nat
    BY <2>1, <2>2, ElementOfSeq
  <2>4. t \in Entry
    <3> DEFINE r == doc.routes[d][i]
    <3>1. r \in StaticRoute
      BY <2>3
    <3>2. t = AsRoute(r, Len(PortOrder) + i)
      BY <2>1
    <3>3. Len(PortOrder) + i \in Nat
      BY <1>1, <2>3
    <3> HIDE DEF r
    <3>4. r \in [network : Subnets, nextHop : AnyAddress, exit : Ports \cup {NoPort},
                 distance : 1..255]
      BY <3>1 DEF StaticRoute
    <3>5. /\ r.network \in Subnets /\ r.nextHop \in AnyAddress
          /\ r.exit \in Ports \cup {NoPort} /\ r.distance \in 1..255
      BY <3>4
    <3>6. PICK n \in Nat : n = Len(PortOrder) + i
      BY <3>3
    <3>7. t = [network |-> r.network, nextHop |-> r.nextHop, exit |-> r.exit,
               distance |-> r.distance, place |-> n]
      BY <3>2, <3>6 DEF AsRoute, Route
    <3>8. r.distance \in Nat
      BY <3>5
    <3> QED BY ONLY <3>5, <3>7, <3>8, n \in Nat DEF Entry
  <2>5. Static(d, t)
    BY <2>1 DEF Static
  <2> QED BY <2>4, <2>5 DEF Accounted
<1>4. CASE t \in LearnedRoutes(d)
  <2>1. PICK q \in {p \in Ports : Teaches(d, p)} :
          \E via \in NextHopTowards(d, DeviceOf[q]) :
            t = Route(doc.net[q], doc.ip[via[2]], via[1], 110,
                      Len(PortOrder) + Len(doc.routes[d]) + Place(q))
    BY <1>4 DEF LearnedRoutes
  <2>2. PICK via \in NextHopTowards(d, DeviceOf[q]) :
            t = Route(doc.net[q], doc.ip[via[2]], via[1], 110,
                      Len(PortOrder) + Len(doc.routes[d]) + Place(q))
    BY <2>1
  <2>3. q \in Ports /\ q \in doc.up
    BY <2>1 DEF Teaches
  <2>4. /\ via[1] \in PortsOf(d) \cap doc.up
        /\ via[2] \in PortsOf(DeviceOf[q]) \cap doc.up
        /\ doc.net[via[2]] # {} /\ doc.net[via[2]] = doc.net[via[1]]
    BY <2>2, HopIsShared
  <2>5. t \in Entry
    <3> DEFINE place == Len(PortOrder) + Len(doc.routes[d]) + Place(q)
    <3>1. doc.routes[d] \in Seq(StaticRoute)
      BY <1>1 DEF Fields
    <3>2. Len(doc.routes[d]) \in Nat /\ Place(q) \in Nat
      BY <2>3, <3>1, PlaceIsNat
    <3>3. place \in Nat
      BY <1>1, <3>2
    <3>4. doc.net[q] \in Subnets /\ doc.ip[via[2]] \in AnyAddress /\ via[1] \in Ports
      BY <1>1, <2>3, <2>4 DEF Fields, PortsOf
    <3>5. t = Route(doc.net[q], doc.ip[via[2]], via[1], 110, place)
      BY <2>2
    <3> HIDE DEF place
    <3> QED BY <3>3, <3>4, <3>5 DEF Route, Entry
  <2>6. Learned(d, t)
    <3>1. /\ t.network = doc.net[q] /\ t.nextHop = doc.ip[via[2]] /\ t.exit = via[1]
      BY <2>2 DEF Route
    <3> QED BY <2>3, <2>4, <3>1 DEF Learned
  <2> QED BY <2>5, <2>6 DEF Accounted
<1> QED BY <1>2, <1>3, <1>4 DEF RoutingTable

-----------------------------------------------------------------------------
(* The way out of a device *)

LEMMA LocalIsIn ==
  ASSUME NEW d, NEW a, Local(d, a) # {}
  PROVE  First(Local(d, a)) \in Local(d, a) /\ First(Local(d, a)) \in Ports
<1>1. Local(d, a) \in SUBSET Ports
  BY DEF Local, PortsOf
<1>2. First(Local(d, a)) \in Local(d, a)
  BY <1>1, FirstIsIn
<1> QED BY <1>1, <1>2

LEMMA EgressIsTyped ==
  ASSUME Document(doc), TablesSound, NEW d \in Devices, NEW a \in AnyAddress,
         NEW e \in ChooseEgress(d, a)
  PROVE  e \in (PortsOf(d) \cap doc.up) \X AnyAddress
<1>1. doc \in Fields /\ table[d] \subseteq Entry
  BY DocumentFields DEF TablesSound
<1>2. CASE Local(d, a) # {}
  <2>1. e = <<First(Local(d, a)), a>> /\ First(Local(d, a)) \in Local(d, a)
    BY <1>2, LocalIsIn DEF ChooseEgress
  <2> QED BY <2>1 DEF Local
<1>3. CASE Local(d, a) = {}
  <2>1. PICK route \in LookupRoute(d, a) :
          LET nextHop == IF route.nextHop = NoAddress THEN a ELSE route.nextHop
          IN  e \in Towards(d, route, nextHop) \X {nextHop}
    BY <1>3 DEF ChooseEgress
  <2>2. route.nextHop \in AnyAddress
    <3>1. CASE route \in table[d]
      BY <1>1, <3>1 DEF Entry
    <3>2. CASE route = Route(Addresses, doc.gateway[d], NoPort, 0, 0)
      BY <1>1, <3>2 DEF Route, Fields
    <3> QED BY <1>1, <3>1, <3>2, LookupFinds
  <2>3. PICK x \in AnyAddress : x = IF route.nextHop = NoAddress THEN a ELSE route.nextHop
    BY <2>2
  <2>4. e \in Towards(d, route, x) \X {x}
    BY <2>1, <2>3
  <2>5. Towards(d, route, x) \subseteq PortsOf(d) \cap doc.up
    <3>1. Local(d, x) # {} => First(Local(d, x)) \in PortsOf(d) \cap doc.up
      BY LocalIsIn DEF Local
    <3> QED BY <3>1 DEF Towards
  <2> QED BY <2>4, <2>5
<1> QED BY <1>2, <1>3

\* Without static routes and without a gateway, the way out is a port on the
\* next hop's subnet.
LEMMA EgressFacesHop ==
  ASSUME Document(doc), TablesSound, NEW d \in Devices, NEW a \in AnyAddress,
         doc.routes[d] = <<>>, doc.gateway[d] = NoAddress,
         NEW e \in ChooseEgress(d, a)
  PROVE  /\ e[1] \in Local(d, e[2])
         /\ \/ a = e[2]
            \/ \E q \in Ports \cap doc.up : \E hop \in PortsOf(DeviceOf[q]) \cap doc.up :
                 a \in doc.net[q] /\ e[2] = doc.ip[hop] /\ doc.ip[hop] \in Addresses
<1>1. doc \in Fields /\ table[d] \subseteq Entry /\ \A t \in table[d] : Accounted(d, t)
  BY DocumentFields DEF TablesSound
<1>2. CASE Local(d, a) # {}
  <2>1. e = <<First(Local(d, a)), a>> /\ First(Local(d, a)) \in Local(d, a)
    BY <1>2, LocalIsIn DEF ChooseEgress
  <2> QED BY <2>1
<1>3. CASE Local(d, a) = {}
  <2>1. PICK route \in LookupRoute(d, a) :
          LET nextHop == IF route.nextHop = NoAddress THEN a ELSE route.nextHop
          IN  e \in Towards(d, route, nextHop) \X {nextHop}
    BY <1>3 DEF ChooseEgress
  <2>2. route \in table[d] /\ a \in route.network
    BY <1>1, <2>1, LookupFinds
  <2>3. ~Connected(d, route)
    BY <1>3, <2>2 DEF Connected, Local
  <2>4. Learned(d, route)
    BY <1>1, <2>2, <2>3 DEF Accounted, Static
  <2>5. PICK q \in Ports \cap doc.up : \E h \in PortsOf(DeviceOf[q]) \cap doc.up :
          /\ route.network = doc.net[q] /\ route.nextHop = doc.ip[h]
          /\ route.exit \in PortsOf(d) \cap doc.up
          /\ doc.net[h] = doc.net[route.exit] /\ doc.net[h] # {}
    BY <2>4 DEF Learned
  <2>6. PICK hop \in PortsOf(DeviceOf[q]) \cap doc.up :
          /\ route.network = doc.net[q] /\ route.nextHop = doc.ip[hop]
          /\ route.exit \in PortsOf(d) \cap doc.up
          /\ doc.net[hop] = doc.net[route.exit] /\ doc.net[hop] # {}
    BY <2>5
  <2>7. hop \in Ports /\ doc.ip[hop] \in doc.net[hop] /\ doc.ip[hop] \in Addresses
    <3>1. hop \in Ports
      BY <2>6 DEF PortsOf
    <3>2. doc.ip[hop] \in doc.net[hop] /\ doc.net[hop] \in Subnets
      BY <1>1, <2>6, <3>1 DEF Document, Addressed, Fields
    <3>3. doc.net[hop] \subseteq Addresses
      BY <3>2, AddressesAssumption DEF Subnets
    <3> QED BY <3>1, <3>2, <3>3
  <2>8. e = <<route.exit, doc.ip[hop]>>
    <3>1. route.nextHop # NoAddress
      BY <2>6, <2>7, AddressesAssumption
    <3>2. e \in Towards(d, route, doc.ip[hop]) \X {doc.ip[hop]}
      BY <2>1, <2>6, <3>1
    <3>3. Towards(d, route, doc.ip[hop]) = {route.exit}
      BY <2>6 DEF Towards
    <3> QED BY <3>2, <3>3
  <2>9. route.exit \in Local(d, doc.ip[hop])
    BY <2>6, <2>7 DEF Local
  <2> QED BY <2>2, <2>5, <2>6, <2>7, <2>8, <2>9
<1> QED BY <1>2, <1>3

-----------------------------------------------------------------------------
(* One hop *)

\* While a packet travels, neither the topology nor the tables change.
LEMMA WaysStay ==
  ASSUME UNCHANGED known
  PROVE  /\ \A d, a : /\ Owns(d, a)' = Owns(d, a)
                      /\ Local(d, a)' = Local(d, a)
                      /\ ChooseEgress(d, a)' = ChooseEgress(d, a)
         /\ \A s : Working(s)' = Working(s)
         /\ \A p : Heard(p)' = Heard(p)
<1>1. doc' = doc /\ table' = table
  BY DEF known
<1>2. ASSUME NEW d, NEW a PROVE Owns(d, a)' = Owns(d, a)
  BY <1>1 DEF Owns
<1>3. ASSUME NEW d, NEW a PROVE Local(d, a)' = Local(d, a)
  BY <1>1 DEF Local, PortsOf
<1>4. ASSUME NEW d, NEW a PROVE ChooseEgress(d, a)' = ChooseEgress(d, a)
  <2>1. LookupRoute(d, a)' = LookupRoute(d, a)
    BY <1>1 DEF LookupRoute
  <2>2. ASSUME NEW route, NEW x PROVE Towards(d, route, x)' = Towards(d, route, x)
    <3>1. Local(d, x)' = Local(d, x)
      BY <1>3
    <3> QED BY <1>1, <3>1 DEF Towards, PortsOf
  <2>3. Local(d, a)' = Local(d, a)
    BY <1>3
  <2>4. CASE Local(d, a) # {}
    BY <2>3, <2>4 DEF ChooseEgress
  <2>5. CASE Local(d, a) = {}
    <3> DEFINE Ways(route) ==
                 LET nextHop == IF route.nextHop = NoAddress THEN a ELSE route.nextHop
                 IN  Towards(d, route, nextHop) \X {nextHop}
    <3>1. ChooseEgress(d, a) = UNION {Ways(route) : route \in LookupRoute(d, a)}
      BY <2>5 DEF ChooseEgress
    <3>2. ChooseEgress(d, a)' = UNION {Ways(route)' : route \in LookupRoute(d, a)'}
      BY <2>3, <2>5 DEF ChooseEgress
    <3>3. \A route : Ways(route)' = Ways(route)
      BY <2>2
    <3> HIDE DEF Ways
    <3>4. {Ways(route)' : route \in LookupRoute(d, a)'} = {Ways(route) : route \in LookupRoute(d, a)}
      BY <2>1, <3>3
    <3> QED BY <3>1, <3>2, <3>4
  <2> QED BY <2>4, <2>5
<1>5. ASSUME NEW s PROVE Working(s)' = Working(s)
  BY <1>1 DEF Working, PortsOf
<1>6. ASSUME NEW p PROVE Heard(p)' = Heard(p)
  BY <1>1 DEF Heard
<1> QED BY <1>2, <1>3, <1>4, <1>5, <1>6

\* An ARP answer is of a port with the address that was asked for, and was heard
\* where some packet would leave the device for it.
Honest(c) ==
  /\ doc.ip[c[3]] = c[2]
  /\ \E a \in AnyAddress : \E e \in ChooseEgress(c[1], a) :
       e[2] = c[2] /\ c[3] \in Heard(e[1])

CacheSound ==
  /\ \A c \in cache : Honest(c)
  /\ \A c, o \in cache : c[1] = o[1] /\ c[2] = o[2] => c[3] = o[3]

Exchange ==
  /\ leg \in {"idle", "out", "back", "done"}
  /\ at \in Devices /\ dest \in Nat \cup {NoAddress} /\ hops \in 0..MaxHops
  /\ cache \subseteq Devices \X AnyAddress \X Ports
  /\ leg = "done" <=> answer # "none"
  /\ leg \in {"out", "back"} => dest \in AnyAddress /\ call.kind \in Kinds

LeaseOffered ==
  Success({"dhcp"}) =>
    \E pool \in DhcpPool : call.pools = {pool} /\ dest = OfferedAddress(pool)

Topology == Document(doc) /\ TablesSound
Traffics == Exchange /\ CacheSound /\ LeaseOffered

LEMMA ResolvesToPort ==
  ASSUME Topology, Exchange, NEW d, NEW p, NEW a, NEW q \in ResolveArp(d, p, a)
  PROVE  q \in Ports /\ (<<d, a, q>> \in cache \/ q \in Answering(p, a))
<1>1. CASE Cached(d, a) # {}
  <2>1. PICK c \in cache : c[1] = d /\ c[2] = a /\ q = c[3]
    BY <1>1 DEF ResolveArp, Cached
  <2>2. c \in Devices \X AnyAddress \X Ports
    BY DEF Exchange
  <2> QED BY <2>1, <2>2
<1>2. CASE Cached(d, a) = {}
  <2>1. Answering(p, a) # {} /\ q = First(Answering(p, a))
    BY <1>2 DEF ResolveArp
  <2>2. Answering(p, a) \in SUBSET Ports
    BY DocumentFields DEF Answering, Heard, Topology, Fields
  <2> QED BY <2>1, <2>2, FirstIsIn
<1> QED BY <1>1, <1>2

LEMMA UnchangedTraffic ==
  Topology /\ Traffics /\ UNCHANGED <<known, call, leg, packet, cache, answer>> => Traffics'
<1> SUFFICES ASSUME Topology, Traffics, UNCHANGED <<known, call, leg, packet, cache, answer>>
             PROVE  Traffics'
  OBVIOUS
<1>1. Exchange'
  BY DEF Traffics, Exchange, packet
<1>2. LeaseOffered'
  BY DEF Traffics, LeaseOffered, packet, Success
<1>3. CacheSound'
  <2>1. \A c : Honest(c)' = Honest(c)
    <3> SUFFICES ASSUME NEW c PROVE Honest(c)' = Honest(c)
      OBVIOUS
    <3>1. UNCHANGED doc
      BY DEF known
    <3> QED BY <3>1, WaysStay DEF Honest
  <2> QED BY <2>1 DEF Traffics, CacheSound
<1> QED BY <1>1, <1>2, <1>3 DEF Traffics

LEMMA ForwardKeepsTraffic == Topology /\ Traffics /\ Forward => Traffics'
<1> SUFFICES ASSUME Topology, Traffics, Forward PROVE Traffics'
  OBVIOUS
<1>1. PICK e \in ChooseEgress(at, dest) : \E q \in ResolveArp(at, e[1], e[2]) :
        /\ cache' = cache \cup {<<at, e[2], q>>}
        /\ \/ Landing(e[1], q) = {} /\ Ends("lost")
           \/ /\ at' \in Landing(e[1], q) /\ hops' = hops + 1
              /\ UNCHANGED <<dest, leg, answer>>
  BY DEF Forward
<1>2. PICK q \in ResolveArp(at, e[1], e[2]) :
        /\ cache' = cache \cup {<<at, e[2], q>>}
        /\ \/ Landing(e[1], q) = {} /\ Ends("lost")
           \/ /\ at' \in Landing(e[1], q) /\ hops' = hops + 1
              /\ UNCHANGED <<dest, leg, answer>>
  BY <1>1
<1>3. /\ leg \in {"out", "back"} /\ hops < MaxHops /\ UNCHANGED <<known, call>>
      /\ at \in Devices /\ dest \in AnyAddress /\ hops \in 0..MaxHops
      /\ call.kind \in Kinds /\ answer = "none"
  BY DEF Forward, Travelling, Traffics, Exchange
<1>4. e[1] \in PortsOf(at) \cap doc.up /\ e[2] \in AnyAddress
  BY <1>1, <1>3, EgressIsTyped DEF Topology
<1>5. q \in Ports /\ (<<at, e[2], q>> \in cache \/ q \in Answering(e[1], e[2]))
  BY <1>2, ResolvesToPort DEF Traffics
<1> DEFINE new == <<at, e[2], q>>
<1>6. Honest(new)
  <2>1. CASE new \in cache
    BY <2>1 DEF Traffics, CacheSound
  <2>2. CASE q \in Answering(e[1], e[2])
    BY <1>1, <1>3, <2>2 DEF Answering, Honest
  <2> QED BY <1>5, <2>1, <2>2
<1>7. \A c \in cache : c[1] = at /\ c[2] = e[2] => c[3] = q
  <2> SUFFICES ASSUME NEW c \in cache, c[1] = at, c[2] = e[2] PROVE c[3] = q
    OBVIOUS
  <2>1. c[3] \in Cached(at, e[2])
    BY DEF Cached
  <2>2. q \in Cached(at, e[2])
    BY <1>2, <2>1 DEF ResolveArp
  <2>3. PICK o \in cache : o[1] = at /\ o[2] = e[2] /\ q = o[3]
    BY <2>2 DEF Cached
  <2> QED BY <2>3 DEF Traffics, CacheSound
<1>8. CacheSound'
  <2>1. \A c : Honest(c)' = Honest(c)
    <3> SUFFICES ASSUME NEW c PROVE Honest(c)' = Honest(c)
      OBVIOUS
    <3>1. UNCHANGED doc
      BY <1>3 DEF known
    <3> QED BY <1>3, <3>1, WaysStay DEF Honest
  <2>2. \A c \in cache' : c \in cache \/ c = new
    BY <1>2
  <2>3. \A c \in cache' : Honest(c)'
    BY <1>6, <2>1, <2>2 DEF Traffics, CacheSound
  <2>4. \A c, o \in cache' : c[1] = o[1] /\ c[2] = o[2] => c[3] = o[3]
    <3> SUFFICES ASSUME NEW c \in cache', NEW o \in cache', c[1] = o[1], c[2] = o[2]
                 PROVE  c[3] = o[3]
      OBVIOUS
    <3>1. new[1] = at /\ new[2] = e[2] /\ new[3] = q
      OBVIOUS
    <3> HIDE DEF new
    <3>2. CASE c \in cache /\ o \in cache
      BY <3>2 DEF Traffics, CacheSound
    <3> QED BY <1>7, <2>2, <3>1, <3>2
  <2> QED BY <2>3, <2>4 DEF CacheSound
<1>9. Exchange'
  <2>1. cache' \subseteq Devices \X AnyAddress \X Ports
    BY <1>2, <1>3, <1>4, <1>5 DEF Traffics, Exchange
  <2>2. CASE Ends("lost")
    BY <1>3, <2>1, <2>2 DEF Traffics, Exchange, Ends, packet
  <2>3. CASE at' \in Landing(e[1], q) /\ hops' = hops + 1 /\ UNCHANGED <<dest, leg, answer>>
    <3>1. at' \in Devices
      <4>1. \A r \in Heard(e[1]) : DeviceOf[r] \in Devices
        BY PortsAssumption, DocumentFields DEF Heard, Topology, Fields
      <4> QED BY <2>3, <4>1 DEF Landing
    <3>2. hops' \in 0..MaxHops
      BY <1>3, <2>3, HopsAssumption
    <3> QED BY <1>3, <2>1, <2>3, <3>1, <3>2 DEF Exchange, Traffics
  <2> QED BY <1>2, <2>2, <2>3
<1>10. LeaseOffered'
  <2>1. call'.kind # "dhcp"
    BY <1>3 DEF Kinds
  <2> QED BY <2>1 DEF LeaseOffered, Success
<1> QED BY <1>8, <1>9, <1>10 DEF Traffics

LEMMA FirstIpIsTyped == Document(doc) => \A d : FirstIp(Working(d)) \in AnyAddress
<1> SUFFICES ASSUME Document(doc), NEW d PROVE FirstIp(Working(d)) \in AnyAddress
  OBVIOUS
<1>1. Working(d) \in SUBSET Ports
  BY DEF Working, PortsOf
<1>2. CASE Working(d) = {}
  BY <1>2 DEF FirstIp, AnyAddress
<1>3. CASE Working(d) # {}
  <2>1. First(Working(d)) \in Ports
    BY <1>1, <1>3, FirstIsIn
  <2> QED BY <1>3, <2>1, DocumentFields DEF FirstIp, Fields
<1> QED BY <1>2, <1>3

LEMMA ResolvedIsTyped == Document(doc) => \A to : Resolved(to) \in AnyAddress
<1> SUFFICES ASSUME Document(doc), NEW to PROVE Resolved(to) \in AnyAddress
  OBVIOUS
<1>1. CASE to \in Devices
  BY <1>1, FirstIpIsTyped DEF Resolved
<1>2. CASE to \notin Devices /\ \E d \in Devices : Owns(d, to)
  <2>1. to \in AnyAddress
    BY <1>2, DocumentFields DEF Owns, PortsOf, Fields
  <2> QED BY <1>2, <2>1 DEF Resolved
<1>3. CASE to \notin Devices /\ ~\E d \in Devices : Owns(d, to)
  BY <1>3 DEF Resolved, AnyAddress
<1> QED BY <1>1, <1>2, <1>3

LEMMA FacingIsTyped == Document(doc) => \A s, a : AddressFacing(s, a) \in AnyAddress
<1> SUFFICES ASSUME Document(doc), NEW s, NEW a PROVE AddressFacing(s, a) \in AnyAddress
  OBVIOUS
<1>1. CASE Local(s, a) = {}
  BY <1>1, FirstIpIsTyped DEF AddressFacing
<1>2. CASE Local(s, a) # {}
  <2>1. First(Local(s, a)) \in Ports
    BY <1>2, LocalIsIn
  <2> QED BY <1>2, <2>1, DocumentFields DEF AddressFacing, Fields
<1> QED BY <1>1, <1>2

\* The steps that end an exchange, or turn it round.
LEMMA EndKeepsTraffic ==
  Topology /\ Traffics /\ (Arrived \/ NoRoute \/ ArpTimeout \/ HopLimit) => Traffics'
<1> SUFFICES ASSUME Topology, Traffics, Arrived \/ NoRoute \/ ArpTimeout \/ HopLimit
             PROVE  Traffics'
  OBVIOUS
<1>1. /\ leg \in {"out", "back"} /\ UNCHANGED <<known, call, cache>>
      /\ at \in Devices /\ dest \in AnyAddress /\ hops \in 0..MaxHops
      /\ call.kind \in Kinds /\ cache \subseteq Devices \X AnyAddress \X Ports
      /\ answer = "none" /\ dest \in Nat \cup {NoAddress}
  BY DEF Arrived, NoRoute, ArpTimeout, HopLimit, Travelling, Traffics, Exchange
<1>2. EchoReply \/ \E how \in {"success", "no_record", "no_route", "arp_timeout", "hops"} : Ends(how)
  BY DEF Arrived, NoRoute, ArpTimeout, HopLimit
<1>3. Exchange'
  <2>1. CASE EchoReply
    <3>1. dest' \in AnyAddress
      BY <2>1, FacingIsTyped DEF EchoReply, Topology
    <3>2. dest' \in Nat \cup {NoAddress}
      BY <3>1, AddressesAssumption DEF AnyAddress
    <3>3. hops' \in 0..MaxHops
      BY <2>1, HopsAssumption DEF EchoReply
    <3> QED BY <1>1, <2>1, <3>1, <3>2, <3>3 DEF EchoReply, Exchange
  <2>2. ASSUME NEW how \in {"success", "no_record", "no_route", "arp_timeout", "hops"}, Ends(how)
        PROVE  Exchange'
    BY <1>1, <2>2 DEF Ends, packet, Exchange
  <2> QED BY <1>2, <2>1, <2>2
<1>4. LeaseOffered'
  <2>1. call'.kind # "dhcp"
    BY <1>1 DEF Kinds
  <2> QED BY <2>1 DEF LeaseOffered, Success
<1>5. CacheSound'
  <2>1. \A c : Honest(c)' = Honest(c)
    <3> SUFFICES ASSUME NEW c PROVE Honest(c)' = Honest(c)
      OBVIOUS
    <3>1. UNCHANGED doc
      BY <1>1 DEF known
    <3> QED BY <1>1, <3>1, WaysStay DEF Honest
  <2> QED BY <1>1, <2>1 DEF Traffics, CacheSound
<1> QED BY <1>3, <1>4, <1>5 DEF Traffics

LEMMA CarryKeepsTraffic == Topology /\ Traffics /\ Carry => Traffics'
  BY ForwardKeepsTraffic, EndKeepsTraffic DEF Carry

LEMMA AskKeepsTraffic ==
  ASSUME Document(doc), Traffics, NEW kind \in Kinds, NEW s \in Devices, NEW to, Ask(kind, s, to)
  PROVE  Traffics'
<1>1. /\ leg = "idle" /\ cache' = {} /\ call'.kind = kind
      /\ at \in Devices /\ dest \in Nat \cup {NoAddress} /\ hops \in 0..MaxHops
  BY DEF Ask, Call, Traffics, Exchange
<1>2. PICK goal : /\ goal = IF kind = "dns" THEN doc.resolver[s] ELSE Resolved(to)
                  /\ \/ Ends("no_target") \/ Ends("no_interface")
                     \/ /\ goal # NoAddress /\ leg' = "out" /\ at' = s /\ dest' = goal
                        /\ hops' = 0 /\ answer' = "none"
  BY DEF Ask
<1>3. goal \in AnyAddress
  BY <1>2, ResolvedIsTyped, DocumentFields DEF Fields
<1>4. Exchange'
  <2>1. CASE Ends("no_target") \/ Ends("no_interface")
    BY <1>1, <2>1 DEF Ends, packet, Exchange
  <2>2. CASE leg' = "out" /\ at' = s /\ dest' = goal /\ hops' = 0 /\ answer' = "none"
    <3>1. dest' \in Nat \cup {NoAddress}
      BY <1>3, <2>2, AddressesAssumption DEF AnyAddress
    <3> QED BY <1>1, <1>3, <2>2, <3>1, HopsAssumption DEF Exchange
  <2> QED BY <1>2, <2>1, <2>2
<1>5. LeaseOffered'
  BY <1>1 DEF LeaseOffered, Success, Kinds
<1>6. CacheSound'
  BY <1>1 DEF CacheSound
<1> QED BY <1>4, <1>5, <1>6 DEF Traffics

LEMMA AskArpKeepsTraffic ==
  ASSUME NEW s \in Devices, NEW a \in Addresses, Traffics, AskArp(s, a)
  PROVE  Traffics'
<1>1. /\ cache' = {} /\ call'.kind = "arp" /\ at' = s /\ dest' = a /\ hops' = 0
      /\ leg' = "done" /\ answer' # "none"
  BY DEF AskArp, Call
<1>2. Exchange'
  BY <1>1, AddressesAssumption, HopsAssumption DEF Exchange
<1>3. LeaseOffered' /\ CacheSound'
  BY <1>1 DEF LeaseOffered, Success, CacheSound
<1> QED BY <1>2, <1>3 DEF Traffics

-----------------------------------------------------------------------------
(* DHCP *)

\* A pool's subnet runs from its least address to its greatest.
LEMMA SubnetIsARange ==
  ASSUME NEW n \in Subnets, n # {}
  PROVE  Min(n) \in Nat /\ Max(n) \in Nat /\ n = Min(n)..Max(n) /\ Min(n) <= Max(n)
<1>1. PICK f \in Addresses, l \in Addresses : n = f..l
  BY DEF Subnets
<1>2. f \in Nat /\ l \in Nat /\ f <= l
  BY <1>1, AddressesAssumption
<1>3. Min(n) = f
  <2>1. f \in n /\ \A y \in n : f <= y
    BY <1>1, <1>2
  <2>2. \A x \in n : (\A y \in n : x <= y) => x = f
    BY <1>1, <1>2
  <2> QED BY <2>1, <2>2 DEF Min
<1>4. Max(n) = l
  <2>1. l \in n /\ \A y \in n : l >= y
    BY <1>1, <1>2
  <2>2. \A x \in n : (\A y \in n : x >= y) => x = l
    BY <1>1, <1>2
  <2> QED BY <2>1, <2>2 DEF Max
<1> QED BY <1>1, <1>2, <1>3, <1>4

LEMMA OfferIsAfter ==
  ASSUME NEW pool \in DhcpPool, pool.network # {}
  PROVE  LET start == Max({Min(pool.network), pool.excludedEnd}) + 1
             free  == {a \in start..(Max(pool.network) - 1) : a # pool.gateway}
         IN  /\ start \in Nat /\ start > Min(pool.network) /\ start > pool.excludedEnd
             /\ \A x \in Nat : x > Min(pool.network) /\ x > pool.excludedEnd => x >= start
             /\ OfferedAddress(pool) \in Nat
             /\ free # {} => OfferedAddress(pool) \in free
<1> DEFINE least == Min(pool.network)
           most == Max(pool.network)
           excluded == pool.excludedEnd
           start == Max({least, excluded}) + 1
           free  == {a \in start..(most - 1) : a # pool.gateway}
<1>1. least \in Nat /\ most \in Nat
  BY SubnetIsARange DEF DhcpPool
<1>2. excluded \in Int
  <2>1. excluded \in Addresses \cup {-1}
    BY DEF DhcpPool
  <2>2. Addresses \subseteq Int
    BY AddressesAssumption
  <2>3. -1 \in Int
    OBVIOUS
  <2> HIDE DEF excluded
  <2> QED BY ONLY <2>1, <2>2, <2>3 DEF excluded
<1>3. Max({least, excluded}) = IF least >= excluded THEN least ELSE excluded
  <2> HIDE DEF least, excluded
  <2>1. CASE least >= excluded
    <3>1. \A x \in {least, excluded} : (\A y \in {least, excluded} : x >= y) => x = least
      BY <1>1, <1>2, <2>1
    <3>2. \A y \in {least, excluded} : least >= y
      BY <1>1, <1>2, <2>1
    <3> QED BY <2>1, <3>1, <3>2 DEF Max
  <2>2. CASE ~(least >= excluded)
    <3>1. \A x \in {least, excluded} : (\A y \in {least, excluded} : x >= y) => x = excluded
      BY <1>1, <1>2, <2>2
    <3>2. \A y \in {least, excluded} : excluded >= y
      BY <1>1, <1>2, <2>2
    <3> QED BY <2>2, <3>1, <3>2 DEF Max
  <2> QED BY <2>1, <2>2
<1>4. /\ start \in Nat /\ start > least /\ start > excluded
      /\ \A x \in Nat : x > least /\ x > excluded => x >= start
  <2> HIDE DEF least, excluded
  <2> QED BY <1>1, <1>2, <1>3
<1>5. OfferedAddress(pool) = IF free = {} THEN start ELSE Min(free)
  BY DEF OfferedAddress
<1>6. free # {} => Min(free) \in free
  <2> SUFFICES ASSUME free # {} PROVE Min(free) \in free
    OBVIOUS
  <2>1. free \in SUBSET Nat
    <3> HIDE DEF start, most
    <3> QED BY <1>1, <1>4
  <2> HIDE DEF free
  <2>2. \E n \in free : \A m \in free : n <= m
    BY <2>1, LeastOfNat
  <2> QED BY <2>2 DEF Min
<1>7. OfferedAddress(pool) \in Nat
  <2>1. free \subseteq Nat
    <3> HIDE DEF start, most
    <3> QED BY <1>1, <1>4
  <2> HIDE DEF free, start
  <2> QED BY <1>4, <1>5, <1>6, <2>1
<1>8. free # {} => OfferedAddress(pool) \in free
  <2> HIDE DEF free
  <2> QED BY <1>5, <1>6
<1> HIDE DEF OfferedAddress
<1> QED BY <1>4, <1>7, <1>8

LEMMA AskDhcpKeepsTraffic ==
  ASSUME Document(doc), Traffics, NEW s \in Devices, AskDhcp(s)
  PROVE  Traffics'
<1> DEFINE enabled == PortsOf(s) \cap doc.up
           pools   == IF enabled = {} THEN {} ELSE ServingPools(First(enabled))
<1>1. /\ cache' = {} /\ at' = s /\ hops' = 0 /\ leg' = "done" /\ call'.kind = "dhcp"
  BY DEF AskDhcp, Call
<1>2. CASE answer' = "no_pool" /\ dest' = NoAddress
  <2>1. Exchange'
    BY <1>1, <1>2, HopsAssumption DEF Exchange
  <2> QED BY <1>1, <1>2, <2>1 DEF Traffics, CacheSound, LeaseOffered, Success
<1>3. CASE \E pool \in pools : /\ call' = Call("dhcp", s, NoAddress, {pool})
                               /\ answer' = "success" /\ dest' = OfferedAddress(pool)
  <2>1. PICK pool \in pools : /\ call' = Call("dhcp", s, NoAddress, {pool})
                              /\ answer' = "success" /\ dest' = OfferedAddress(pool)
    BY <1>3
  <2>2. pool \in ServingPools(First(enabled))
    BY <2>1
  <2>3. PICK q \in Heard(First(enabled)) \cap doc.up :
          pool \in ToSet(doc.pools[DeviceOf[q]]) /\ Serves(DeviceOf[q], pool)
    BY <2>2 DEF ServingPools
  <2>4. pool \in DhcpPool
    <3>1. q \in Ports /\ doc.pools \in [Devices -> Seq(DhcpPool)]
      BY <2>3, DocumentFields DEF Fields
    <3>2. doc.pools[DeviceOf[q]] \in Seq(DhcpPool)
      BY <3>1, PortsAssumption
    <3> QED BY <2>3, <3>2, ElementOfSeq DEF ToSet
  <2>5. pool.network # {}
    BY <2>3 DEF Serves
  <2>6. OfferedAddress(pool) \in Nat
    BY <2>4, <2>5, OfferIsAfter
  <2>7. Exchange'
    BY <1>1, <2>1, <2>6, HopsAssumption DEF Exchange
  <2>8. LeaseOffered'
    <3>1. call'.pools = {pool} /\ dest' = OfferedAddress(pool)
      BY <2>1 DEF Call
    <3> QED BY <2>4, <3>1 DEF LeaseOffered
  <2> QED BY <1>1, <2>7, <2>8 DEF Traffics, CacheSound
<1> QED BY <1>2, <1>3 DEF AskDhcp

-----------------------------------------------------------------------------
(* A lab from the attempt to the grade *)

Idle == table = [d \in Devices |-> {}] /\ cache = {}

Phases ==
  /\ attempt \in {"none", "open", "grading"}
  /\ verdicts \in Seq(BOOLEAN) /\ Len(verdicts) <= Len(Rules)
  /\ attempt = "open" => leg = "idle"
  /\ attempt = "grading" /\ Len(verdicts) = Len(Rules) => leg = "idle"
  /\ attempt # "grading" /\ leg = "idle" => Idle

LabTyped == lab.document \in Documents /\ lab.faults \in FaultLists(lab.document)

GradingInvariant == Topology /\ Traffics /\ Phases /\ LabTyped

LEMMA AccountedStays ==
  ASSUME doc' = doc
  PROVE  \A d, t : Accounted(d, t)' = Accounted(d, t)
BY DEF Accounted, Connected, Static, Learned, PortsOf

LEMMA TopologyStays == Topology /\ UNCHANGED known => Topology'
<1> SUFFICES ASSUME Topology, UNCHANGED known PROVE Topology'
  OBVIOUS
<1>1. doc' = doc /\ table' = table
  BY DEF known
<1>2. \A d, t : Accounted(d, t)' = Accounted(d, t)
  BY <1>1, AccountedStays
<1>3. TablesSound'
  BY <1>1, <1>2 DEF Topology, TablesSound
<1>4. Document(doc)'
  BY <1>1 DEF Topology
<1> QED BY <1>3, <1>4 DEF Topology

LEMMA NetworkIsSound == Document(doc) /\ Network => Topology'
<1> SUFFICES ASSUME Document(doc), Network PROVE Topology'
  OBVIOUS
<1>1. doc' = doc /\ \A d \in Devices : table'[d] = RoutingTable(d)
  BY DEF Network
<1>2. \A d, t : Accounted(d, t)' = Accounted(d, t)
  BY <1>1, AccountedStays
<1>3. \A d \in Devices : /\ table'[d] \subseteq Entry
                         /\ \A t \in table'[d] : Accounted(d, t)
  BY <1>1, TableIsSound
<1>4. TablesSound'
  BY <1>2, <1>3 DEF TablesSound
<1>5. Document(doc)'
  BY <1>1
<1> QED BY <1>4, <1>5 DEF Topology

LEMMA EmptyIsSound == ASSUME Document(doc)', table' = [d \in Devices |-> {}] PROVE Topology'
  BY DEF Topology, TablesSound

\* While no packet is on its way, its place can be forgotten with the network.
LEMMA TrafficStarts ==
  ASSUME Exchange, leg = "idle", leg' = "idle", answer' = answer, at' = at,
         dest' = dest \/ dest' = NoAddress, hops' = hops \/ hops' = 0, cache' = {}
  PROVE  Traffics'
<1>1. hops' \in 0..MaxHops
  BY HopsAssumption DEF Exchange
<1>2. Exchange'
  BY <1>1 DEF Exchange
<1>3. LeaseOffered' /\ CacheSound'
  BY DEF LeaseOffered, Success, CacheSound
<1> QED BY <1>2, <1>3 DEF Traffics

LEMMA GradingInitHolds == GradingInit => GradingInvariant
<1> SUFFICES ASSUME GradingInit PROVE GradingInvariant
  OBVIOUS
<1>1. doc \in Documents /\ Document(doc)
  BY DocumentsAssumption DEF GradingInit, Init
<1>2. Topology
  BY <1>1 DEF GradingInit, Init, Topology, TablesSound
<1>3. at \in Devices
  BY PortsAssumption DEF GradingInit, Init
<1>4. leg = "idle" /\ answer = "none" /\ dest = NoAddress /\ hops = 0 /\ cache = {}
  BY DEF GradingInit, Init
<1>5. Traffics
  BY <1>3, <1>4, HopsAssumption DEF Traffics, Exchange, CacheSound, LeaseOffered, Success
<1>6. LabTyped
  <2>1. PICK f \in FaultLists(doc) : lab = [document |-> doc, faults |-> f]
    BY DEF GradingInit
  <2> QED BY <1>1, <2>1 DEF LabTyped
<1>7. Len(Rules) \in Nat
  BY RulesAssumption
<1>8. Phases
  BY <1>4, <1>7 DEF GradingInit, Init, Phases, Idle
<1> QED BY <1>2, <1>5, <1>6, <1>8 DEF GradingInvariant

LEMMA NextKeepsInvariant ==
  GradingInvariant /\ attempt = "none" /\ Next /\ UNCHANGED grading => GradingInvariant'
<1> SUFFICES ASSUME GradingInvariant, attempt = "none", Next, UNCHANGED grading
             PROVE  GradingInvariant'
  OBVIOUS
<1>1. Topology /\ Traffics /\ Document(doc)
  BY DEF GradingInvariant, Topology
<1>2. Topology' /\ Traffics' /\ leg' # "idle"
  <2>1. CASE Network /\ \E kind \in Kinds, s \in Devices, to \in Asked : Ask(kind, s, to)
    <3>1. leg' # "idle"
      BY <2>1 DEF Ask, Ends
    <3> QED BY <1>1, <2>1, <3>1, AskKeepsTraffic, NetworkIsSound
  <2>2. CASE Network /\ \E s \in Devices, a \in Asked \cap Addresses : AskArp(s, a)
    <3>1. leg' # "idle"
      BY <2>2 DEF AskArp
    <3> QED BY <1>1, <2>2, <3>1, AskArpKeepsTraffic, NetworkIsSound
  <2>3. CASE Network /\ \E s \in Devices : AskDhcp(s)
    <3>1. leg' # "idle"
      BY <2>3 DEF AskDhcp
    <3> QED BY <1>1, <2>3, <3>1, AskDhcpKeepsTraffic, NetworkIsSound
  <2>4. CASE Carry
    <3>1. leg' # "idle" /\ UNCHANGED known
      BY <2>4 DEF Carry, Arrived, NoRoute, ArpTimeout, Forward, HopLimit, Travelling,
                  EchoReply, Ends
    <3> QED BY <1>1, <2>4, <3>1, CarryKeepsTraffic, TopologyStays
  <2> QED BY <2>1, <2>2, <2>3, <2>4 DEF Next
<1>3. Phases' /\ LabTyped'
  BY <1>2 DEF GradingInvariant, Phases, LabTyped, grading
<1> QED BY <1>2, <1>3 DEF GradingInvariant

\* The network a lab is started with, or a learner has repaired, is a network.
LEMMA NewDocumentKeepsInvariant ==
  GradingInvariant /\ (StartAttempt \/ \E p \in Ports : Repair(p)) => GradingInvariant'
<1> SUFFICES ASSUME GradingInvariant, StartAttempt \/ \E p \in Ports : Repair(p)
             PROVE  GradingInvariant'
  OBVIOUS
<1>1. /\ leg = "idle" /\ attempt \in {"none", "open"} /\ attempt' = "open"
      /\ UNCHANGED <<lab, verdicts, table, call, leg, packet, cache, answer>>
  BY DEF StartAttempt, Repair, grading
<1>2. Idle /\ Exchange /\ doc \in Drawn
  BY <1>1, DrawnIsDocument DEF GradingInvariant, Phases, Traffics, Topology
<1>3. lab.document \in Documents /\ Document(lab.document)
  BY DocumentsAssumption DEF GradingInvariant, LabTyped
<1>4. doc' \in Drawn
  <2>1. CASE StartAttempt
    <3>1. lab.document \in Authored /\ doc' = ApplyFaults(lab.document, lab.faults)
      BY <2>1 DEF StartAttempt
    <3>2. PICK n \in 0..MaxFaults : lab.faults \in [1..n -> Faults]
      BY <3>1 DEF GradingInvariant, LabTyped, FaultLists
    <3>3. n \in Nat
      BY <3>2, LabsAssumption
    <3>4. lab.faults \in Seq(Faults)
      BY <3>2, <3>3
    <3> QED BY <1>3, <3>1, <3>4, DrawnIsDocument, FaultsKeepDocument
  <2>2. ASSUME NEW p \in Ports, Repair(p) PROVE doc' \in Drawn
    <3>1. doc' \in Mended(doc, p)
      BY <2>2 DEF Repair
    <3> QED BY <1>2, <1>3, <3>1, MendedIsDocument
  <2> QED BY <2>1, <2>2
<1>5. Topology'
  <2>1. Document(doc)'
    BY <1>4, DrawnIsDocument
  <2> QED BY <1>1, <1>2, <2>1, EmptyIsSound DEF Idle
<1>6. Traffics'
  BY <1>1, <1>2, TrafficStarts DEF Idle, packet
<1>7. Phases' /\ LabTyped'
  BY <1>1, <1>2 DEF GradingInvariant, Phases, LabTyped, Idle
<1> QED BY <1>5, <1>6, <1>7 DEF GradingInvariant

LEMMA BeginKeepsInvariant == GradingInvariant /\ Begin => GradingInvariant'
<1> SUFFICES ASSUME GradingInvariant, Begin PROVE GradingInvariant'
  OBVIOUS
<1>1. /\ attempt = "open" /\ leg = "idle" /\ attempt' = "grading" /\ verdicts' = <<>> /\ Network
      /\ UNCHANGED <<lab, call, leg, packet, cache, answer>>
  BY DEF Begin
<1>2. Idle /\ Exchange /\ Document(doc)
  BY <1>1 DEF GradingInvariant, Phases, Traffics, Topology
<1>3. Topology'
  BY <1>1, <1>2, NetworkIsSound
<1>4. Traffics'
  BY <1>1, <1>2, TrafficStarts DEF Idle, packet
<1>5. Phases' /\ LabTyped'
  <2>1. Len(Rules) \in Nat
    BY RulesAssumption
  <2>2. verdicts' \in Seq(BOOLEAN) /\ Len(verdicts') = 0
    BY <1>1
  <2>3. LabTyped'
    BY <1>1 DEF GradingInvariant, LabTyped
  <2> QED BY <1>1, <2>1, <2>2, <2>3 DEF Phases
<1> QED BY <1>3, <1>4, <1>5 DEF GradingInvariant

LEMMA SimulateKeepsInvariant == GradingInvariant /\ Simulate => GradingInvariant'
<1> SUFFICES ASSUME GradingInvariant, Simulate PROVE GradingInvariant'
  OBVIOUS
<1>1. /\ attempt = "grading" /\ Len(verdicts) < Len(Rules) /\ Rule.source \in Devices
      /\ UNCHANGED <<known, grading>>
  BY DEF Simulate, ToGrade
<1>2. Topology /\ Traffics /\ Document(doc)
  BY DEF GradingInvariant, Topology
<1>3. \/ AskDhcp(Rule.source)
      \/ \E kind \in Kinds : Ask(kind, Rule.source, Rule.to)
  BY DEF Simulate, AskedByRule, Kinds
<1>4. Traffics'
  BY <1>1, <1>2, <1>3, AskKeepsTraffic, AskDhcpKeepsTraffic
<1>5. Topology'
  BY <1>1, <1>2, TopologyStays
<1>6. Phases' /\ LabTyped'
  <2>1. Len(verdicts) # Len(Rules)
    BY <1>1, RulesAssumption DEF GradingInvariant, Phases
  <2> QED BY <1>1, <2>1 DEF GradingInvariant, Phases, LabTyped, grading
<1> QED BY <1>4, <1>5, <1>6 DEF GradingInvariant

\* The verdict is in, and nothing is on its way.
LEMMA VerdictKeepsInvariant == GradingInvariant /\ (Judge \/ Inspect) => GradingInvariant'
<1> SUFFICES ASSUME GradingInvariant, Judge \/ Inspect PROVE GradingInvariant'
  OBVIOUS
<1>1. PICK v \in BOOLEAN : verdicts' = Append(verdicts, v)
  <2>1. ((answer = "success") = (Rule.type # "no_ping")) \in BOOLEAN
    OBVIOUS
  <2>2. ConfigurationHolds(Rule) \in BOOLEAN
    BY DEF ConfigurationHolds
  <2> QED BY <2>1, <2>2 DEF Judge, Inspect
<1>2. /\ attempt = "grading" /\ Len(verdicts) < Len(Rules) /\ leg' = "idle"
      /\ UNCHANGED <<lab, attempt, known>>
  BY DEF Judge, Inspect, ToGrade, vars
<1>3. Topology /\ Traffics
  BY DEF GradingInvariant
<1>4. Topology'
  BY <1>2, <1>3, TopologyStays
<1>5. Traffics'
  <2>1. CASE Judge
    <3>1. leg' = "idle" /\ answer' = "none" /\ UNCHANGED <<known, call, packet, cache>>
      BY <2>1 DEF Judge
    <3>2. Exchange'
      BY <1>3, <3>1 DEF Traffics, Exchange, packet
    <3>3. LeaseOffered'
      BY <3>1 DEF LeaseOffered, Success
    <3>4. CacheSound'
      <4>1. \A c : Honest(c)' = Honest(c)
        <5> SUFFICES ASSUME NEW c PROVE Honest(c)' = Honest(c)
          OBVIOUS
        <5>1. UNCHANGED doc
          BY <3>1 DEF known
        <5> QED BY <3>1, <5>1, WaysStay DEF Honest
      <4> QED BY <1>3, <3>1, <4>1 DEF Traffics, CacheSound
    <3> QED BY <3>2, <3>3, <3>4 DEF Traffics
  <2>2. CASE Inspect
    <3>1. UNCHANGED <<known, call, leg, packet, cache, answer>>
      BY <2>2 DEF Inspect, vars
    <3> QED BY <1>3, <3>1, UnchangedTraffic
  <2> QED BY <2>1, <2>2
<1>6. Phases' /\ LabTyped'
  <2>1. verdicts \in Seq(BOOLEAN) /\ Len(Rules) \in Nat
    BY RulesAssumption DEF GradingInvariant, Phases
  <2>2. verdicts' \in Seq(BOOLEAN) /\ Len(verdicts') = Len(verdicts) + 1
    BY <1>1, <2>1
  <2>3. Len(verdicts') <= Len(Rules)
    BY <1>2, <2>1, <2>2
  <2> QED BY <1>2, <2>2, <2>3 DEF GradingInvariant, Phases, LabTyped
<1> QED BY <1>4, <1>5, <1>6 DEF GradingInvariant

LEMMA FinishKeepsInvariant == GradingInvariant /\ Finish => GradingInvariant'
<1> SUFFICES ASSUME GradingInvariant, Finish PROVE GradingInvariant'
  OBVIOUS
<1>1. /\ leg = "idle" /\ attempt' = "open" /\ Idle' /\ dest' = NoAddress /\ hops' = 0
      /\ UNCHANGED <<lab, verdicts, doc, leg, at, answer>>
  BY DEF Finish, Report, GradingInvariant, Phases, Idle
<1>2. Exchange /\ Document(doc)
  BY DEF GradingInvariant, Traffics, Topology
<1>3. Topology'
  BY <1>1, <1>2, EmptyIsSound DEF Idle
<1>4. Traffics'
  BY <1>1, <1>2, TrafficStarts DEF Idle
<1>5. Phases' /\ LabTyped'
  BY <1>1 DEF GradingInvariant, Phases, LabTyped
<1> QED BY <1>3, <1>4, <1>5 DEF GradingInvariant

LEMMA CarryKeepsInvariant ==
  GradingInvariant /\ attempt = "grading" /\ Carry /\ UNCHANGED grading => GradingInvariant'
<1> SUFFICES ASSUME GradingInvariant, attempt = "grading", Carry, UNCHANGED grading
             PROVE  GradingInvariant'
  OBVIOUS
<1>1. leg # "idle" /\ UNCHANGED known
  BY DEF Carry, Arrived, NoRoute, ArpTimeout, Forward, HopLimit, Travelling
<1>2. Topology' /\ Traffics'
  BY <1>1, CarryKeepsTraffic, TopologyStays DEF GradingInvariant
<1>3. Phases' /\ LabTyped'
  BY <1>1 DEF GradingInvariant, Phases, LabTyped, grading
<1> QED BY <1>2, <1>3 DEF GradingInvariant

LEMMA StutterKeepsInvariant == GradingInvariant /\ UNCHANGED <<vars, grading>> => GradingInvariant'
<1> SUFFICES ASSUME GradingInvariant, UNCHANGED <<vars, grading>> PROVE GradingInvariant'
  OBVIOUS
<1>1. Topology' /\ Traffics'
  BY TopologyStays, UnchangedTraffic DEF GradingInvariant, vars
<1>2. Phases' /\ LabTyped'
  BY DEF GradingInvariant, Phases, LabTyped, grading, vars, known, Idle
<1> QED BY <1>1, <1>2 DEF GradingInvariant

LEMMA StepKeepsInvariant ==
  GradingInvariant /\ [GradingNext]_<<vars, grading>> => GradingInvariant'
BY NextKeepsInvariant, NewDocumentKeepsInvariant, BeginKeepsInvariant, SimulateKeepsInvariant,
   VerdictKeepsInvariant, FinishKeepsInvariant, CarryKeepsInvariant, StutterKeepsInvariant
   DEF GradingNext, Grader

LEMMA InvariantHolds == GradingSpec => []GradingInvariant
<1>1. GradingInit => GradingInvariant
  BY GradingInitHolds
<1>2. GradingInvariant /\ [GradingNext]_<<vars, grading>> => GradingInvariant'
  BY StepKeepsInvariant
<1> QED BY <1>1, <1>2, PTL DEF GradingSpec

\* Every variable keeps its type: the faults of a lab and every repair leave a
\* topology that can be simulated, with an interface in the subnet of its address.
THEOREM GradingTypeCorrect == GradingSpec => []GradingTypeOK
<1>1. GradingInvariant => GradingTypeOK
  BY DEF GradingInvariant, Topology, Traffics, Exchange, Phases, LabTyped, GradingTypeOK, TypeOK
<1> QED BY <1>1, InvariantHolds, PTL

\* A lease can be taken up: an address of the pool's subnet, which is neither its
\* first nor its last and not the gateway's (_offer_address).
THEOREM LeaseCanBeUsed == GradingSpec => []LeaseIsUsable
<1>1. GradingInvariant => LeaseIsUsable
  <2> SUFFICES ASSUME GradingInvariant, Success({"dhcp"}), NEW pool \in call.pools,
                      ServedByGateway(pool),
                      NEW x \in pool.network \ {Min(pool.network), Max(pool.network), pool.gateway},
                      x > pool.excludedEnd
               PROVE  dest \in pool.network \ {Min(pool.network), Max(pool.network), pool.gateway}
    BY DEF LeaseIsUsable
  <2>1. pool \in DhcpPool /\ dest = OfferedAddress(pool)
    BY DEF GradingInvariant, Traffics, LeaseOffered
  <2> DEFINE first == Min(pool.network)
             last  == Max(pool.network)
             start == Max({Min(pool.network), pool.excludedEnd}) + 1
             free  == {a \in start..(Max(pool.network) - 1) : a # pool.gateway}
  <2>2. first \in Nat /\ last \in Nat /\ pool.network = first..last
    BY <2>1, SubnetIsARange DEF DhcpPool
  <2>3. /\ start \in Nat /\ start > first
        /\ \A y \in Nat : y > first /\ y > pool.excludedEnd => y >= start
        /\ free # {} => OfferedAddress(pool) \in free
    BY <2>1, OfferIsAfter
  <2>4. x \in free
    <3>1. x \in Nat /\ x > first /\ x <= last - 1 /\ x # pool.gateway
      <4> HIDE DEF first, last
      <4> QED BY <2>2 DEF first, last
    <3>2. x >= start
      BY <2>3, <3>1
    <3> HIDE DEF start
    <3> QED BY <2>2, <2>3, <3>1, <3>2
  <2>5. dest \in start..(last - 1) /\ dest # pool.gateway
    BY <2>1, <2>3, <2>4
  <2> HIDE DEF start, first, last
  <2> QED BY <2>2, <2>3, <2>5 DEF first, last
<1> QED BY <1>1, InvariantHolds, PTL

\* Where a frame for the next hop lands, if the cache was filled at the same port.
LEMMA LandsAtHolder ==
  ASSUME Topology, Traffics, NEW d \in Devices, NEW a \in AnyAddress,
         doc.routes[d] = <<>>, doc.gateway[d] = NoAddress, Apart(d),
         NEW e \in ChooseEgress(d, a), NEW q \in ResolveArp(d, e[1], e[2]),
         NEW there \in Landing(e[1], q)
  PROVE  q \in Ports /\ doc.ip[q] = e[2] /\ there = DeviceOf[q]
<1>1. q \in Ports /\ (<<d, e[2], q>> \in cache \/ q \in Answering(e[1], e[2]))
  BY ResolvesToPort DEF Traffics
<1>2. doc \in Fields /\ e[1] \in Local(d, e[2]) /\ e[2] \in AnyAddress /\ e[1] \in Ports
  <2>1. e \in (PortsOf(d) \cap doc.up) \X AnyAddress
    BY EgressIsTyped DEF Topology
  <2>2. e[1] \in Local(d, e[2])
    BY EgressFacesHop DEF Topology
  <2> QED BY <2>1, <2>2, DocumentFields DEF Topology, PortsOf
<1>3. doc.ip[q] = e[2] /\ q \in Heard(e[1])
  <2>1. CASE <<d, e[2], q>> \in cache
    <3>1. Honest(<<d, e[2], q>>)
      BY <2>1 DEF Traffics, CacheSound
    <3>2. PICK b \in AnyAddress : \E o \in ChooseEgress(d, b) : o[2] = e[2] /\ q \in Heard(o[1])
      BY <3>1 DEF Honest
    <3>3. PICK o \in ChooseEgress(d, b) : o[2] = e[2] /\ q \in Heard(o[1])
      BY <3>2
    <3>4. o[1] \in Local(d, e[2])
      BY <3>3, EgressFacesHop DEF Topology
    <3>5. o[1] = e[1]
      <4>1. /\ o[1] \in PortsOf(d) \cap doc.up /\ e[2] \in doc.net[o[1]]
            /\ e[1] \in PortsOf(d) \cap doc.up /\ e[2] \in doc.net[e[1]]
        BY <1>2, <3>4 DEF Local
      <4> QED BY <4>1 DEF Apart
    <3> QED BY <3>1, <3>3, <3>5 DEF Honest
  <2>2. CASE q \in Answering(e[1], e[2])
    BY <2>2 DEF Answering
  <2> QED BY <1>1, <2>1, <2>2
<1>4. CASE Lan[e[1]] \in Direct
  <2>1. PICK r \in Heard(e[1]) : there = DeviceOf[r]
    BY <1>4 DEF Landing
  <2>2. /\ r \in Ports /\ r # e[1] /\ Lan[r] = Lan[e[1]]
        /\ q # e[1] /\ Lan[q] = Lan[e[1]]
    BY <1>2, <1>3, <2>1 DEF Heard, Fields
  <2>3. r = q
    BY <1>1, <1>2, <1>4, <2>2, CablesAssumption
  <2> QED BY <1>1, <1>3, <2>1, <2>3
<1>5. CASE Lan[e[1]] \notin Direct
  BY <1>1, <1>3, <1>5 DEF Landing
<1> QED BY <1>4, <1>5

\* A learned route is one hop long: it takes the packet to a router on the
\* destination's subnet, whatever the ARP cache holds (_dynamic_routes).
THEOREM LearnedRoutesLeadThere == GradingSpec => LearnedRouteLeadsThere
<1> DEFINE Hop == Travelling /\ leg' = leg /\ at' # at
           Plain == /\ OneHolder /\ at \in Routers /\ doc.routes[at] = <<>>
                    /\ doc.gateway[at] = NoAddress /\ Apart(at)
           There == Local(at', dest) # {} \/ Owns(at', dest)
<1>1. GradingInvariant /\ [GradingNext]_<<vars, grading>> => [Hop /\ Plain => There]_vars
  <2> SUFFICES ASSUME GradingInvariant, [GradingNext]_<<vars, grading>>, Hop, Plain PROVE There
    OBVIOUS
  <2>1. Topology /\ Traffics
    BY DEF GradingInvariant
  <2>2. Forward
    <3>1. leg \in {"out", "back"} /\ leg' = leg /\ at' # at
      BY DEF Travelling
    <3>2. GradingNext
      BY <3>1 DEF vars, packet
    <3>3. ~StartAttempt /\ ~Begin /\ ~Simulate /\ ~Judge /\ ~Inspect /\ \A p \in Ports : ~Repair(p)
      BY <3>1 DEF StartAttempt, Begin, Simulate, Judge, Inspect, Repair, AskedByRule, Ask,
                  AskDhcp
    <3>4. ~Finish
      BY <3>1 DEF Finish
    <3>5. Carry
      BY <3>1, <3>2, <3>3, <3>4 DEF GradingNext, Grader, Next, Ask, AskArp, AskDhcp
    <3>6. ~Arrived /\ ~NoRoute /\ ~ArpTimeout /\ ~HopLimit
      BY <3>1 DEF Arrived, NoRoute, ArpTimeout, HopLimit, Ends, EchoReply
    <3> QED BY <3>5, <3>6 DEF Carry
  <2>3. at \in Devices /\ dest \in AnyAddress
    BY <2>1 DEF Traffics, Exchange, Travelling
  <2>4. PICK e \in ChooseEgress(at, dest) : \E q \in ResolveArp(at, e[1], e[2]) :
          Ends("lost") \/ at' \in Landing(e[1], q)
    BY <2>2 DEF Forward
  <2>5. PICK q \in ResolveArp(at, e[1], e[2]) : at' \in Landing(e[1], q)
    BY <2>4 DEF Ends, Travelling
  <2>6. q \in Ports /\ doc.ip[q] = e[2] /\ at' = DeviceOf[q]
    BY <2>1, <2>3, <2>5, LandsAtHolder
  <2>7. \/ dest = e[2]
        \/ \E s \in Ports \cap doc.up : \E hop \in PortsOf(DeviceOf[s]) \cap doc.up :
             dest \in doc.net[s] /\ e[2] = doc.ip[hop] /\ doc.ip[hop] \in Addresses
    BY <2>1, <2>3, EgressFacesHop DEF Topology
  <2>8. CASE dest = e[2]
    BY <2>6, <2>8 DEF Owns, PortsOf
  <2>9. ASSUME NEW s \in Ports \cap doc.up, NEW hop \in PortsOf(DeviceOf[s]) \cap doc.up,
               dest \in doc.net[s], e[2] = doc.ip[hop], doc.ip[hop] \in Addresses
        PROVE  There
    <3>1. hop = q
      BY <2>6, <2>9, AddressesAssumption DEF OneHolder, PortsOf
    <3>2. DeviceOf[s] = at'
      BY <2>6, <2>9, <3>1 DEF PortsOf
    <3>3. s \in Local(at', dest)
      BY <2>9, <3>2 DEF Local, PortsOf
    <3> QED BY <3>3
  <2> QED BY <2>7, <2>8, <2>9
<1>2. [][Hop /\ Plain => There]_vars => LearnedRouteLeadsThere
  BY PTL DEF LearnedRouteLeadsThere
<1> QED BY <1>1, <1>2, InvariantHolds, PTL DEF GradingSpec

-----------------------------------------------------------------------------
(* A walk that takes each step in one way ends in one way *)

LEMMA OrbitGoesOn ==
  ASSUME NEW S, NEW f \in [S -> S], NEW s \in S
  PROVE  /\ s \in Orbit(f, s)
         /\ \A x \in Orbit(f, s) : f[x] \in Orbit(f, s)
         /\ \A x \in Orbit(f, s) : x = s \/ x \in Orbit(f, f[s])
         /\ f[s] = s => Orbit(f, s) = {s}
<1>1. s \in Orbit(f, s)
  BY DEF Orbit
<1>2. \A x \in Orbit(f, s) : f[x] \in Orbit(f, s)
  BY DEF Orbit, Closed
<1>3. ASSUME NEW x \in Orbit(f, s), x # s PROVE x \in Orbit(f, f[s])
  <2> SUFFICES ASSUME NEW C \in SUBSET S, f[s] \in C, Closed(f, C) PROVE x \in C
    BY DEF Orbit
  <2>1. Closed(f, C \cup {s}) /\ C \cup {s} \in SUBSET S
    BY DEF Closed
  <2> QED BY <1>3, <2>1 DEF Orbit
<1>4. ASSUME f[s] = s PROVE Orbit(f, s) = {s}
  <2>1. Closed(f, {s}) /\ {s} \in SUBSET S
    BY <1>4 DEF Closed
  <2> QED BY <1>1, <2>1 DEF Orbit
<1> QED BY <1>1, <1>2, <1>3, <1>4

LEMMA OneEnd ==
  ASSUME NEW S, NEW f \in [S -> S], NEW s \in S,
         NEW x \in Orbit(f, s), f[x] = x, NEW y \in Orbit(f, s), f[y] = y
  PROVE  x = y
<1> DEFINE C == {z \in S : x \in Orbit(f, z)}
<1>1. x \in S /\ y \in S
  BY DEF Orbit
<1>2. Closed(f, C)
  <2> SUFFICES ASSUME NEW z \in S, x \in Orbit(f, z) PROVE x \in Orbit(f, f[z])
    BY DEF Closed
  <2>1. CASE x = z
    BY <1>1, <2>1
  <2>2. CASE x # z
    BY <2>2, OrbitGoesOn
  <2> QED BY <2>1, <2>2
<1>3. y \in C
  <2>1. C \in SUBSET S /\ s \in C
    OBVIOUS
  <2> HIDE DEF C
  <2> QED BY <1>2, <2>1 DEF Orbit
<1>4. Orbit(f, y) = {y}
  BY <1>1, OrbitGoesOn
<1> QED BY <1>3, <1>4

AtMostOne(S) == \A x, y \in S : x = y

LEMMA TheOneIsIt == \A S : AtMostOne(S) => \A x \in S : S = {x} /\ TheOne(S) = x
  BY DEF AtMostOne, TheOne

LEMMA OneWay == \A d, a : AtMostOne(ChooseEgress(d, a))
<1> SUFFICES ASSUME NEW d, NEW a PROVE AtMostOne(ChooseEgress(d, a))
  OBVIOUS
<1>1. CASE Local(d, a) # {}
  BY <1>1 DEF ChooseEgress, AtMostOne
<1>2. CASE Local(d, a) = {}
  <2> DEFINE Hop(route) == IF route.nextHop = NoAddress THEN a ELSE route.nextHop
  <2>1. \A x, y \in LookupRoute(d, a) : x = y
    BY DEF LookupRoute
  <2>2. \A route, x : \A p, q \in Towards(d, route, x) : p = q
    BY DEF Towards
  <2>3. \A e \in ChooseEgress(d, a) :
          \E route \in LookupRoute(d, a) : e \in Towards(d, route, Hop(route)) \X {Hop(route)}
    BY <1>2 DEF ChooseEgress
  <2> HIDE DEF Hop
  <2> SUFFICES ASSUME NEW e \in ChooseEgress(d, a), NEW o \in ChooseEgress(d, a) PROVE e = o
    BY DEF AtMostOne
  <2>4. PICK route \in LookupRoute(d, a) : e \in Towards(d, route, Hop(route)) \X {Hop(route)}
    BY <2>3
  <2>5. o \in Towards(d, route, Hop(route)) \X {Hop(route)}
    BY <2>1, <2>3, <2>4
  <2> QED BY <2>2, <2>4, <2>5
<1> QED BY <1>1, <1>2

LEMMA OneLanding == ASSUME Document(doc), NEW p \in Ports, NEW q PROVE AtMostOne(Landing(p, q))
<1>1. \A r \in Heard(p) : r \in Ports /\ r # p /\ Lan[r] = Lan[p]
  BY DocumentFields DEF Heard, Fields
<1>2. CASE Lan[p] \in Direct
  <2>1. \A r, o \in Heard(p) : r = o
    BY <1>1, <1>2, CablesAssumption
  <2> QED BY <1>2, <2>1 DEF Landing, AtMostOne
<1>3. CASE Lan[p] \notin Direct
  BY <1>3 DEF Landing, AtMostOne
<1> QED BY <1>2, <1>3

LEMMA OneHolderAnswers ==
  ASSUME CacheSound, NEW d, NEW p, NEW a PROVE AtMostOne(ResolveArp(d, p, a))
<1>1. \A q, r \in Cached(d, a) : q = r
  BY DEF Cached, CacheSound
<1> QED BY <1>1 DEF ResolveArp, AtMostOne

LEMMA TripGoesOn ==
  ASSUME Topology, NEW c, NEW x \in Trip PROVE After(c, x) \in Trip
<1>1. /\ x.at \in Devices /\ x.dest \in AnyAddress /\ x.hops \in 0..MaxHops
      /\ x.cache \subseteq Devices \X AnyAddress \X Ports /\ x.leg \in {"out", "back", "done"}
  BY DEF Trip
<1>2. \A how \in Endings : Over(x, how) \in Trip
  BY DEF Trip, Over, Stage
<1>3. CASE x.leg = "done" \/ x.hops = MaxHops
  BY <1>2, <1>3 DEF After, Endings
<1>4. CASE ~(x.leg = "done" \/ x.hops = MaxHops) /\ Owns(x.at, x.dest)
  <2>1. Turned(c, x) \in Trip
    <3>1. AddressFacing(c.from, x.dest) \in AnyAddress
      BY FacingIsTyped DEF Topology
    <3> QED BY <3>1, HopsAssumption DEF Turned, Trip, Stage
  <2>2. Record(c.to) \in Endings
    BY DEF Record, Endings
  <2>3. Received(c, x) \in Trip
    BY <1>2, <2>1, <2>2 DEF Received, Endings
  <2> QED BY <1>4, <2>3 DEF After
<1>5. CASE ~(x.leg = "done" \/ x.hops = MaxHops) /\ ~Owns(x.at, x.dest)
  <2>1. After(c, x) = Passed(x)
    BY <1>5 DEF After
  <2>2. CASE ChooseEgress(x.at, x.dest) = {} \/ Holders(x) = {}
    BY <1>2, <2>1, <2>2 DEF Passed, Endings
  <2>3. CASE ~(ChooseEgress(x.at, x.dest) = {} \/ Holders(x) = {})
    <3>1. Way(x) \in (PortsOf(x.at) \cap doc.up) \X AnyAddress
      <4>1. Way(x) \in ChooseEgress(x.at, x.dest)
        BY <2>3 DEF Way, TheOne
      <4> QED BY <1>1, <4>1, EgressIsTyped DEF Topology
    <3>2. TheOne(Holders(x)) \in Ports
      <4>1. Known(x) \subseteq Ports
        BY <1>1 DEF Known
      <4>2. Answering(Way(x)[1], Way(x)[2]) \in SUBSET Ports
        BY DocumentFields DEF Answering, Heard, Topology, Fields
      <4>3. Holders(x) \subseteq Ports
        BY <4>1, <4>2, FirstIsIn DEF Holders
      <4> QED BY <2>3, <4>3 DEF TheOne
    <3>3. Learnt(x) \in SUBSET (Devices \X AnyAddress \X Ports)
      BY <1>1, <3>1, <3>2 DEF Learnt
    <3>4. CASE Landed(x) = {}
      <4>1. After(c, x) = Stage("done", x.at, x.dest, x.hops, Learnt(x), "lost")
        BY <2>1, <2>3, <3>4 DEF Passed
      <4> QED BY <3>3, <4>1 DEF Trip, Stage, Endings
    <3>5. CASE Landed(x) # {}
      <4>1. After(c, x) = Stage(x.leg, TheOne(Landed(x)), x.dest, x.hops + 1, Learnt(x),
                                 x.answer)
        BY <2>1, <2>3, <3>5 DEF Passed
      <4>2. TheOne(Landed(x)) \in Devices
        <5>1. \A r \in Heard(Way(x)[1]) : DeviceOf[r] \in Devices
          BY PortsAssumption, DocumentFields DEF Heard, Topology, Fields
        <5>2. Landed(x) \subseteq Devices
          BY <5>1 DEF Landed, Landing
        <5> QED BY <3>5, <5>2 DEF TheOne
      <4>3. x.hops + 1 \in 0..MaxHops
        BY <1>1, <1>5, HopsAssumption
      <4> QED BY <3>3, <4>1, <4>2, <4>3 DEF Trip, Stage
    <3> QED BY <3>4, <3>5
  <2> QED BY <2>2, <2>3
<1> QED BY <1>3, <1>4, <1>5

LEMMA AfterStays == ASSUME UNCHANGED known PROVE \A c, x : After(c, x)' = After(c, x)
<1> SUFFICES ASSUME NEW c, NEW x PROVE After(c, x)' = After(c, x)
  OBVIOUS
<1>1. doc' = doc
  BY DEF known
<1>2. /\ Owns(x.at, x.dest)' = Owns(x.at, x.dest)
      /\ ChooseEgress(x.at, x.dest)' = ChooseEgress(x.at, x.dest)
  BY WaysStay
<1>3. Received(c, x)' = Received(c, x)
  <2>1. AddressFacing(c.from, x.dest)' = AddressFacing(c.from, x.dest)
    BY <1>1, WaysStay DEF AddressFacing, FirstIp
  <2>2. Record(c.to)' = Record(c.to)
    BY <1>1, WaysStay DEF Record, FirstIp
  <2> QED BY <2>1, <2>2 DEF Received, Turned, Over, Stage
<1>4. Passed(x)' = Passed(x)
  <2>1. Way(x)' = Way(x)
    BY <1>2 DEF Way
  <2>2. Answering(Way(x)[1], Way(x)[2])' = Answering(Way(x)[1], Way(x)[2])
    BY <1>1, <2>1, WaysStay DEF Answering
  <2>3. Holders(x)' = Holders(x)
    BY <2>1, <2>2 DEF Holders, Known
  <2>4. Learnt(x)' = Learnt(x)
    BY <2>1, <2>3 DEF Learnt
  <2>5. Landed(x)' = Landed(x)
    BY <1>1, <2>1, <2>3, WaysStay DEF Landed, Landing
  <2> QED BY <1>2, <2>3, <2>4, <2>5 DEF Passed, Over, Stage
<1> QED BY <1>2, <1>3, <1>4 DEF After

\* Carry takes the one step there is.
LEMMA CarryIsAfter ==
  ASSUME Topology, Traffics, leg = "back" => call.kind = "ping", Carry
  PROVE  Now \in Trip /\ Now' = After(call, Now)
<1>1. /\ leg \in {"out", "back"} /\ at \in Devices /\ dest \in AnyAddress /\ hops \in 0..MaxHops
      /\ cache \subseteq Devices \X AnyAddress \X Ports /\ call.kind \in Kinds
      /\ answer = "none" /\ UNCHANGED <<known, call>>
  BY DEF Traffics, Exchange, Carry, Arrived, NoRoute, ArpTimeout, Forward, HopLimit, Travelling
<1>2. Now \in Trip
  BY <1>1 DEF Now, Trip, Stage, Endings
<1>3. /\ Now.leg = leg /\ Now.at = at /\ Now.dest = dest /\ Now.hops = hops
      /\ Now.cache = cache /\ Now.answer = answer
  BY DEF Now, Stage
<1>4. ASSUME NEW how, Ends(how), cache' = cache PROVE Now' = Over(Now, how)
  BY <1>3, <1>4 DEF Ends, packet, Now, Over
<1>5. CASE HopLimit
  <2>1. Now' = Over(Now, "hops") /\ hops = MaxHops
    BY <1>4, <1>5 DEF HopLimit
  <2> QED BY <1>1, <1>2, <1>3, <2>1 DEF After
<1>6. CASE Arrived
  <2>1. After(call, Now) = Received(call, Now)
    BY <1>1, <1>3, <1>6, HopsAssumption DEF After, Arrived, Travelling
  <2>2. CASE call.kind = "ping" /\ leg = "out" /\ EchoReply
    <3>1. Now' = Turned(call, Now)
      BY <1>1, <1>3, <1>6, <2>2 DEF Arrived, EchoReply, Now, Turned
    <3> QED BY <1>2, <1>3, <2>1, <2>2, <3>1 DEF Received
  <2>3. CASE call.kind = "dns" /\ Ends(Record(call.to))
    <3>1. Now' = Over(Now, Record(call.to))
      BY <1>4, <1>6, <2>3 DEF Arrived
    <3> QED BY <1>2, <2>1, <2>3, <3>1 DEF Received
  <2>4. CASE (call.kind = "oneway" \/ leg = "back") /\ Ends("success")
    <3>1. Now' = Over(Now, "success")
      BY <1>4, <1>6, <2>4 DEF Arrived
    <3> QED BY <1>2, <1>3, <2>1, <2>4, <3>1 DEF Received
  <2> QED BY <1>6, <2>2, <2>3, <2>4 DEF Arrived, Record
<1>7. CASE NoRoute \/ ArpTimeout \/ Forward
  <2>1. After(call, Now) = Passed(Now)
    BY <1>1, <1>3, <1>7, HopsAssumption DEF After, NoRoute, ArpTimeout, Forward, Travelling
  <2>2. CASE NoRoute
    <3>1. Now' = Over(Now, "no_route") /\ ChooseEgress(at, dest) = {}
      BY <1>4, <2>2 DEF NoRoute
    <3> QED BY <1>2, <1>3, <2>1, <3>1 DEF Passed
  <2>3. ASSUME NEW e \in ChooseEgress(at, dest)
        PROVE  /\ ChooseEgress(Now.at, Now.dest) # {} /\ Way(Now) = e
               /\ Holders(Now) = ResolveArp(at, e[1], e[2])
    <3>1. Way(Now) = e
      BY <1>3, <2>3, OneWay, TheOneIsIt DEF Way
    <3>2. Known(Now) = Cached(at, e[2])
      BY <1>3, <3>1 DEF Known, Cached
    <3> QED BY <1>3, <2>3, <3>1, <3>2 DEF Holders, ResolveArp
  <2>4. CASE ArpTimeout
    <3>1. PICK e \in ChooseEgress(at, dest) : ResolveArp(at, e[1], e[2]) = {}
      BY <2>4 DEF ArpTimeout
    <3>2. Now' = Over(Now, "arp_timeout")
      BY <1>4, <2>4 DEF ArpTimeout
    <3> QED BY <1>2, <2>1, <2>3, <3>1, <3>2 DEF Passed
  <2>5. CASE Forward
    <3>1. PICK e \in ChooseEgress(at, dest) : \E q \in ResolveArp(at, e[1], e[2]) :
            /\ cache' = cache \cup {<<at, e[2], q>>}
            /\ \/ Landing(e[1], q) = {} /\ Ends("lost")
               \/ /\ at' \in Landing(e[1], q) /\ hops' = hops + 1
                  /\ UNCHANGED <<dest, leg, answer>>
      BY <2>5 DEF Forward
    <3>2. PICK q \in ResolveArp(at, e[1], e[2]) :
            /\ cache' = cache \cup {<<at, e[2], q>>}
            /\ \/ Landing(e[1], q) = {} /\ Ends("lost")
               \/ /\ at' \in Landing(e[1], q) /\ hops' = hops + 1
                  /\ UNCHANGED <<dest, leg, answer>>
      BY <3>1
    <3>3. Holders(Now) # {} /\ TheOne(Holders(Now)) = q
      BY <2>3, <3>1, <3>2, OneHolderAnswers, TheOneIsIt DEF Traffics
    <3>4. Learnt(Now) = cache' /\ Landed(Now) = Landing(e[1], q)
      BY <1>3, <2>3, <3>1, <3>2, <3>3 DEF Learnt, Landed
    <3>5. CASE Landing(e[1], q) = {} /\ Ends("lost")
      <4>1. After(call, Now) = Stage("done", at, dest, hops, cache', "lost")
        BY <1>3, <2>1, <2>3, <3>1, <3>3, <3>4, <3>5 DEF Passed
      <4> QED BY <1>2, <3>5, <4>1 DEF Now, Ends, packet
    <3>6. CASE /\ at' \in Landing(e[1], q) /\ hops' = hops + 1
               /\ UNCHANGED <<dest, leg, answer>>
      <4>1. TheOne(Landed(Now)) = at' /\ Landed(Now) # {}
        <5>1. e[1] \in Ports
          BY <1>1, <3>1, EgressIsTyped DEF Topology, PortsOf
        <5>2. AtMostOne(Landing(e[1], q))
          BY <5>1, OneLanding DEF Topology
        <5> QED BY <3>4, <3>6, <5>2, TheOneIsIt
      <4>2. After(call, Now) = Stage(leg, at', dest, hops + 1, cache', answer)
        BY <1>3, <2>1, <2>3, <3>1, <3>3, <3>4, <4>1 DEF Passed
      <4> QED BY <1>2, <3>6, <4>2 DEF Now
    <3> QED BY <3>2, <3>5, <3>6
  <2> QED BY <1>7, <2>2, <2>4, <2>5
<1> QED BY <1>2, <1>5, <1>6, <1>7 DEF Carry

-----------------------------------------------------------------------------
(* A question has one verdict *)

LEMMA StartIsTyped ==
  ASSUME Topology, NEW q, q.source \in Devices PROVE Start(q) \in Trip
<1>1. Goal(q) \in AnyAddress
  BY ResolvedIsTyped, DocumentFields DEF Goal, Topology, Fields
<1> QED BY <1>1, HopsAssumption DEF Start, Stage, Trip, Endings

LEMMA WalkIsTyped == Topology => \A c : Walk(c) \in [Trip -> Trip]
  BY TripGoesOn DEF Walk

LEMMA OneVerdict ==
  ASSUME Topology, NEW q, NEW v \in BOOLEAN, NEW w \in BOOLEAN, HoldsFor(q, v), HoldsFor(q, w)
  PROVE  v = w
<1>1. CASE ~ByTraffic(q)
  <2>1. (v <=> ConfigurationHolds(q)) /\ (w <=> ConfigurationHolds(q))
    BY <1>1 DEF HoldsFor
  <2> QED BY <2>1
<1>2. CASE ByTraffic(q)
  <2>1. PICK h : Gets(q, h) /\ (v <=> ((h = "success") <=> (q.type # "no_ping")))
    BY <1>2 DEF HoldsFor
  <2>2. PICK k : Gets(q, k) /\ (w <=> ((k = "success") <=> (q.type # "no_ping")))
    BY <1>2 DEF HoldsFor
  <2>3. (h = "success") <=> (k = "success")
    <3>1. CASE q.type = "dhcp_lease" \/ ~Sent(q)
      BY <2>1, <2>2, <3>1 DEF Gets
    <3>2. CASE q.type # "dhcp_lease" /\ Sent(q)
      <4> DEFINE f == Walk(CallOf(q))
      <4>1. PICK x \in Reach(q) : x.leg = "done" /\ x.answer = h
        BY <2>1, <3>2 DEF Gets
      <4>2. PICK y \in Reach(q) : y.leg = "done" /\ y.answer = k
        BY <2>2, <3>2 DEF Gets
      <4>3. f \in [Trip -> Trip] /\ Start(q) \in Trip
        BY <1>2, WalkIsTyped, StartIsTyped DEF ByTraffic
      <4>4. x \in Orbit(f, Start(q)) /\ y \in Orbit(f, Start(q))
        BY <4>1, <4>2 DEF Reach
      <4>5. x \in Trip /\ y \in Trip
        BY <4>3, <4>4 DEF Orbit
      <4>6. f[x] = x /\ f[y] = y
        BY <4>1, <4>2, <4>5 DEF Walk, After
      <4> HIDE DEF f
      <4>7. x = y
        BY <4>3, <4>4, <4>6, OneEnd
      <4> QED BY <4>1, <4>2, <4>7
    <3> QED BY <3>1, <3>2
  <2> QED BY <2>1, <2>2, <2>3
<1> QED BY <1>1, <1>2

LEMMA AnswersStay ==
  ASSUME UNCHANGED known
  PROVE  \A q : /\ Reach(q)' = Reach(q) /\ Sent(q)' = Sent(q)
                /\ \A how : Gets(q, how)' = Gets(q, how)
                /\ \A v : HoldsFor(q, v)' = HoldsFor(q, v)
<1> SUFFICES ASSUME NEW q
             PROVE  /\ Reach(q)' = Reach(q) /\ Sent(q)' = Sent(q)
                    /\ \A how : Gets(q, how)' = Gets(q, how)
                    /\ \A v : HoldsFor(q, v)' = HoldsFor(q, v)
  OBVIOUS
<1>1. doc' = doc
  BY DEF known
<1>2. Goal(q)' = Goal(q)
  <2>1. Resolved(q.to)' = Resolved(q.to)
    <3>1. \A d : Owns(d, q.to)' = Owns(d, q.to) /\ FirstIp(Working(d))' = FirstIp(Working(d))
      BY <1>1, WaysStay DEF FirstIp
    <3> QED BY <3>1 DEF Resolved
  <2> QED BY <1>1, <2>1 DEF Goal
<1>3. Sent(q)' = Sent(q) /\ Start(q)' = Start(q)
  BY <1>2, WaysStay DEF Sent, Start
<1>4. Leased(q)' = Leased(q)
  BY <1>1 DEF Leased, ServingPools, Serves, Heard, PortsOf
<1>5. Reach(q)' = Reach(q)
  <2>1. \A c : Walk(c)' = Walk(c)
    BY AfterStays DEF Walk
  <2> QED BY <1>3, <2>1 DEF Reach, Orbit, Closed
<1>6. \A how : Gets(q, how)' = Gets(q, how)
  BY <1>3, <1>4, <1>5 DEF Gets
<1>7. ConfigurationHolds(q)' = ConfigurationHolds(q)
  BY <1>1 DEF ConfigurationHolds, RouteHolds, Linked, Heard, PortsOf
<1>8. \A v : HoldsFor(q, v)' = HoldsFor(q, v)
  BY <1>6, <1>7 DEF HoldsFor
<1> QED BY <1>3, <1>5, <1>6, <1>8

-----------------------------------------------------------------------------
(* The verdicts that are in, and the one that is being found *)

Graded ==
  attempt = "grading" =>
    \A i \in DOMAIN verdicts : \A q, v :
      q = Question(Rules[i]) /\ v = verdicts[i] => HoldsFor(q, v)

Sought ==
  attempt = "grading" /\ leg # "idle" =>
    \A q : q = Question(Rule) =>
      /\ ByTraffic(q)
      /\ leg \in {"out", "back"} => /\ q.type # "dhcp_lease" /\ Sent(q)
                                    /\ call = CallOf(q) /\ Now \in Reach(q)
                                    /\ leg = "back" => call.kind = "ping"
      /\ \A how : leg = "done" /\ answer = how => Gets(q, how)

VerdictInvariant == GradingInvariant /\ Graded /\ Sought /\ SameQuestionSameVerdict

LEMMA QuestionFields ==
  ASSUME NEW i \in DOMAIN Rules
  PROVE  /\ Question(Rules[i]).type = Rules[i].type
         /\ Question(Rules[i]).source = Rules[i].source
         /\ Question(Rules[i]).to = Rules[i].to
         /\ Question(Rules[i]).address = Rules[i].address
         /\ Question(Rules[i]).network = Rules[i].network
<1> DEFINE R == [type : STRING, source : Named, to : Named \cup Ports \cup Addresses,
                 address : AnyAddress, network : Subnets, objective : Nat]
<1>1. PICK r \in R : r = Rules[i]
  <2>1. Rules \in Seq(R)
    BY RulesAssumption
  <2> HIDE DEF R
  <2>2. Rules[i] \in R
    BY <2>1, ElementOfSeq
  <2> QED BY <2>2
<1> QED BY <1>1 DEF Question

LEMMA RuleIsARule ==
  Phases /\ Len(verdicts) < Len(Rules) => Len(verdicts) + 1 \in DOMAIN Rules
  BY RulesAssumption DEF Phases

\* The verdicts that are in agree, since each is the answer there is.
LEMMA GradedAgree ==
  GradingInvariant /\ attempt = "grading" /\ Graded => SameQuestionSameVerdict
<1> SUFFICES ASSUME GradingInvariant, attempt = "grading", Graded,
                    NEW i \in DOMAIN verdicts, NEW j \in DOMAIN verdicts,
                    Question(Rules[i]) = Question(Rules[j])
             PROVE  verdicts[i] = verdicts[j]
  BY DEF SameQuestionSameVerdict, Question
<1>1. verdicts[i] \in BOOLEAN /\ verdicts[j] \in BOOLEAN
  BY ElementOfSeq DEF GradingInvariant, Phases
<1>2. PICK q : q = Question(Rules[i])
  OBVIOUS
<1>3. HoldsFor(q, verdicts[i]) /\ HoldsFor(q, verdicts[j])
  BY <1>2 DEF Graded
<1> QED BY <1>1, <1>3, OneVerdict DEF GradingInvariant

LEMMA SimulateIsSought ==
  VerdictInvariant /\ Simulate => Sought' /\ Graded'
<1> SUFFICES ASSUME VerdictInvariant, Simulate PROVE Sought' /\ Graded'
  OBVIOUS
<1>1. /\ attempt = "grading" /\ leg = "idle" /\ Len(verdicts) < Len(Rules)
      /\ Rule.type \in Traffic /\ Rule.source \in Devices /\ AskedByRule
      /\ UNCHANGED <<known, grading>>
  BY DEF Simulate, ToGrade
<1>2. Topology /\ Phases
  BY DEF VerdictInvariant, GradingInvariant
<1>3. PICK q : q = Question(Rule)
  OBVIOUS
<1>4. q.type = Rule.type /\ q.source = Rule.source /\ q.to = Rule.to /\ ByTraffic(q)
  BY <1>1, <1>2, <1>3, QuestionFields, RuleIsARule DEF Rule, ByTraffic
<1>5. Question(Rule)' = q
  BY <1>1, <1>3 DEF Rule, grading
<1>6. \/ leg' = "done" /\ Gets(q, answer')
      \/ /\ leg' = "out" /\ q.type # "dhcp_lease" /\ Sent(q)
         /\ call' = CallOf(q) /\ Now' = Start(q)
  <2>1. CASE q.type = "dhcp_lease"
    <3>1. AskDhcp(q.source)
      BY <1>1, <1>4, <2>1 DEF AskedByRule
    <3>2. leg' = "done" /\ ((answer' = "success") <=> Leased(q))
      BY <3>1 DEF AskDhcp, Leased
    <3>3. Gets(q, answer')
      BY <2>1, <3>2 DEF Gets
    <3> QED BY <3>2, <3>3
  <2>2. CASE q.type # "dhcp_lease"
    <3>1. Ask(KindOf(q), q.source, q.to)
      BY <1>1, <1>4, <2>2 DEF AskedByRule, Traffic, KindOf
    <3>2. /\ call' = CallOf(q) /\ cache' = {}
          /\ \/ ~Sent(q) /\ leg' = "done" /\ answer' # "success"
             \/ /\ Sent(q) /\ leg' = "out" /\ at' = q.source /\ dest' = Goal(q)
                /\ hops' = 0 /\ answer' = "none"
      BY <3>1 DEF Ask, Ends, CallOf, Goal, Sent
    <3>3. CASE ~Sent(q) /\ leg' = "done" /\ answer' # "success"
      <4>1. Gets(q, answer')
        BY <2>2, <3>3 DEF Gets
      <4> QED BY <3>3, <4>1
    <3>4. CASE /\ Sent(q) /\ leg' = "out" /\ at' = q.source /\ dest' = Goal(q)
               /\ hops' = 0 /\ answer' = "none"
      <4>1. Now' = Start(q)
        BY <3>2, <3>4 DEF Now, Start
      <4> QED BY <2>2, <3>2, <3>4, <4>1
    <3> QED BY <3>2, <3>3, <3>4
  <2> QED BY <2>1, <2>2
<1>7. Now' = Start(q) => Now' \in Reach(q)
  BY <1>1, <1>2, <1>4, OrbitGoesOn, WalkIsTyped, StartIsTyped DEF Reach
<1>8. Sought'
  <2>1. \A k : /\ Gets(k, answer')  => \A how : answer' = how => Gets(k, how)'
               /\ Reach(k)' = Reach(k)
    BY <1>1, AnswersStay
  <2>2. ByTraffic(q)' /\ Sent(q)' = Sent(q)
    BY <1>1, <1>4, AnswersStay DEF ByTraffic
  <2> QED BY <1>4, <1>5, <1>6, <1>7, <2>1, <2>2 DEF Sought
<1>9. Graded'
  <2>1. \A k, v : HoldsFor(k, v)' = HoldsFor(k, v)
    BY <1>1, AnswersStay
  <2> QED BY <1>1, <2>1 DEF VerdictInvariant, Graded, grading
<1> QED BY <1>8, <1>9

\* The rule after the ones that are graded has its verdict.
LEMMA VerdictIsIn ==
  ASSUME GradingInvariant, attempt = "grading", Graded, Len(verdicts) < Len(Rules),
         UNCHANGED <<known, attempt>>,
         NEW v \in BOOLEAN, verdicts' = Append(verdicts, v),
         HoldsFor(Question(Rule), v)
  PROVE  Graded'
<1>1. verdicts \in Seq(BOOLEAN) /\ Len(verdicts) \in Nat
  BY DEF GradingInvariant, Phases
<1>2. SUFFICES ASSUME NEW i \in DOMAIN verdicts', NEW q, NEW w,
                      q = Question(Rules[i]), w = verdicts'[i]
               PROVE  HoldsFor(q, w)
  <2>1. \A q, w : HoldsFor(q, w)' = HoldsFor(q, w)
    BY AnswersStay
  <2> QED BY <2>1 DEF Graded
<1>3. CASE i \in DOMAIN verdicts
  <2>1. verdicts'[i] = verdicts[i]
    BY <1>1, <1>3
  <2> QED BY <1>2, <1>3, <2>1 DEF Graded
<1>4. CASE i \notin DOMAIN verdicts
  <2>1. i = Len(verdicts) + 1 /\ verdicts'[i] = v
    BY <1>1, <1>4
  <2> QED BY <1>2, <2>1 DEF Rule
<1> QED BY <1>3, <1>4

LEMMA JudgeIsGraded == VerdictInvariant /\ Judge => Graded' /\ Sought'
<1> SUFFICES ASSUME VerdictInvariant, Judge PROVE Graded' /\ Sought'
  OBVIOUS
<1> DEFINE v == (answer = "success") = (Rule.type # "no_ping")
<1>1. /\ attempt = "grading" /\ leg = "done" /\ leg' = "idle" /\ Len(verdicts) < Len(Rules)
      /\ verdicts' = Append(verdicts, v) /\ UNCHANGED <<known, attempt>>
  BY DEF Judge, ToGrade
<1>2. PICK q : q = Question(Rule)
  OBVIOUS
<1>3. q.type = Rule.type
  BY <1>1, <1>2, QuestionFields, RuleIsARule DEF Rule, VerdictInvariant, GradingInvariant
<1>4. ByTraffic(q) /\ Gets(q, answer)
  BY <1>1, <1>2 DEF VerdictInvariant, Sought
<1>5. HoldsFor(q, v)
  BY <1>3, <1>4 DEF HoldsFor
<1>6. Graded'
  <2>1. v \in BOOLEAN
    OBVIOUS
  <2> HIDE DEF v
  <2> QED BY <1>1, <1>2, <1>5, <2>1, VerdictIsIn DEF VerdictInvariant
<1> QED BY <1>1, <1>6 DEF Sought

LEMMA InspectIsGraded == VerdictInvariant /\ Inspect => Graded' /\ Sought'
<1> SUFFICES ASSUME VerdictInvariant, Inspect PROVE Graded' /\ Sought'
  OBVIOUS
<1>1. /\ attempt = "grading" /\ leg = "idle" /\ leg' = "idle" /\ Len(verdicts) < Len(Rules)
      /\ verdicts' = Append(verdicts, ConfigurationHolds(Rule)) /\ UNCHANGED <<known, attempt>>
      /\ Rule.type \notin Traffic \/ Rule.source \notin Devices
  BY DEF Inspect, ToGrade, vars
<1>2. PICK q : q = Question(Rule)
  OBVIOUS
<1>3. /\ q.type = Rule.type /\ q.source = Rule.source /\ q.to = Rule.to
      /\ q.address = Rule.address /\ q.network = Rule.network
  BY <1>1, <1>2, QuestionFields, RuleIsARule DEF Rule, VerdictInvariant, GradingInvariant
<1>4. ~ByTraffic(q) /\ (ConfigurationHolds(Rule) <=> ConfigurationHolds(q))
  BY <1>1, <1>3 DEF ByTraffic, ConfigurationHolds
<1>5. HoldsFor(q, ConfigurationHolds(Rule))
  BY <1>4 DEF HoldsFor
<1>6. Graded'
  <2>1. ConfigurationHolds(Rule) \in BOOLEAN
    BY DEF ConfigurationHolds
  <2> QED BY <1>1, <1>2, <1>5, <2>1, VerdictIsIn DEF VerdictInvariant
<1> QED BY <1>1, <1>6 DEF Sought

LEMMA CarryIsSought ==
  VerdictInvariant /\ attempt = "grading" /\ Carry /\ UNCHANGED grading => Graded' /\ Sought'
<1> SUFFICES ASSUME VerdictInvariant, attempt = "grading", Carry, UNCHANGED grading
             PROVE  Graded' /\ Sought'
  OBVIOUS
<1>1. /\ leg \in {"out", "back"} /\ UNCHANGED <<known, call>>
      /\ leg' \in {"out", "back", "done"}
      /\ leg' = "back" => leg = "back" \/ call.kind = "ping"
  BY DEF Carry, Arrived, NoRoute, ArpTimeout, Forward, HopLimit, Travelling, EchoReply, Ends
<1>2. Topology /\ Traffics
  BY DEF VerdictInvariant, GradingInvariant
<1>3. Graded'
  <2>1. \A k, v : HoldsFor(k, v)' = HoldsFor(k, v)
    BY <1>1, AnswersStay
  <2> QED BY <2>1 DEF VerdictInvariant, Graded, grading
<1>4. PICK q : q = Question(Rule)
  OBVIOUS
<1>5. Question(Rule)' = q
  BY <1>4 DEF Rule, grading
<1>6. /\ ByTraffic(q) /\ q.type # "dhcp_lease" /\ Sent(q) /\ call = CallOf(q) /\ Now \in Reach(q)
      /\ leg = "back" => call.kind = "ping"
  BY <1>1, <1>4 DEF VerdictInvariant, Sought
<1>7. Now \in Trip /\ Now' = After(call, Now)
  BY <1>2, <1>6, CarryIsAfter
<1>8. Now' \in Reach(q)
  <2> DEFINE f == Walk(CallOf(q))
  <2>1. f \in [Trip -> Trip] /\ Start(q) \in Trip
    BY <1>2, <1>6, WalkIsTyped, StartIsTyped DEF ByTraffic
  <2>2. f[Now] = Now'
    BY <1>6, <1>7 DEF Walk
  <2>3. Now \in Orbit(f, Start(q))
    BY <1>6 DEF Reach
  <2>4. f[Now] \in Orbit(f, Start(q))
    <3> HIDE DEF f
    <3> QED BY <2>1, <2>3, OrbitGoesOn
  <2> QED BY <2>2, <2>4 DEF Reach
<1>9. \A how : leg' = "done" /\ answer' = how => Gets(q, how)
  <2>1. Now'.leg = leg' /\ Now'.answer = answer'
    BY DEF Now, Stage
  <2> QED BY <1>6, <1>8, <2>1 DEF Gets
<1>10. /\ Reach(q)' = Reach(q) /\ Sent(q)' = Sent(q)
       /\ \A how : Gets(q, how)' = Gets(q, how)
  BY <1>1, AnswersStay
<1>11. Sought'
  <2>1. ByTraffic(q)' /\ CallOf(q)' = CallOf(q)
    BY <1>6 DEF ByTraffic, CallOf
  <2> QED BY <1>1, <1>5, <1>6, <1>8, <1>9, <1>10, <2>1 DEF Sought
<1> QED BY <1>3, <1>11

LEMMA VerdictStepHolds ==
  VerdictInvariant /\ [GradingNext]_<<vars, grading>> => VerdictInvariant'
<1> SUFFICES ASSUME VerdictInvariant, [GradingNext]_<<vars, grading>> PROVE VerdictInvariant'
  OBVIOUS
<1>1. GradingInvariant'
  BY StepKeepsInvariant DEF VerdictInvariant
<1>2. CASE Simulate \/ Judge \/ Inspect \/ (attempt = "grading" /\ Carry /\ UNCHANGED grading)
  <2>1. Graded' /\ Sought'
    BY <1>2, SimulateIsSought, JudgeIsGraded, InspectIsGraded, CarryIsSought
  <2>2. attempt' = "grading"
    BY <1>2 DEF Simulate, Judge, Inspect, ToGrade, grading
  <2>3. (GradingInvariant /\ attempt = "grading" /\ Graded => SameQuestionSameVerdict)'
    BY GradedAgree, PTL
  <2> QED BY <1>1, <2>1, <2>2, <2>3 DEF VerdictInvariant
<1>3. CASE Begin
  <2>1. verdicts' = <<>> /\ leg' = "idle"
    BY <1>3 DEF Begin
  <2> QED BY <1>1, <2>1 DEF VerdictInvariant, Graded, Sought, SameQuestionSameVerdict
<1>4. CASE Finish \/ StartAttempt \/ (\E p \in Ports : Repair(p))
           \/ (attempt = "none" /\ Next /\ UNCHANGED grading)
  <2>1. attempt' # "grading" /\ verdicts' = verdicts
    BY <1>4 DEF Finish, StartAttempt, Repair, grading
  <2> QED BY <1>1, <2>1 DEF VerdictInvariant, Graded, Sought, SameQuestionSameVerdict
<1>5. CASE UNCHANGED <<vars, grading>>
  <2>1. \A q : /\ Reach(q)' = Reach(q) /\ Sent(q)' = Sent(q)
               /\ \A how : Gets(q, how)' = Gets(q, how)
               /\ \A v : HoldsFor(q, v)' = HoldsFor(q, v)
    BY <1>5, AnswersStay DEF vars
  <2>2. /\ UNCHANGED <<attempt, verdicts, leg, answer, call>> /\ Now' = Now /\ Rule' = Rule
    BY <1>5 DEF vars, grading, packet, Now, Stage, Rule
  <2>3. Graded'
    BY <2>1, <2>2 DEF VerdictInvariant, Graded
  <2>4. Sought'
    BY <2>1, <2>2 DEF VerdictInvariant, Sought, ByTraffic, CallOf, KindOf, Question
  <2>5. SameQuestionSameVerdict'
    BY <2>2 DEF VerdictInvariant, SameQuestionSameVerdict
  <2> QED BY <1>1, <2>3, <2>4, <2>5 DEF VerdictInvariant
<1> QED BY <1>2, <1>3, <1>4, <1>5 DEF GradingNext, Grader

\* The network that is graded decides a rule, and not the rules graded before it:
\* neither their ARP answers nor their packets are left for it (LabGrader).
THEOREM VerdictsAgree == GradingSpec => []SameQuestionSameVerdict
<1>1. GradingInit => VerdictInvariant
  <2> SUFFICES ASSUME GradingInit PROVE VerdictInvariant
    OBVIOUS
  <2>1. attempt = "none" /\ verdicts = <<>>
    BY DEF GradingInit
  <2> QED BY <2>1, GradingInitHolds
          DEF VerdictInvariant, Graded, Sought, SameQuestionSameVerdict
<1>2. VerdictInvariant => SameQuestionSameVerdict
  BY DEF VerdictInvariant
<1> QED BY <1>1, <1>2, VerdictStepHolds, PTL DEF GradingSpec

-----------------------------------------------------------------------------
(* How far away a router is *)

Rounds == Cardinality(Routers) + 1

LEMMA RoundsIsNat == Rounds \in Nat
  BY PortsAssumption, FS_Subset, FS_CardinalityType DEF Rounds

LEMMA AwayGrows ==
  ASSUME NEW lan
  PROVE  /\ Away(lan, 0) = OnLan(lan)
         /\ \A n \in 0..Rounds : Away(lan, n) \in SUBSET Routers
         /\ \A n \in 1..Rounds : Away(lan, n) = Away(lan, n - 1) \cup NextTo(Away(lan, n - 1))
<1> DEFINE V == SUBSET Routers
           len == Rounds
           start == OnLan(lan)
           turn == [k \in 1..len |-> [A \in V |-> A \cup NextTo(A)]]
           Loop(b) == b = [k \in 0..len |-> IF k = 0 THEN start
                                            ELSE b[k - 1] \cup NextTo(b[k - 1])]
           away == CHOOSE b : Loop(b)
<1>1. len \in Nat /\ start \in V
  BY RoundsIsNat DEF OnLan
<1>2. turn \in [1..len -> [V -> V]]
  BY DEF NextTo
<1>3. PICK b \in [0..len -> V] : b[0] = start /\ \A k \in 1..len : b[k] = turn[k][b[k - 1]]
  <2> HIDE DEF V, turn, len, start
  <2> QED BY <1>1, <1>2, LoopRuns
<1>4. \A k \in 1..len : b[k] = b[k - 1] \cup NextTo(b[k - 1])
  <2> SUFFICES ASSUME NEW k \in 1..len PROVE b[k] = b[k - 1] \cup NextTo(b[k - 1])
    OBVIOUS
  <2>1. k - 1 \in 0..len
    BY <1>1
  <2> HIDE DEF V, len
  <2>2. b[k - 1] \in V
    BY <1>3, <2>1
  <2> QED BY <1>3, <2>2
<1>5. Loop(b)
  <2>1. \A k \in 0..len : k # 0 => k \in 1..len
    BY <1>1
  <2> HIDE DEF len, start, V, turn
  <2> QED BY <1>3, <1>4, <2>1
<1>6. Loop(away)
  <2> HIDE DEF Loop
  <2> QED BY <1>5
<1>7. \A n : Away(lan, n) = away[n]
  BY DEF Away, Rounds
<1>8. /\ away[0] = start
      /\ \A k \in 1..len : away[k] = away[k - 1] \cup NextTo(away[k - 1])
  <2>1. 0 \in 0..len /\ \A k \in 1..len : k \in 0..len /\ k # 0
    BY <1>1
  <2> HIDE DEF away, len, start
  <2> QED BY <1>6, <2>1
<1> DEFINE Typed == {n \in Nat : n <= len => away[n] \in V}
<1>9. \A n \in 0..len : away[n] \in V
  <2> SUFFICES ASSUME NEW n \in 0..len PROVE away[n] \in V
    OBVIOUS
  <2> HIDE DEF away
  <2>1. 0 \in Typed
    BY <1>1, <1>8
  <2>2. ASSUME NEW k \in 0..n, k \in Typed PROVE k + 1 \in Typed
    <3> SUFFICES ASSUME k + 1 <= len PROVE away[k + 1] \in V
      BY <1>1
    <3>1. away[k] \in V /\ k + 1 \in 1..len /\ (k + 1) - 1 = k
      BY <1>1, <2>2
    <3>2. away[k + 1] = away[k] \cup NextTo(away[k])
      BY <1>8, <3>1
    <3> QED BY <3>1, <3>2 DEF NextTo
  <2>3. Typed \in SUBSET Nat /\ n \in Nat /\ n <= len
    BY <1>1
  <2>4. n \in Typed
    <3> HIDE DEF Typed, len
    <3> QED BY <2>1, <2>2, <2>3, UpTo
  <2> QED BY <2>3, <2>4
<1> HIDE DEF away
<1> QED BY <1>1, <1>7, <1>8, <1>9

LEMMA AwayIsMonotone ==
  ASSUME NEW lan, NEW m \in 0..Rounds, NEW n \in 0..Rounds, m <= n
  PROVE  Away(lan, m) \subseteq Away(lan, n)
<1> DEFINE S == {i \in Nat : m + i <= Rounds => Away(lan, m) \subseteq Away(lan, m + i)}
<1>1. Rounds \in Nat /\ n - m \in Nat /\ m + (n - m) = n
  BY RoundsIsNat
<1>2. 0 \in S
  BY <1>1
<1>3. ASSUME NEW i \in 0..(n - m), i \in S PROVE i + 1 \in S
  <2> SUFFICES ASSUME m + (i + 1) <= Rounds PROVE Away(lan, m) \subseteq Away(lan, m + (i + 1))
    BY <1>1
  <2>1. Away(lan, m) \subseteq Away(lan, m + i)
    BY <1>1, <1>3
  <2>2. m + (i + 1) \in 1..Rounds /\ (m + (i + 1)) - 1 = m + i
    BY <1>1
  <2>3. Away(lan, m + (i + 1)) = Away(lan, m + i) \cup NextTo(Away(lan, m + i))
    BY <2>2, AwayGrows
  <2> QED BY <2>1, <2>3
<1>4. n - m \in S
  <2>1. S \in SUBSET Nat
    OBVIOUS
  <2> HIDE DEF S
  <2> QED BY <1>1, <1>2, <1>3, <2>1, UpTo
<1> QED BY <1>1, <1>4
\* How far a router is does not depend on the document.
LEMMA AwayStays == \A lan, n : Away(lan, n)' = Away(lan, n)
  BY DEF Away, OnLan, NextTo, PortsOf

-----------------------------------------------------------------------------
(* A well-configured network *)

\* A subnet is a LAN, and an address is one port's.
LEMMA SubnetIsLan ==
  ASSUME Document(doc), WellConfigured
  PROVE  /\ doc.up = Ports /\ doc.cabled = Ports
         /\ \A p \in Ports : doc.ip[p] \in Addresses /\ doc.ip[p] # NoAddress
         /\ \A p, q \in Ports : doc.ip[q] \in doc.net[p] <=> Lan[p] = Lan[q]
         /\ \A p, q \in Ports : doc.net[p] = doc.net[q] => Lan[p] = Lan[q]
         /\ \A p, q \in Ports : doc.ip[p] = doc.ip[q] => p = q
<1>1. doc \in Fields
  BY DocumentFields
<1>2. \A p \in Ports : doc.ip[p] \in doc.net[p]
  BY DEF WellConfigured
<1>3. ASSUME NEW p \in Ports PROVE doc.ip[p] \in Addresses /\ doc.ip[p] # NoAddress
  <2>1. doc.net[p] \in Subnets
    BY <1>1 DEF Fields
  <2>2. doc.net[p] \subseteq Addresses
    BY <2>1, AddressesAssumption DEF Subnets
  <2> QED BY <1>2, <2>2, AddressesAssumption
<1>4. \A p, q \in Ports : IF Lan[p] = Lan[q] THEN doc.net[p] = doc.net[q]
                                             ELSE doc.net[p] \cap doc.net[q] = {}
  BY DEF WellConfigured
<1>5. \A p, q \in Ports : doc.ip[q] \in doc.net[p] <=> Lan[p] = Lan[q]
  BY <1>2, <1>4
<1>6. \A p, q \in Ports : doc.net[p] = doc.net[q] => Lan[p] = Lan[q]
  BY <1>2, <1>4
<1>7. \A p, q \in Ports : doc.ip[p] = doc.ip[q] => p = q
  BY <1>3 DEF WellConfigured, OneHolder
<1> QED BY <1>3, <1>5, <1>6, <1>7 DEF WellConfigured

\* A device is local to an address when it has a port on the address's LAN.
LEMMA LocalIsOnLan ==
  ASSUME Document(doc), WellConfigured, NEW d, NEW t \in Ports
  PROVE  Local(d, doc.ip[t]) = {p \in PortsOf(d) : Lan[p] = Lan[t]}
  BY SubnetIsLan DEF Local, PortsOf

LEMMA HolderOwns ==
  ASSUME Document(doc), WellConfigured, NEW d, NEW t \in Ports
  PROVE  Owns(d, doc.ip[t]) <=> DeviceOf[t] = d
  BY SubnetIsLan DEF Owns, PortsOf

LEMMA EveryDeviceHasPort ==
  ASSUME WellConfigured, NEW d \in Devices
  PROVE  PortsOf(d) # {}
  BY DEF WellConfigured

\* The router of v is closer to t's LAN than d is.
Closer(d, v, t) ==
  \E n \in 0..Cardinality(Routers) : DeviceOf[v] \in Away(Lan[t], n) /\ d \notin Away(Lan[t], n)

LEMMA LeadsToNeighbour ==
  ASSUME Document(doc), WellConfigured, NEW d, NEW hop, NEW t \in Ports,
         LeadsCloser(d, hop, doc.ip[t])
  PROVE  \E v \in Ports : /\ hop = doc.ip[v] /\ Closer(d, v, t)
                          /\ \E p \in PortsOf(d) : Lan[p] = Lan[v]
<1>1. PICK v \in Ports, r \in Ports :
        /\ doc.ip[v] = hop /\ doc.ip[r] = doc.ip[t]
        /\ \E p \in PortsOf(d) : Lan[p] = Lan[v]
        /\ \E n \in 0..Cardinality(Routers) :
             DeviceOf[v] \in Away(Lan[r], n) /\ d \notin Away(Lan[r], n)
  BY DEF LeadsCloser
<1>2. r = t
  BY <1>1, SubnetIsLan
<1> QED BY <1>1, <1>2 DEF Closer

\* Every router is some number of routers away from a LAN.
LEMMA RouterRank ==
  ASSUME Document(doc), WellConfigured, NEW d \in Routers, NEW t \in Ports
  PROVE  \E n \in 0..Rounds : d \in Away(Lan[t], n)
<1>1. Rounds \in Nat /\ Rounds = Cardinality(Routers) + 1 /\ Cardinality(Routers) \in Nat
  BY RoundsIsNat, PortsAssumption, FS_Subset, FS_CardinalityType DEF Rounds
<1>2. CASE Local(d, doc.ip[t]) # {}
  <2>1. d \in OnLan(Lan[t])
    BY <1>2, LocalIsOnLan DEF OnLan
  <2>2. d \in Away(Lan[t], 0) /\ 0 \in 0..Rounds
    BY <1>1, <2>1, AwayGrows
  <2> QED BY <2>2
<1>3. CASE Local(d, doc.ip[t]) = {}
  <2>1. \E hop : LeadsCloser(d, hop, doc.ip[t])
    BY <1>3 DEF WellConfigured
  <2>2. PICK v \in Ports : Closer(d, v, t) /\ \E p \in PortsOf(d) : Lan[p] = Lan[v]
    BY <2>1, LeadsToNeighbour
  <2>3. PICK n \in 0..Cardinality(Routers) : DeviceOf[v] \in Away(Lan[t], n)
    BY <2>2 DEF Closer
  <2>4. n + 1 \in 1..Rounds /\ (n + 1) - 1 = n /\ n + 1 \in 0..Rounds
    BY <1>1
  <2>5. d \in NextTo(Away(Lan[t], n))
    BY <2>2, <2>3 DEF NextTo
  <2>6. d \in Away(Lan[t], n + 1)
    BY <2>4, <2>5, AwayGrows
  <2> QED BY <2>4, <2>6
<1> QED BY <1>2, <1>3
-----------------------------------------------------------------------------
(* The next hop in a well-configured network *)

\* No static route is missing from a table.
TablesComplete == \A d \in Devices : StaticRoutes(d) \subseteq table[d]

\* d sends what is for t out of x to the port v, and that is the right way.
Takes(d, x, v, t) ==
  /\ x \in PortsOf(d) /\ v \in Ports /\ Lan[x] = Lan[v] /\ DeviceOf[v] # d
  /\ IF Local(d, doc.ip[t]) # {} THEN v = t
     ELSE \/ Local(DeviceOf[v], doc.ip[t]) # {}
          \/ Closer(d, v, t)
          \/ d \notin Routers /\ DeviceOf[v] \in Routers

\* With a neighbour's address as the next hop, a device has one way out.
LEMMA OutToNeighbour ==
  ASSUME Document(doc), WellConfigured, NEW d, NEW route, NEW v \in Ports,
         route.exit = NoPort, \E p \in PortsOf(d) : Lan[p] = Lan[v]
  PROVE  \E x \in PortsOf(d) : /\ Lan[x] = Lan[v]
                               /\ Towards(d, route, doc.ip[v]) = {x}
<1>1. Local(d, doc.ip[v]) = {p \in PortsOf(d) : Lan[p] = Lan[v]}
  BY LocalIsOnLan
<1>2. Local(d, doc.ip[v]) # {}
  BY <1>1
<1>3. First(Local(d, doc.ip[v])) \in Local(d, doc.ip[v])
  BY <1>2, LocalIsIn
<1>4. route.exit \notin PortsOf(d)
  BY PortsAssumption DEF PortsOf
<1>5. Towards(d, route, doc.ip[v]) = {First(Local(d, doc.ip[v]))}
  BY <1>2, <1>4 DEF Towards
<1> QED BY <1>1, <1>3, <1>5

\* Of a router's static routes the most specific one that matches leads closer.
LEMMA StaticLeadsCloser ==
  ASSUME Document(doc), TablesSound, TablesComplete, WellConfigured,
         NEW d \in Routers, NEW t \in Ports, Local(d, doc.ip[t]) = {},
         NEW route, Static(d, route), doc.ip[t] \in route.network,
         \A u \in table[d] : doc.ip[t] \in u.network => Before(route, u)
  PROVE  route.exit = NoPort /\ LeadsCloser(d, route.nextHop, doc.ip[t])
<1> DEFINE a == doc.ip[t]
           routes == {r \in ToSet(doc.routes[d]) : a \in r.network}
           best   == {r \in routes : \A u \in routes :
                        Cardinality(r.network) <= Cardinality(u.network)}
<1>1. d \in Devices /\ doc \in Fields
  BY PortsAssumption, DocumentFields
<1>2. \A r \in best : r.exit = NoPort /\ LeadsCloser(d, r.nextHop, a)
  BY DEF WellConfigured
<1>3. PICK i \in DOMAIN doc.routes[d] : route = AsRoute(doc.routes[d][i], Len(PortOrder) + i)
  BY DEF Static
<1>4. PICK r : r = doc.routes[d][i]
  OBVIOUS
<1>5. /\ route.network = r.network /\ route.nextHop = r.nextHop /\ route.exit = r.exit
      /\ r \in routes
  BY <1>3, <1>4 DEF AsRoute, Route, ToSet
<1>6. ASSUME NEW u \in routes PROVE Cardinality(r.network) <= Cardinality(u.network)
  <2>1. PICK j \in DOMAIN doc.routes[d] : u = doc.routes[d][j]
    BY DEF ToSet
  <2>2. PICK w : w = AsRoute(u, Len(PortOrder) + j)
    OBVIOUS
  <2>3. w \in table[d] /\ w.network = u.network
    BY <1>1, <2>1, <2>2 DEF TablesComplete, StaticRoutes, AsRoute, Route
  <2>4. Before(route, w)
    BY <2>3
  <2>5. route.network \in Subnets /\ w.network \in Subnets
    <3>1. StaticRoutes(d) \subseteq table[d] /\ table[d] \subseteq Entry
      BY <1>1 DEF TablesComplete, TablesSound
    <3>2. route \in StaticRoutes(d)
      BY <1>3 DEF StaticRoutes
    <3> QED BY <2>3, <3>1, <3>2 DEF Entry
  <2>6. Cardinality(route.network) \in Nat /\ Cardinality(w.network) \in Nat
    BY <2>5, SubnetIsFinite
  <2>7. Cardinality(route.network) <= Cardinality(w.network)
    BY <2>4, <2>6 DEF Before
  <2> QED BY <1>5, <2>3, <2>7
<1>7. r \in best
  BY <1>5, <1>6
<1> QED BY <1>2, <1>5, <1>7

LEMMA RouteTakes ==
  ASSUME Document(doc), TablesSound, TablesComplete, WellConfigured,
         NEW d \in Devices, NEW t \in Ports, Local(d, doc.ip[t]) = {},
         NEW route \in LookupRoute(d, doc.ip[t])
  PROVE  \E x, v : /\ Takes(d, x, v, t)
                   /\ route.nextHop = doc.ip[v] /\ doc.ip[v] # NoAddress
                   /\ Towards(d, route, doc.ip[v]) = {x}
<1> DEFINE a == doc.ip[t]
           Found == \E x, v : /\ Takes(d, x, v, t)
                              /\ route.nextHop = doc.ip[v] /\ doc.ip[v] # NoAddress
                              /\ Towards(d, route, doc.ip[v]) = {x}
<1>1. doc \in Fields /\ table[d] \subseteq Entry /\ \A u \in table[d] : Accounted(d, u)
  BY DocumentFields DEF TablesSound
<1>2. \A p \in Ports : doc.ip[p] # NoAddress
  BY SubnetIsLan
<1>3. \/ /\ route \in table[d] /\ a \in route.network
         /\ \A u \in table[d] : a \in u.network => Before(route, u)
      \/ /\ doc.gateway[d] # NoAddress /\ \A u \in table[d] : a \notin u.network
         /\ route = Route(Addresses, doc.gateway[d], NoPort, 0, 0)
  BY <1>1, LookupFinds
<1>4. ASSUME route \in table[d], a \in route.network,
             \A u \in table[d] : a \in u.network => Before(route, u), Static(d, route)
      PROVE  Found
  <2>1. d \in Routers
    <3> SUFFICES ASSUME d \notin Routers PROVE FALSE
      OBVIOUS
    <3>1. doc.routes[d] = <<>>
      BY DEF WellConfigured
    <3> QED BY <1>4, <3>1 DEF Static
  <2>2. route.exit = NoPort /\ LeadsCloser(d, route.nextHop, a)
    BY <1>4, <2>1, StaticLeadsCloser
  <2>3. PICK v \in Ports : /\ route.nextHop = doc.ip[v] /\ Closer(d, v, t)
                           /\ \E p \in PortsOf(d) : Lan[p] = Lan[v]
    BY <2>2, LeadsToNeighbour
  <2>4. PICK x \in PortsOf(d) : Lan[x] = Lan[v] /\ Towards(d, route, doc.ip[v]) = {x}
    BY <2>2, <2>3, OutToNeighbour
  <2>5. DeviceOf[v] # d
    BY <2>3 DEF Closer
  <2>6. Takes(d, x, v, t)
    BY <2>3, <2>4, <2>5 DEF Takes
  <2> QED BY <1>2, <2>3, <2>4, <2>6
<1>5. ASSUME route \in table[d], a \in route.network, Learned(d, route) PROVE  Found
  <2>1. PICK q \in Ports \cap doc.up : \E h \in PortsOf(DeviceOf[q]) \cap doc.up :
          /\ route.network = doc.net[q] /\ route.nextHop = doc.ip[h]
          /\ route.exit \in PortsOf(d) \cap doc.up
          /\ doc.net[h] = doc.net[route.exit] /\ doc.net[h] # {}
    BY <1>5 DEF Learned
  <2>2. PICK v \in PortsOf(DeviceOf[q]) \cap doc.up :
          /\ route.network = doc.net[q] /\ route.nextHop = doc.ip[v]
          /\ route.exit \in PortsOf(d) \cap doc.up
          /\ doc.net[v] = doc.net[route.exit] /\ doc.net[v] # {}
    BY <2>1
  <2>3. v \in Ports /\ DeviceOf[v] = DeviceOf[q] /\ route.exit \in Ports
    BY <2>2 DEF PortsOf
  <2>4. Lan[route.exit] = Lan[v]
    BY <2>2, <2>3, SubnetIsLan
  <2>5. q \in Local(DeviceOf[v], a)
    BY <1>5, <2>2, <2>3 DEF Local, PortsOf
  <2>6. DeviceOf[v] # d
    BY <2>5
  <2>7. Takes(d, route.exit, v, t)
    BY <2>2, <2>3, <2>4, <2>5, <2>6 DEF Takes
  <2>8. Towards(d, route, doc.ip[v]) = {route.exit}
    BY <2>2 DEF Towards
  <2> QED BY <1>2, <2>2, <2>3, <2>7, <2>8
<1>6. ASSUME route \in table[d], a \in route.network PROVE ~Connected(d, route)
  BY <1>6 DEF Connected, Local
<1>7. ASSUME doc.gateway[d] # NoAddress, \A u \in table[d] : a \notin u.network,
             route = Route(Addresses, doc.gateway[d], NoPort, 0, 0)
      PROVE  Found
  <2>1. d \notin Routers
    <3> SUFFICES ASSUME d \in Routers PROVE FALSE
      OBVIOUS
    <3>1. {r \in ToSet(doc.routes[d]) : a \in r.network} # {}
      BY DEF WellConfigured
    <3>2. PICK i \in DOMAIN doc.routes[d] : a \in doc.routes[d][i].network
      BY <3>1 DEF ToSet
    <3>3. PICK w : w = AsRoute(doc.routes[d][i], Len(PortOrder) + i)
      OBVIOUS
    <3>4. w \in table[d] /\ w.network = doc.routes[d][i].network
      BY <3>3 DEF TablesComplete, StaticRoutes, AsRoute, Route
    <3> QED BY <1>7, <3>2, <3>4
  <2>2. PICK p \in PortsOf(d), v \in Ports \ PortsOf(d) :
          Lan[p] = Lan[v] /\ DeviceOf[v] \in Routers /\ doc.ip[v] = doc.gateway[d]
    BY <2>1 DEF WellConfigured
  <2>3. route.exit = NoPort /\ route.nextHop = doc.ip[v]
    BY <1>7, <2>2 DEF Route
  <2>4. PICK x \in PortsOf(d) : Lan[x] = Lan[v] /\ Towards(d, route, doc.ip[v]) = {x}
    BY <2>2, <2>3, OutToNeighbour
  <2>5. DeviceOf[v] # d
    BY <2>2 DEF PortsOf
  <2>6. Takes(d, x, v, t)
    BY <2>1, <2>2, <2>4, <2>5 DEF Takes
  <2> QED BY <1>2, <2>2, <2>3, <2>4, <2>6
<1> QED BY <1>1, <1>3, <1>4, <1>5, <1>6, <1>7 DEF Accounted
LEMMA SomeRoute ==
  ASSUME Document(doc), TablesComplete, WellConfigured, NEW d \in Devices, NEW t \in Ports,
         Local(d, doc.ip[t]) = {}
  PROVE  LookupRoute(d, doc.ip[t]) # {}
<1> DEFINE a == doc.ip[t]
<1>1. CASE d \in Routers
  <2>1. {r \in ToSet(doc.routes[d]) : a \in r.network} # {}
    BY <1>1 DEF WellConfigured
  <2>2. PICK i \in DOMAIN doc.routes[d] : a \in doc.routes[d][i].network
    BY <2>1 DEF ToSet
  <2>3. PICK w : w = AsRoute(doc.routes[d][i], Len(PortOrder) + i)
    OBVIOUS
  <2>4. w \in table[d] /\ a \in w.network
    BY <2>2, <2>3 DEF TablesComplete, StaticRoutes, AsRoute, Route
  <2> QED BY <2>4 DEF LookupRoute
<1>2. CASE d \notin Routers
  <2>1. \E v \in Ports : doc.ip[v] = doc.gateway[d]
    BY <1>2 DEF WellConfigured
  <2>2. doc.gateway[d] # NoAddress
    BY <2>1, SubnetIsLan
  <2> QED BY <2>2 DEF LookupRoute
<1> QED BY <1>1, <1>2

\* There is a way out, and every way out is the right one.
LEMMA EgressTakes ==
  ASSUME Document(doc), TablesSound, TablesComplete, WellConfigured,
         NEW d \in Devices, NEW t \in Ports, DeviceOf[t] # d
  PROVE  /\ ChooseEgress(d, doc.ip[t]) # {}
         /\ \A e \in ChooseEgress(d, doc.ip[t]) :
              \E v : Takes(d, e[1], v, t) /\ e[2] = doc.ip[v]
<1> DEFINE a == doc.ip[t]
<1>1. CASE Local(d, a) # {}
  <2>1. PICK x : x = First(Local(d, a))
    OBVIOUS
  <2>2. x \in PortsOf(d) /\ Lan[x] = Lan[t]
    BY <1>1, <2>1, LocalIsIn, LocalIsOnLan
  <2>3. Takes(d, x, t, t)
    BY <1>1, <2>2 DEF Takes
  <2>4. ChooseEgress(d, a) = {<<x, a>>}
    BY <1>1, <2>1 DEF ChooseEgress
  <2> QED BY <2>3, <2>4
<1>2. CASE Local(d, a) = {}
  <2> DEFINE Hop(route) == IF route.nextHop = NoAddress THEN a ELSE route.nextHop
             Ways(route) == Towards(d, route, Hop(route)) \X {Hop(route)}
  <2>1. ChooseEgress(d, a) = UNION {Ways(route) : route \in LookupRoute(d, a)}
    BY <1>2 DEF ChooseEgress
  <2>2. ASSUME NEW route \in LookupRoute(d, a)
        PROVE  \E x, v : Takes(d, x, v, t) /\ Ways(route) = {<<x, doc.ip[v]>>}
    <3>1. PICK x, v : /\ Takes(d, x, v, t)
                      /\ route.nextHop = doc.ip[v] /\ doc.ip[v] # NoAddress
                      /\ Towards(d, route, doc.ip[v]) = {x}
      BY <1>2, RouteTakes
    <3>2. Hop(route) = doc.ip[v]
      BY <3>1
    <3>3. Ways(route) = {x} \X {doc.ip[v]}
      BY <3>1, <3>2
    <3> QED BY <3>1, <3>3
  <2>3. LookupRoute(d, a) # {}
    BY <1>2, SomeRoute
  <2> HIDE DEF Ways, Hop
  <2>4. ChooseEgress(d, a) # {}
    <3>1. PICK route \in LookupRoute(d, a) : TRUE
      BY <2>3
    <3>2. PICK x, v : Ways(route) = {<<x, doc.ip[v]>>}
      BY <2>2
    <3>3. <<x, doc.ip[v]>> \in ChooseEgress(d, a)
      BY <2>1, <3>2
    <3> QED BY <3>3
  <2>5. ASSUME NEW e \in ChooseEgress(d, a) PROVE \E v : Takes(d, e[1], v, t) /\ e[2] = doc.ip[v]
    <3>1. PICK route \in LookupRoute(d, a) : e \in Ways(route)
      BY <2>1
    <3>2. PICK x, v : Takes(d, x, v, t) /\ Ways(route) = {<<x, doc.ip[v]>>}
      BY <2>2
    <3>3. e = <<x, doc.ip[v]>>
      BY <3>1, <3>2
    <3>4. e[1] = x /\ e[2] = doc.ip[v]
      BY <3>3
    <3> QED BY <3>2, <3>4
  <2> QED BY <2>4, <2>5
<1> QED BY <1>1, <1>2

\* On one LAN the port with an address is found, and the frame gets there.
LEMMA NeighbourIsReached ==
  ASSUME Topology, Traffics, WellConfigured, NEW d \in Devices,
         NEW x \in PortsOf(d), NEW v \in Ports, Lan[x] = Lan[v], DeviceOf[v] # d
  PROVE  /\ ResolveArp(d, x, doc.ip[v]) = {v}
         /\ Landing(x, v) = {DeviceOf[v]}
<1> DEFINE a == doc.ip[v]
<1>1. Document(doc)
  BY DEF Topology
<1>2. /\ doc.up = Ports /\ doc.cabled = Ports
      /\ \A p, q \in Ports : doc.ip[p] = doc.ip[q] => p = q
  BY <1>1, SubnetIsLan
<1>3. x \in Ports /\ v # x
  BY DEF PortsOf
<1>4. Heard(x) = {q \in Ports : q # x /\ Lan[q] = Lan[x]}
  BY <1>2, <1>3 DEF Heard
<1>5. Answering(x, a) = {v}
  BY <1>2, <1>3, <1>4 DEF Answering
<1>6. ASSUME NEW q \in ResolveArp(d, x, a) PROVE q = v
  <2>1. q \in Ports /\ (<<d, a, q>> \in cache \/ q \in Answering(x, a))
    BY ResolvesToPort DEF Traffics
  <2>2. CASE <<d, a, q>> \in cache
    <3>1. Honest(<<d, a, q>>)
      BY <2>2 DEF Traffics, CacheSound
    <3>2. doc.ip[q] = a
      BY <3>1 DEF Honest
    <3> QED BY <1>2, <2>1, <3>2
  <2> QED BY <1>5, <2>1, <2>2
<1>7. ResolveArp(d, x, a) # {}
  BY <1>5 DEF ResolveArp
<1>8. Landing(x, v) = {DeviceOf[v]}
  <2>1. CASE Lan[x] \in Direct
    <3>1. Heard(x) = {v}
      BY <1>3, <1>4, <2>1, CablesAssumption
    <3> QED BY <2>1, <3>1 DEF Landing
  <2>2. CASE Lan[x] \notin Direct
    <3>1. Heard(x) \cap doc.up \cap {v} = {v}
      BY <1>2, <1>3, <1>4
    <3> QED BY <2>2, <3>1 DEF Landing
  <2> QED BY <2>1, <2>2
<1> QED BY <1>6, <1>7, <1>8

-----------------------------------------------------------------------------
(* The hops that are left *)

\* k hops are enough to get from d to t: that t is answered for counts as one.
Enough(d, t, k) ==
  \/ DeviceOf[t] = d /\ k >= 1
  \/ Local(d, doc.ip[t]) # {} /\ k >= 2
  \/ \E n \in 0..Rounds : d \in Away(Lan[t], n) /\ k >= n + 2
  \/ d \notin Routers /\ k >= Rounds + 3

LEMMA HopIsEnough ==
  ASSUME Document(doc), WellConfigured, NEW d \in Devices, NEW t \in Ports, NEW k \in Int,
         Enough(d, t, k), DeviceOf[t] # d, NEW x, NEW v, Takes(d, x, v, t)
  PROVE  Enough(DeviceOf[v], t, k - 1)
<1>1. Rounds \in Nat /\ Rounds = Cardinality(Routers) + 1 /\ Cardinality(Routers) \in Nat
  BY RoundsIsNat, PortsAssumption, FS_Subset, FS_CardinalityType DEF Rounds
<1>2. CASE Local(d, doc.ip[t]) # {}
  <2>1. v = t
    BY <1>2 DEF Takes
  <2>2. k >= 2
    BY <1>1 DEF Enough
  <2> QED BY <2>1, <2>2 DEF Enough
<1>3. CASE Local(d, doc.ip[t]) = {}
  <2>1. \/ \E n \in 1..Rounds : d \in Away(Lan[t], n) /\ k >= n + 2
        \/ d \notin Routers /\ k >= Rounds + 3
    <3>1. d \notin OnLan(Lan[t])
      BY <1>3, LocalIsOnLan DEF OnLan
    <3>2. d \notin Away(Lan[t], 0)
      BY <3>1, AwayGrows
    <3>3. \A n \in 0..Rounds : n # 0 => n \in 1..Rounds
      BY <1>1
    <3> QED BY <1>3, <3>2, <3>3 DEF Enough
  <2>2. CASE Local(DeviceOf[v], doc.ip[t]) # {}
    <3>1. k - 1 >= 2
      BY <1>1, <2>1
    <3> QED BY <2>2, <3>1 DEF Enough
  <2>3. CASE Closer(d, v, t)
    <3>1. PICK m \in 0..Cardinality(Routers) :
            DeviceOf[v] \in Away(Lan[t], m) /\ d \notin Away(Lan[t], m)
      BY <2>3 DEF Closer
    <3>2. m \in 0..Rounds
      BY <1>1
    <3>3. ASSUME NEW n \in 1..Rounds, d \in Away(Lan[t], n) PROVE n > m
      <4> SUFFICES ASSUME n <= m PROVE FALSE
        BY <1>1
      <4>1. n \in 0..Rounds
        BY <1>1
      <4>2. Away(Lan[t], n) \subseteq Away(Lan[t], m)
        BY <3>2, <4>1, AwayIsMonotone
      <4> QED BY <3>1, <3>3, <4>2
    <3>4. k - 1 >= m + 2
      BY <1>1, <2>1, <3>3
    <3> QED BY <3>1, <3>2, <3>4 DEF Enough
  <2>4. CASE d \notin Routers /\ DeviceOf[v] \in Routers
    <3>1. k >= Rounds + 3
      <4>1. \A n \in 0..Rounds : Away(Lan[t], n) \in SUBSET Routers
        BY AwayGrows
      <4>2. \A n \in 1..Rounds : n \in 0..Rounds
        BY <1>1
      <4> QED BY <2>1, <2>4, <4>1, <4>2
    <3>2. PICK n \in 0..Rounds : DeviceOf[v] \in Away(Lan[t], n)
      BY <2>4, RouterRank
    <3>3. k - 1 >= n + 2
      BY <1>1, <3>1
    <3> QED BY <3>2, <3>3 DEF Enough
  <2> QED BY <1>3, <2>2, <2>3, <2>4 DEF Takes
<1> QED BY <1>2, <1>3

LEMMA StartIsEnough ==
  ASSUME Document(doc), WellConfigured, Cardinality(Routers) + 3 < MaxHops,
         NEW d \in Devices, NEW t \in Ports
  PROVE  Enough(d, t, MaxHops)
<1>1. Rounds \in Nat /\ Rounds + 3 <= MaxHops /\ MaxHops \in Nat
  BY RoundsIsNat, PortsAssumption, FS_Subset, FS_CardinalityType, HopsAssumption DEF Rounds
<1>2. CASE d \in Routers
  <2>1. PICK n \in 0..Rounds : d \in Away(Lan[t], n)
    BY <1>2, RouterRank
  <2>2. MaxHops >= n + 2
    BY <1>1
  <2> QED BY <2>1, <2>2 DEF Enough
<1>3. CASE d \notin Routers
  BY <1>1, <1>3 DEF Enough
<1> QED BY <1>2, <1>3
-----------------------------------------------------------------------------
(* An exchange in a well-configured network *)

\* A ping or a single packet is asked for, and what it is for has an address.
Asking(c) ==
  /\ WellConfigured /\ c.kind \in {"ping", "oneway"}
  /\ c.to \in Devices \/ \E p \in Ports : doc.ip[p] = c.to

OnTheWay(d, a, h) == \E t \in Ports : a = doc.ip[t] /\ Enough(d, t, MaxHops - h)

Reaching ==
  Asking(call) => /\ leg \in {"out", "back"} => OnTheWay(at, dest, hops)
                  /\ leg = "done" => answer = "success"

ReachInvariant ==
  /\ GradingInvariant /\ Reaching
  /\ leg # "idle" \/ attempt = "grading" => TablesComplete
  /\ leg \in {"out", "back"} => call.from \in Devices

LEMMA ConfigurationStays ==
  ASSUME doc' = doc
  PROVE  /\ \A c : Asking(c)' = Asking(c)
         /\ \A d, a, h : OnTheWay(d, a, h)' = OnTheWay(d, a, h)
         /\ table' = table => TablesComplete' = TablesComplete
<1>1. /\ \A d, a : Local(d, a)' = Local(d, a)
      /\ \A d, hop, a : LeadsCloser(d, hop, a)' = LeadsCloser(d, hop, a)
      /\ OneHolder' = OneHolder
  <2>1. \A d, a : Local(d, a)' = Local(d, a)
    BY DEF Local, PortsOf
  <2>2. \A d, hop, a : LeadsCloser(d, hop, a)' = LeadsCloser(d, hop, a)
    BY AwayStays DEF LeadsCloser, PortsOf
  <2> QED BY <2>1, <2>2 DEF OneHolder
<1>2. WellConfigured' = WellConfigured
  BY <1>1 DEF WellConfigured, PortsOf
<1>3. \A c : Asking(c)' = Asking(c)
  BY <1>2 DEF Asking
<1>4. \A d, t, k : Enough(d, t, k)' = Enough(d, t, k)
  BY <1>1, AwayStays DEF Enough
<1>5. \A d, a, h : OnTheWay(d, a, h)' = OnTheWay(d, a, h)
  BY <1>4 DEF OnTheWay
<1>6. table' = table => TablesComplete' = TablesComplete
  BY DEF TablesComplete, StaticRoutes
<1> QED BY <1>3, <1>5, <1>6

LEMMA NetworkIsComplete == Network => TablesComplete'
<1> SUFFICES ASSUME Network PROVE TablesComplete'
  OBVIOUS
<1>1. doc' = doc /\ \A d \in Devices : table'[d] = RoutingTable(d)
  BY DEF Network
<1>2. \A d : StaticRoutes(d)' = StaticRoutes(d)
  BY <1>1 DEF StaticRoutes
<1> QED BY <1>1, <1>2 DEF TablesComplete, RoutingTable

\* In a well-configured network every device that is up has an address.
LEMMA FirstIpIsAPort ==
  ASSUME Document(doc), WellConfigured, NEW d \in Devices
  PROVE  Working(d) # {} /\ \E t \in Ports : FirstIp(Working(d)) = doc.ip[t]
<1>1. Working(d) = PortsOf(d)
  BY SubnetIsLan DEF Working, PortsOf
<1>2. PortsOf(d) # {} /\ PortsOf(d) \in SUBSET Ports
  BY EveryDeviceHasPort DEF PortsOf
<1>3. First(PortsOf(d)) \in Ports
  BY <1>2, FirstIsIn
<1> QED BY <1>1, <1>2, <1>3 DEF FirstIp

LEMMA FacingIsAPort ==
  ASSUME Document(doc), WellConfigured, NEW s \in Devices, NEW a
  PROVE  \E t \in Ports : AddressFacing(s, a) = doc.ip[t]
<1>1. CASE Local(s, a) # {}
  <2>1. First(Local(s, a)) \in Ports
    BY <1>1, LocalIsIn
  <2> QED BY <1>1, <2>1 DEF AddressFacing
<1>2. CASE Local(s, a) = {}
  BY <1>2, FirstIpIsAPort DEF AddressFacing
<1> QED BY <1>1, <1>2

LEMMA ResolvedIsAPort ==
  ASSUME Document(doc), NEW c, Asking(c)
  PROVE  Resolved(c.to) # NoAddress /\ \E t \in Ports : Resolved(c.to) = doc.ip[t]
<1>1. WellConfigured /\ \A p \in Ports : doc.ip[p] # NoAddress
  BY SubnetIsLan DEF Asking
<1>2. CASE c.to \in Devices
  BY <1>1, <1>2, FirstIpIsAPort DEF Resolved
<1>3. CASE c.to \notin Devices
  <2>1. PICK p \in Ports : doc.ip[p] = c.to
    BY <1>3 DEF Asking
  <2>2. DeviceOf[p] \in Devices /\ Owns(DeviceOf[p], c.to)
    BY <2>1, PortsAssumption DEF Owns, PortsOf
  <2>3. Resolved(c.to) = c.to
    BY <1>3, <2>2 DEF Resolved
  <2> QED BY <1>1, <2>1, <2>3
<1> QED BY <1>2, <1>3

LEMMA AskReaches ==
  ASSUME Topology, Cardinality(Routers) + 3 < MaxHops, doc' = doc,
         NEW kind \in Kinds, NEW s \in Devices, NEW to, Ask(kind, s, to)
  PROVE  Reaching' /\ call'.from \in Devices
<1>1. call' = Call(kind, s, to, {}) /\ call'.from = s
  BY DEF Ask, Call
<1>2. ASSUME Asking(call') PROVE leg' = "out" /\ OnTheWay(at', dest', hops')
  <2>1. Document(doc) /\ WellConfigured
    BY <1>2 DEF Topology, Asking
  <2>2. kind # "dns" /\ call'.to = to
    BY <1>1, <1>2 DEF Asking, Call
  <2>3. Resolved(to) # NoAddress /\ \E t \in Ports : Resolved(to) = doc.ip[t]
    BY <1>2, <2>1, <2>2, ResolvedIsAPort
  <2>4. Working(s) # {}
    BY <2>1, FirstIpIsAPort
  <2>5. leg' = "out" /\ at' = s /\ dest' = Resolved(to) /\ hops' = 0
    BY <2>2, <2>3, <2>4 DEF Ask
  <2>6. \A t \in Ports : Enough(s, t, MaxHops)
    BY <2>1, StartIsEnough
  <2>7. MaxHops - 0 = MaxHops
    BY HopsAssumption
  <2> QED BY <2>3, <2>5, <2>6, <2>7 DEF OnTheWay
<1>3. Reaching'
  <2>1. \A c : Asking(c)' = Asking(c)
    BY ConfigurationStays
  <2>2. \A d, a, h : OnTheWay(d, a, h)' = OnTheWay(d, a, h)
    BY ConfigurationStays
  <2> QED BY <1>2, <2>1, <2>2 DEF Reaching
<1> QED BY <1>1, <1>3
LEMMA CarryReaches ==
  ASSUME Cardinality(Routers) + 3 < MaxHops, ReachInvariant, Carry, Asking(call)
  PROVE  /\ leg' \in {"out", "back"} => OnTheWay(at', dest', hops')
         /\ leg' = "done" => answer' = "success"
<1>1. Topology /\ Traffics /\ Document(doc) /\ TablesSound
  BY DEF ReachInvariant, GradingInvariant, Topology
<1>2. WellConfigured /\ call.kind \in {"ping", "oneway"}
  BY DEF Asking
<1>3. leg \in {"out", "back"}
  BY DEF Carry, Arrived, NoRoute, ArpTimeout, Forward, HopLimit, Travelling
<1>4. at \in Devices /\ hops \in 0..MaxHops /\ MaxHops \in Nat
  BY <1>1, HopsAssumption DEF Traffics, Exchange
<1>5. call.from \in Devices /\ TablesComplete /\ OnTheWay(at, dest, hops)
  BY <1>3 DEF ReachInvariant, Reaching
<1>6. PICK t \in Ports : dest = doc.ip[t] /\ Enough(at, t, MaxHops - hops)
  BY <1>5 DEF OnTheWay
<1>7. hops < MaxHops
  <2>1. MaxHops - hops >= 1
    BY <1>4, <1>6, RoundsIsNat DEF Enough
  <2> QED BY <1>4, <2>1
<1>8. ~HopLimit
  BY <1>4, <1>7 DEF HopLimit
<1>9. Owns(at, dest) <=> DeviceOf[t] = at
  BY <1>1, <1>2, <1>6, HolderOwns
<1>10. CASE DeviceOf[t] = at
  <2>1. Arrived
    BY <1>8, <1>9, <1>10 DEF Carry, NoRoute, ArpTimeout, Forward
  <2>2. CASE call.kind = "ping" /\ leg = "out" /\ EchoReply
    <3>1. leg' = "back" /\ dest' = AddressFacing(call.from, dest) /\ hops' = 0 /\ at' = at
      BY <2>2 DEF EchoReply
    <3>2. PICK r \in Ports : dest' = doc.ip[r]
      BY <1>1, <1>2, <1>5, <3>1, FacingIsAPort
    <3>3. Enough(at, r, MaxHops) /\ MaxHops - 0 = MaxHops
      BY <1>1, <1>2, <1>4, StartIsEnough
    <3> QED BY <3>1, <3>2, <3>3 DEF OnTheWay
  <2>3. CASE Ends("success")
    BY <2>3 DEF Ends
  <2> QED BY <1>2, <2>1, <2>2, <2>3 DEF Arrived
<1>11. CASE DeviceOf[t] # at
  <2>1. /\ ChooseEgress(at, dest) # {}
        /\ \A e \in ChooseEgress(at, dest) :
             \E v : Takes(at, e[1], v, t) /\ e[2] = doc.ip[v]
    BY <1>1, <1>2, <1>4, <1>5, <1>6, <1>11, EgressTakes
  <2>2. ASSUME NEW e \in ChooseEgress(at, dest)
        PROVE  \E v : /\ Takes(at, e[1], v, t)
                      /\ ResolveArp(at, e[1], e[2]) = {v} /\ Landing(e[1], v) = {DeviceOf[v]}
    <3>1. PICK v : Takes(at, e[1], v, t) /\ e[2] = doc.ip[v]
      BY <2>1
    <3>2. /\ e[1] \in PortsOf(at) /\ v \in Ports /\ Lan[e[1]] = Lan[v] /\ DeviceOf[v] # at
      BY <3>1 DEF Takes
    <3>3. ResolveArp(at, e[1], doc.ip[v]) = {v} /\ Landing(e[1], v) = {DeviceOf[v]}
      BY <1>1, <1>2, <1>4, <3>2, NeighbourIsReached
    <3> QED BY <3>1, <3>3
  <2>3. Forward
    <3>1. ~Arrived /\ ~NoRoute
      BY <1>9, <1>11, <2>1 DEF Arrived, NoRoute
    <3>2. ~ArpTimeout
      BY <2>2 DEF ArpTimeout
    <3> QED BY <1>8, <3>1, <3>2 DEF Carry
  <2>4. PICK e \in ChooseEgress(at, dest) : \E q \in ResolveArp(at, e[1], e[2]) :
          \/ Landing(e[1], q) = {} /\ Ends("lost")
          \/ at' \in Landing(e[1], q) /\ hops' = hops + 1 /\ UNCHANGED <<dest, leg, answer>>
    BY <2>3 DEF Forward
  <2>5. PICK v : /\ Takes(at, e[1], v, t)
                 /\ ResolveArp(at, e[1], e[2]) = {v} /\ Landing(e[1], v) = {DeviceOf[v]}
    BY <2>2
  <2>6. at' = DeviceOf[v] /\ hops' = hops + 1 /\ UNCHANGED <<dest, leg, answer>>
    BY <2>4, <2>5
  <2>7. MaxHops - hops \in Int /\ (MaxHops - hops) - 1 = MaxHops - (hops + 1)
    BY <1>4
  <2>8. Enough(at', t, MaxHops - hops')
    BY <1>1, <1>2, <1>4, <1>6, <1>11, <2>5, <2>6, <2>7, HopIsEnough
  <2> QED BY <1>3, <1>6, <2>6, <2>8 DEF OnTheWay
<1> QED BY <1>10, <1>11

LEMMA CarryKeepsReaching ==
  ASSUME Cardinality(Routers) + 3 < MaxHops, ReachInvariant, Carry
  PROVE  /\ Reaching' /\ TablesComplete'
         /\ leg' \in {"out", "back"} => call'.from \in Devices
<1>1. UNCHANGED <<known, call>> /\ leg \in {"out", "back"}
  BY DEF Carry, Arrived, NoRoute, ArpTimeout, Forward, HopLimit, Travelling
<1>2. doc' = doc /\ table' = table
  BY <1>1 DEF known
<1>3. TablesComplete'
  BY <1>1, <1>2, ConfigurationStays DEF ReachInvariant
<1>4. Reaching'
  <2>1. /\ \A c : Asking(c)' = Asking(c)
        /\ \A d, a, h : OnTheWay(d, a, h)' = OnTheWay(d, a, h)
    BY <1>2, ConfigurationStays
  <2> QED BY <1>1, <2>1, CarryReaches DEF Reaching
<1> QED BY <1>1, <1>3, <1>4 DEF ReachInvariant

LEMMA ReachStepHolds ==
  ASSUME Cardinality(Routers) + 3 < MaxHops, ReachInvariant, [GradingNext]_<<vars, grading>>
  PROVE  ReachInvariant'
<1>1. GradingInvariant /\ GradingInvariant'
  BY StepKeepsInvariant DEF ReachInvariant
<1>2. Topology
  BY <1>1 DEF GradingInvariant
<1>3. CASE Carry /\ UNCHANGED grading
  BY <1>1, <1>3, CarryKeepsReaching DEF ReachInvariant
<1>4. CASE attempt = "none" /\ Next /\ UNCHANGED grading
  <2>1. CASE Carry
    BY <1>3, <1>4, <2>1
  <2>2. CASE Network /\ \E kind \in Kinds, s \in Devices, to \in Asked : Ask(kind, s, to)
    <3>1. doc' = doc /\ TablesComplete'
      BY <2>2, NetworkIsComplete DEF Network
    <3>2. Reaching' /\ call'.from \in Devices
      BY <1>2, <2>2, <3>1, AskReaches
    <3> QED BY <1>1, <3>1, <3>2 DEF ReachInvariant
  <2>3. CASE /\ Network
             /\ \/ \E s \in Devices, a \in Asked \cap Addresses : AskArp(s, a)
                \/ \E s \in Devices : AskDhcp(s)
    <3>1. TablesComplete'
      BY <2>3, NetworkIsComplete
    <3>2. leg' = "done" /\ call'.kind \in {"arp", "dhcp"}
      <4>1. CASE \E s \in Devices, a \in Asked \cap Addresses : AskArp(s, a)
        BY <4>1 DEF AskArp, Call
      <4>2. CASE \E s \in Devices : AskDhcp(s)
        <5>1. PICK s \in Devices : AskDhcp(s)
          BY <4>2
        <5> QED BY <5>1 DEF AskDhcp, Call
      <4> QED BY <2>3, <4>1, <4>2
    <3>3. Reaching'
      BY <3>2 DEF Reaching, Asking
    <3> QED BY <1>1, <3>1, <3>2, <3>3 DEF ReachInvariant
  <2> QED BY <1>4, <2>1, <2>2, <2>3 DEF Next
<1>5. CASE Simulate
  <2>1. /\ attempt = "grading" /\ UNCHANGED <<known, grading>> /\ AskedByRule
        /\ Rule.source \in Devices
    BY <1>5 DEF Simulate, ToGrade
  <2>2. doc' = doc /\ table' = table
    BY <2>1 DEF known
  <2>3. TablesComplete'
    BY <2>1, <2>2, ConfigurationStays DEF ReachInvariant
  <2>4. CASE AskDhcp(Rule.source)
    <3>1. leg' = "done" /\ call'.kind = "dhcp"
      BY <2>4 DEF AskDhcp, Call
    <3> QED BY <1>1, <2>3, <3>1 DEF ReachInvariant, Reaching, Asking
  <2>5. CASE \E kind \in Kinds : Ask(kind, Rule.source, Rule.to)
    <3>1. Reaching' /\ call'.from \in Devices
      BY <1>2, <2>1, <2>2, <2>5, AskReaches
    <3> QED BY <1>1, <2>3, <3>1 DEF ReachInvariant
  <2> QED BY <2>1, <2>4, <2>5 DEF AskedByRule, Kinds
<1>6. CASE Judge \/ Inspect
  <2>1. /\ attempt = "grading" /\ leg' = "idle" /\ doc' = doc /\ table' = table
    BY <1>6 DEF Judge, Inspect, ToGrade, vars, known
  <2>2. TablesComplete'
    BY <2>1, ConfigurationStays DEF ReachInvariant
  <2> QED BY <1>1, <2>1, <2>2 DEF ReachInvariant, Reaching
<1>7. CASE Begin
  <2>1. leg' = "idle" /\ TablesComplete'
    BY <1>7, NetworkIsComplete DEF Begin
  <2> QED BY <1>1, <2>1 DEF ReachInvariant, Reaching
<1>8. CASE StartAttempt \/ Finish \/ \E p \in Ports : Repair(p)
  <2>1. leg' = "idle" /\ attempt' # "grading"
    BY <1>1, <1>8 DEF StartAttempt, Finish, Repair, Report, GradingInvariant, Phases, grading
  <2> QED BY <1>1, <2>1 DEF ReachInvariant, Reaching
<1>9. CASE UNCHANGED <<vars, grading>>
  <2>1. /\ doc' = doc /\ table' = table /\ UNCHANGED <<attempt, leg, answer, call, at, dest, hops>>
    BY <1>9 DEF vars, known, packet, grading
  <2>2. /\ \A c : Asking(c)' = Asking(c)
        /\ \A d, a, h : OnTheWay(d, a, h)' = OnTheWay(d, a, h)
        /\ TablesComplete' = TablesComplete
    BY <2>1, ConfigurationStays
  <2> QED BY <1>1, <2>1, <2>2 DEF ReachInvariant, Reaching
<1> QED BY <1>3, <1>4, <1>5, <1>6, <1>7, <1>8, <1>9 DEF GradingNext, Grader

\* In a well-configured network every ping and every packet gets through, and
\* every reply: each hop is a LAN closer, and there are more hops than routers to
\* cross (MAX_HOPS; Forwarder.deliver, lookup_route, choose_egress).
THEOREM ConfiguredNetworksReach ==
  ASSUME Cardinality(Routers) + 3 < MaxHops
  PROVE  GradingSpec => []WellConfiguredReaches
<1>1. GradingInit => ReachInvariant
  <2> SUFFICES ASSUME GradingInit PROVE ReachInvariant
    OBVIOUS
  <2>1. leg = "idle" /\ attempt = "none"
    BY DEF GradingInit, Init
  <2> QED BY <2>1, GradingInitHolds DEF ReachInvariant, Reaching
<1>2. ReachInvariant /\ [GradingNext]_<<vars, grading>> => ReachInvariant'
  BY ReachStepHolds
<1>3. ReachInvariant => WellConfiguredReaches
  BY DEF ReachInvariant, Reaching, Asking, WellConfiguredReaches
<1> QED BY <1>1, <1>2, <1>3, PTL DEF GradingSpec

-----------------------------------------------------------------------------
(* The network as its author drew it.  Drawing is GradingAnswers about that   *)
(* network; Paper is the same with the routing tables that it has.            *)

CONSTANT Original     \* the document of a lab

Drawing == INSTANCE GradingAnswers WITH doc <- Original
Tables  == [r \in Devices |-> Drawing!RoutingTable(r)]
Paper   == INSTANCE GradingAnswers WITH doc <- Original, table <- Tables

\* The lab can be solved: its author's network satisfies every rule.
OriginalPasses == \A i \in DOMAIN Rules : Paper!HoldsFor(Question(Rules[i]), TRUE)

\* No two routes of a device are for one subnet, and two that are equally
\* specific do not overlap.
Unambiguous ==
  \A r \in Devices : \A t, u \in ToSet(Original.routes[r]) :
    t # u => /\ t.network # u.network
             /\ Cardinality(t.network) = Cardinality(u.network)
                  => t.network \cap u.network = {}

\* What SameNetwork(doc, Original) says, field by field.
AlikeButOrder ==
  /\ doc \in Fields /\ Original \in Fields
  /\ doc.up = Original.up /\ doc.cabled = Original.cabled /\ doc.ip = Original.ip
  /\ doc.net = Original.net /\ doc.gateway = Original.gateway /\ doc.speaks = Original.speaks
  /\ doc.advertises = Original.advertises /\ doc.resolver = Original.resolver
  /\ doc.pools = Original.pools
  /\ \A r \in Devices : ToSet(doc.routes[r]) = ToSet(Original.routes[r])

\* SameNetwork leaves nothing but the order of static routes to differ.
LEMMA SameIsAlike ==
  ASSUME Original \in Fields, doc \in Fields, SameNetwork(doc, Original)
  PROVE  AlikeButOrder
<1> DEFINE x == [doc EXCEPT !.routes = {}]
           y == [Original EXCEPT !.routes = {}]
<1>1. x = y
  BY DEF SameNetwork
<1>2. /\ x.up = doc.up /\ x.cabled = doc.cabled /\ x.ip = doc.ip /\ x.net = doc.net
      /\ x.gateway = doc.gateway /\ x.speaks = doc.speaks /\ x.advertises = doc.advertises
      /\ x.resolver = doc.resolver /\ x.pools = doc.pools
  BY DEF Fields
<1>3. /\ y.up = Original.up /\ y.cabled = Original.cabled /\ y.ip = Original.ip
      /\ y.net = Original.net /\ y.gateway = Original.gateway /\ y.speaks = Original.speaks
      /\ y.advertises = Original.advertises /\ y.resolver = Original.resolver
      /\ y.pools = Original.pools
  BY DEF Fields
<1> HIDE DEF x, y
<1> QED BY <1>1, <1>2, <1>3 DEF AlikeButOrder, SameNetwork

\* What the routing tables are built from does not depend on that order.
LEMMA DrawingAlike ==
  ASSUME AlikeButOrder
  PROVE  /\ \A d : Drawing!ConnectedRoutes(d) = ConnectedRoutes(d)
         /\ \A d, q : Drawing!Teaches(d, q) <=> Teaches(d, q)
         /\ \A d, e : Drawing!NextHopTowards(d, e) = NextHopTowards(d, e)
         /\ Drawing!Ports = Ports /\ \A p : Drawing!Place(p) = Place(p)
         /\ \A n, h, x, i, j : Drawing!Route(n, h, x, i, j) = Route(n, h, x, i, j)
         /\ \A t, i : Drawing!AsRoute(t, i) = AsRoute(t, i)
<1>1. /\ doc.up = Original.up /\ doc.cabled = Original.cabled /\ doc.ip = Original.ip
      /\ doc.net = Original.net /\ doc.speaks = Original.speaks
      /\ doc.advertises = Original.advertises
  BY DEF AlikeButOrder
<1>2. \A p : Drawing!Place(p) = Place(p)
  BY DEF Drawing!Place, Place
<1>3. \A S : Drawing!First(S) = First(S)
  BY <1>2 DEF Drawing!First, First
<1>4. Drawing!Ports = Ports
  BY DEF Drawing!Ports, Ports, Drawing!ToSet, ToSet
<1>5. \A d : Drawing!PortsOf(d) = PortsOf(d)
  BY <1>4 DEF Drawing!PortsOf, PortsOf
<1>6. \A n, h, x, i, j : Drawing!Route(n, h, x, i, j) = Route(n, h, x, i, j)
  BY DEF Drawing!Route, Route
<1>7. ASSUME NEW d PROVE Drawing!ConnectedRoutes(d) = ConnectedRoutes(d)
  BY <1>1, <1>2, <1>5, <1>6 DEF Drawing!ConnectedRoutes, ConnectedRoutes
<1>8. ASSUME NEW d, NEW e PROVE Drawing!Joined(d, e) <=> Joined(d, e)
  <2>1. \A p : Drawing!Heard(p) = Heard(p)
    BY <1>1 DEF Drawing!Heard, Heard
  <2> QED BY <1>1, <1>5, <2>1 DEF Drawing!Joined, Joined
<1>9. ASSUME NEW d PROVE Drawing!RoutingPeers(d) = RoutingPeers(d)
  <2>1. Drawing!Cardinality(Devices) = Cardinality(Devices)
    BY DEF Drawing!Cardinality, Cardinality
  <2> DEFINE Peers(closer) == {e \in Devices : /\ doc.speaks[e] \cap doc.speaks[d] # {}
                                                /\ \E c \in closer : Joined(c, e)}
             DrawnPeers(closer) ==
               {e \in Devices : /\ Original.speaks[e] \cap Original.speaks[d] # {}
                                /\ \E c \in closer : Drawing!Joined(c, e)}
             within == CHOOSE w : w = [n \in Nat |-> IF n = 0 THEN {d}
                                         ELSE LET closer == w[n - 1] IN closer \cup Peers(closer)]
             drawnWithin ==
               CHOOSE w : w = [n \in Nat |-> IF n = 0 THEN {d}
                                 ELSE LET closer == w[n - 1] IN closer \cup DrawnPeers(closer)]
  <2>2. \A closer : DrawnPeers(closer) = Peers(closer)
    BY <1>1, <1>8
  <2>3. drawnWithin = within
    <3> HIDE DEF Peers, DrawnPeers
    <3> QED BY <2>2
  <2>4. /\ RoutingPeers(d) = within[Cardinality(Devices)] \ {d}
        /\ Drawing!RoutingPeers(d) = drawnWithin[Drawing!Cardinality(Devices)] \ {d}
    BY DEF Drawing!RoutingPeers, RoutingPeers
  <2> HIDE DEF within, drawnWithin
  <2> QED BY <2>1, <2>3, <2>4
<1>10. ASSUME NEW d, NEW e PROVE Drawing!NextHopTowards(d, e) = NextHopTowards(d, e)
  <2> DEFINE Shared(p) == {q \in PortsOf(e) \cap doc.up :
                              doc.net[q] # {} /\ doc.net[q] = doc.net[p]}
             DrawnShared(p) == {q \in Drawing!PortsOf(e) \cap Original.up :
                                  Original.net[q] # {} /\ Original.net[q] = Original.net[p]}
             exits == {p \in PortsOf(d) \cap doc.up : Shared(p) # {}}
             drawnExits == {p \in Drawing!PortsOf(d) \cap Original.up : DrawnShared(p) # {}}
  <2>1. \A p : DrawnShared(p) = Shared(p)
    BY <1>1, <1>5
  <2>2. drawnExits = exits
    <3> HIDE DEF Shared, DrawnShared
    <3> QED BY <1>1, <1>5, <2>1
  <2>3. /\ NextHopTowards(d, e) = IF exits = {} THEN {}
                                  ELSE {<<First(exits), First(Shared(First(exits)))>>}
        /\ Drawing!NextHopTowards(d, e) =
             IF drawnExits = {} THEN {}
             ELSE {<<Drawing!First(drawnExits),
                     Drawing!First(DrawnShared(Drawing!First(drawnExits)))>>}
    BY DEF Drawing!NextHopTowards, NextHopTowards
  <2> HIDE DEF Shared, DrawnShared, exits, drawnExits
  <2> QED BY <1>3, <2>1, <2>2, <2>3
<1>11. ASSUME NEW d, NEW q PROVE Drawing!Teaches(d, q) <=> Teaches(d, q)
  <2>1. \A e, n : Drawing!Advertises(e, n) <=> Advertises(e, n)
    BY <1>1 DEF Drawing!Advertises, Advertises
  <2> QED BY <1>1, <1>5, <1>9, <2>1 DEF Drawing!Teaches, Teaches
<1>12. \A t, i : Drawing!AsRoute(t, i) = AsRoute(t, i)
  BY <1>6 DEF Drawing!AsRoute, AsRoute
<1>13. Drawing!Ports = Ports
  BY <1>4
<1> QED BY <1>2, <1>6, <1>7, <1>10, <1>11, <1>12, <1>13

\* Where the static routes of a table begin, and where they end.
Base == Len(PortOrder)
Size == [d \in Devices |-> Base + Len(doc.routes[d])]
DrawnSize == [d \in Devices |-> Base + Len(Original.routes[d])]

\* A connected route stands before every static one.
LEMMA PlaceIsPosition ==
  ASSUME NEW p \in Ports PROVE Base \in Nat /\ Place(p) \in 1..Base /\ PortOrder[Place(p)] = p
<1>1. \E i \in 1..Len(PortOrder) : PortOrder[i] = p
  BY PortsAssumption DEF Ports, ToSet
<1> QED BY <1>1, PortsAssumption DEF Place, Base

\* The same route in the tables of the two networks: what it says is the same, and
\* so is where it stands among routes of its sort, if it is not a static one.
Twin(d, u, v) ==
  /\ u.network = v.network /\ u.nextHop = v.nextHop
  /\ u.exit = v.exit /\ u.distance = v.distance
  /\ \/ u.place \in 1..Base /\ v.place = u.place
     \/ /\ u.place \in (Base + 1)..Size[d] /\ v.place \in (Base + 1)..DrawnSize[d]
        /\ \E t \in ToSet(doc.routes[d]) : u = AsRoute(t, u.place)
     \/ \E k \in Nat \ {0} : u.place = Size[d] + k /\ v.place = DrawnSize[d] + k

\* The limits are numbers, in their order.
LEMMA SizesAreNat ==
  ASSUME AlikeButOrder, NEW d \in Devices
  PROVE  /\ Base \in Nat /\ Size[d] \in Nat /\ DrawnSize[d] \in Nat
         /\ Base <= Size[d] /\ Base <= DrawnSize[d]
         /\ Size[d] = Base + Len(doc.routes[d]) /\ DrawnSize[d] = Base + Len(Original.routes[d])
         /\ doc.routes[d] \in Seq(StaticRoute) /\ Original.routes[d] \in Seq(StaticRoute)
<1>1. doc.routes[d] \in Seq(StaticRoute) /\ Original.routes[d] \in Seq(StaticRoute)
  BY DEF AlikeButOrder, Fields
<1>2. Len(doc.routes[d]) \in Nat /\ Len(Original.routes[d]) \in Nat /\ Base \in Nat
  BY <1>1, PortsAssumption DEF Base
<1>3. Size[d] = Base + Len(doc.routes[d]) /\ DrawnSize[d] = Base + Len(Original.routes[d])
  BY DEF Size, DrawnSize
<1> QED BY <1>1, <1>2, <1>3

\* A connected route is its own twin.
LEMMA ConnectedTwin ==
  ASSUME NEW d, NEW u \in ConnectedRoutes(d) PROVE Twin(d, u, u)
<1>1. PICK p \in PortsOf(d) : u = Route(doc.net[p], NoAddress, p, 0, Place(p))
  BY DEF ConnectedRoutes
<1>2. u.place = Place(p) /\ p \in Ports
  BY <1>1 DEF Route, PortsOf
<1> QED BY <1>2, PlaceIsPosition DEF Twin

\* A static route is a twin of itself wherever it stands in the two lists.
LEMMA StaticTwins ==
  ASSUME AlikeButOrder, NEW d \in Devices,
         NEW i \in DOMAIN doc.routes[d], NEW j \in DOMAIN Original.routes[d],
         doc.routes[d][i] = Original.routes[d][j]
  PROVE  Twin(d, AsRoute(doc.routes[d][i], Base + i), AsRoute(Original.routes[d][j], Base + j))
<1> DEFINE t == doc.routes[d][i]
           u == AsRoute(t, Base + i)
           v == AsRoute(t, Base + j)
<1>1. i \in 1..Len(doc.routes[d]) /\ j \in 1..Len(Original.routes[d])
  BY SizesAreNat
<1>2. Base + i \in (Base + 1)..Size[d] /\ Base + j \in (Base + 1)..DrawnSize[d]
  <2> DEFINE n == Len(doc.routes[d])
             m == Len(Original.routes[d])
  <2>1. /\ n \in Nat /\ m \in Nat /\ Base \in Nat /\ i \in 1..n /\ j \in 1..m
        /\ Size[d] = Base + n /\ DrawnSize[d] = Base + m
    BY <1>1, SizesAreNat
  <2> HIDE DEF n, m
  <2>2. Base + i \in (Base + 1)..(Base + n)
    BY ONLY <2>1
  <2>3. Base + j \in (Base + 1)..(Base + m)
    BY ONLY <2>1
  <2> QED BY ONLY <2>1, <2>2, <2>3
<1>3. /\ u.network = v.network /\ u.nextHop = v.nextHop
      /\ u.exit = v.exit /\ u.distance = v.distance
      /\ u.place = Base + i /\ v.place = Base + j
  BY DEF AsRoute, Route
<1>4. t \in ToSet(doc.routes[d]) /\ u = AsRoute(t, u.place)
  BY <1>3 DEF ToSet
<1>5. Twin(d, u, v)
  <2> HIDE DEF t, u, v
  <2> QED BY <1>2, <1>3, <1>4 DEF Twin
<1> QED BY <1>5

\* What q's router teaches d, by way of via.
Lesson(q, via, place) == Route(doc.net[q], doc.ip[via[2]], via[1], 110, place)

\* A lesson is a twin of the same lesson in the other table.
LEMMA LearnedTwins ==
  ASSUME AlikeButOrder, NEW d \in Devices, NEW q \in Ports, NEW via
  PROVE  Twin(d, Lesson(q, via, Size[d] + Place(q)), Lesson(q, via, DrawnSize[d] + Place(q)))
<1> DEFINE u == Lesson(q, via, Size[d] + Place(q))
           v == Lesson(q, via, DrawnSize[d] + Place(q))
<1>1. /\ u.network = v.network /\ u.nextHop = v.nextHop
      /\ u.exit = v.exit /\ u.distance = v.distance
      /\ u.place = Size[d] + Place(q) /\ v.place = DrawnSize[d] + Place(q)
  BY DEF Lesson, Route
<1>2. Place(q) \in Nat \ {0}
  BY PlaceIsPosition
<1> HIDE DEF u, v
<1>3. Twin(d, u, v)
  BY <1>1, <1>2 DEF Twin
<1> QED BY <1>3 DEF u, v

\* The tables of the two networks, put alike.
LEMMA TablesAre ==
  ASSUME AlikeButOrder, NEW d \in Devices
  PROVE  /\ RoutingTable(d) =
              ConnectedRoutes(d)
                \cup {AsRoute(doc.routes[d][i], Base + i) : i \in DOMAIN doc.routes[d]}
                \cup UNION {{Lesson(q, via, Size[d] + Place(q)) :
                               via \in NextHopTowards(d, DeviceOf[q])} :
                              q \in {p \in Ports : Teaches(d, p)}}
         /\ Drawing!RoutingTable(d) =
              ConnectedRoutes(d)
                \cup {AsRoute(Original.routes[d][i], Base + i) : i \in DOMAIN Original.routes[d]}
                \cup UNION {{Lesson(q, via, DrawnSize[d] + Place(q)) :
                               via \in NextHopTowards(d, DeviceOf[q])} :
                              q \in {p \in Ports : Teaches(d, p)}}
<1>1. doc.net = Original.net /\ doc.ip = Original.ip
  BY DEF AlikeButOrder
<1>2. /\ Size[d] = Len(PortOrder) + Len(doc.routes[d])
      /\ DrawnSize[d] = Len(PortOrder) + Len(Original.routes[d])
  BY DEF Size, DrawnSize, Base
<1>3. StaticRoutes(d) = {AsRoute(doc.routes[d][i], Base + i) : i \in DOMAIN doc.routes[d]}
  BY DEF StaticRoutes, Base
<1>4. LearnedRoutes(d) = UNION {{Lesson(q, via, Size[d] + Place(q)) :
                                   via \in NextHopTowards(d, DeviceOf[q])} :
                                  q \in {p \in Ports : Teaches(d, p)}}
  BY <1>2 DEF LearnedRoutes, Lesson
<1>5. Drawing!StaticRoutes(d) =
        {AsRoute(Original.routes[d][i], Base + i) : i \in DOMAIN Original.routes[d]}
  BY DrawingAlike DEF Drawing!StaticRoutes, Base
<1>6. Drawing!LearnedRoutes(d) = UNION {{Lesson(q, via, DrawnSize[d] + Place(q)) :
                                           via \in NextHopTowards(d, DeviceOf[q])} :
                                          q \in {p \in Ports : Teaches(d, p)}}
  <2> DEFINE Says(q) == {Lesson(q, via, DrawnSize[d] + Place(q)) :
                            via \in NextHopTowards(d, DeviceOf[q])}
             DrawnSays(q) ==
               {Drawing!Route(Original.net[q], Original.ip[via[2]], via[1], 110,
                              Len(PortOrder) + Len(Original.routes[d]) + Drawing!Place(q)) :
                  via \in Drawing!NextHopTowards(d, DeviceOf[q])}
             Taught == {p \in Ports : Teaches(d, p)}
             DrawnTaught == {p \in Drawing!Ports : Drawing!Teaches(d, p)}
  <2>1. DrawnTaught = Taught
    BY DrawingAlike
  <2>2. \A q : DrawnSays(q) = Says(q)
    BY <1>1, <1>2, DrawingAlike DEF Lesson
  <2>3. Drawing!LearnedRoutes(d) = UNION {DrawnSays(q) : q \in DrawnTaught}
    BY DEF Drawing!LearnedRoutes
  <2>4. UNION {DrawnSays(q) : q \in DrawnTaught} = UNION {Says(q) : q \in Taught}
    <3> HIDE DEF DrawnSays, Says, DrawnTaught, Taught
    <3> QED BY <2>1, <2>2
  <2> QED BY <2>3, <2>4
<1>7. Drawing!ConnectedRoutes(d) = ConnectedRoutes(d)
  BY DrawingAlike
<1> QED BY <1>3, <1>4, <1>5, <1>6, <1>7 DEF RoutingTable, Drawing!RoutingTable

\* Every route of one table has a twin in the other.
LEMMA TwinsAreThere ==
  ASSUME AlikeButOrder, NEW d \in Devices
  PROVE  /\ \A u \in RoutingTable(d) : \E v \in Drawing!RoutingTable(d) : Twin(d, u, v)
         /\ \A v \in Drawing!RoutingTable(d) : \E u \in RoutingTable(d) : Twin(d, u, v)
<1> DEFINE T == RoutingTable(d)
           O == Drawing!RoutingTable(d)
           Statics == {AsRoute(doc.routes[d][i], Base + i) : i \in DOMAIN doc.routes[d]}
           DrawnStatics ==
             {AsRoute(Original.routes[d][i], Base + i) : i \in DOMAIN Original.routes[d]}
           Taught == {p \in Ports : Teaches(d, p)}
           Lessons(size) == UNION {{Lesson(q, via, size + Place(q)) :
                                      via \in NextHopTowards(d, DeviceOf[q])} : q \in Taught}
<1>1. /\ T = ConnectedRoutes(d) \cup Statics \cup Lessons(Size[d])
      /\ O = ConnectedRoutes(d) \cup DrawnStatics \cup Lessons(DrawnSize[d])
  BY TablesAre
<1>2. \A u \in ConnectedRoutes(d) : Twin(d, u, u)
  BY ConnectedTwin
<1>3. ToSet(doc.routes[d]) = ToSet(Original.routes[d])
  BY DEF AlikeButOrder
<1>4. \A u \in Statics : \E v \in DrawnStatics : Twin(d, u, v)
  <2> SUFFICES ASSUME NEW i \in DOMAIN doc.routes[d]
               PROVE  \E v \in DrawnStatics : Twin(d, AsRoute(doc.routes[d][i], Base + i), v)
    OBVIOUS
  <2>1. PICK j \in DOMAIN Original.routes[d] : doc.routes[d][i] = Original.routes[d][j]
    BY <1>3 DEF ToSet
  <2>2. AsRoute(Original.routes[d][j], Base + j) \in DrawnStatics
    OBVIOUS
  <2> HIDE DEF DrawnStatics
  <2> QED BY <2>1, <2>2, StaticTwins
<1>5. \A v \in DrawnStatics : \E u \in Statics : Twin(d, u, v)
  <2> SUFFICES ASSUME NEW j \in DOMAIN Original.routes[d]
               PROVE  \E u \in Statics : Twin(d, u, AsRoute(Original.routes[d][j], Base + j))
    OBVIOUS
  <2>1. PICK i \in DOMAIN doc.routes[d] : doc.routes[d][i] = Original.routes[d][j]
    BY <1>3 DEF ToSet
  <2>2. AsRoute(doc.routes[d][i], Base + i) \in Statics
    OBVIOUS
  <2> HIDE DEF Statics
  <2> QED BY <2>1, <2>2, StaticTwins
<1>6. \A q \in Taught : \A via \in NextHopTowards(d, DeviceOf[q]) :
        /\ Lesson(q, via, Size[d] + Place(q)) \in Lessons(Size[d])
        /\ Lesson(q, via, DrawnSize[d] + Place(q)) \in Lessons(DrawnSize[d])
        /\ Twin(d, Lesson(q, via, Size[d] + Place(q)), Lesson(q, via, DrawnSize[d] + Place(q)))
  BY LearnedTwins
<1>7. \A size : \A u \in Lessons(size) :
        \E q \in Taught : \E via \in NextHopTowards(d, DeviceOf[q]) :
          u = Lesson(q, via, size + Place(q))
  OBVIOUS
<1>8. \A u \in Lessons(Size[d]) : \E v \in Lessons(DrawnSize[d]) : Twin(d, u, v)
  <2> HIDE DEF Lessons, Taught
  <2> QED BY <1>6, <1>7
<1>9. \A v \in Lessons(DrawnSize[d]) : \E u \in Lessons(Size[d]) : Twin(d, u, v)
  <2> HIDE DEF Lessons, Taught
  <2> QED BY <1>6, <1>7
<1> HIDE DEF T, O, Lessons, Statics, DrawnStatics
<1>10. /\ \A u \in T : \E v \in O : Twin(d, u, v)
       /\ \A v \in O : \E u \in T : Twin(d, u, v)
  BY <1>1, <1>2, <1>4, <1>5, <1>8, <1>9
<1> QED BY <1>10 DEF T, O

\* Connected routes and learned ones have a place to themselves.
LEMMA OnePlaceEach ==
  ASSUME AlikeButOrder, NEW d \in Devices, NEW u \in RoutingTable(d), NEW w \in RoutingTable(d),
         u.place = w.place, u.place \notin (Base + 1)..Size[d]
  PROVE  u = w
<1>1. Base \in Nat /\ Size[d] \in Nat /\ Base <= Size[d]
  BY SizesAreNat
<1>2. ASSUME NEW t \in RoutingTable(d), t.place \notin (Base + 1)..Size[d]
      PROVE  \/ \E p \in Ports : /\ t = Route(doc.net[p], NoAddress, p, 0, Place(p))
                                /\ t.place = Place(p) /\ Place(p) \in 1..Base
             \/ \E q \in Ports : \E via \in NextHopTowards(d, DeviceOf[q]) :
                  /\ t = Lesson(q, via, Size[d] + Place(q))
                  /\ t.place = Size[d] + Place(q) /\ Place(q) \in 1..Base
  <2>1. CASE t \in ConnectedRoutes(d)
    <3>1. PICK p \in PortsOf(d) : t = Route(doc.net[p], NoAddress, p, 0, Place(p))
      BY <2>1 DEF ConnectedRoutes
    <3>2. p \in Ports /\ t.place = Place(p)
      BY <3>1 DEF PortsOf, Route
    <3> QED BY <3>1, <3>2, PlaceIsPosition
  <2>2. CASE t \in {AsRoute(doc.routes[d][i], Base + i) : i \in DOMAIN doc.routes[d]}
    <3>1. PICK i \in DOMAIN doc.routes[d] : t = AsRoute(doc.routes[d][i], Base + i)
      BY <2>2
    <3>2. t.place = Base + i
      BY <3>1 DEF AsRoute, Route
    <3>3. i \in 1..Len(doc.routes[d]) /\ Len(doc.routes[d]) \in Nat /\ Base \in Nat
          /\ Size[d] = Base + Len(doc.routes[d])
      BY SizesAreNat
    <3>4. Base + i \in (Base + 1)..Size[d]
      BY ONLY <3>3
    <3> QED BY <1>2, <3>2, <3>4
  <2>3. CASE t \in UNION {{Lesson(q, via, Size[d] + Place(q)) :
                              via \in NextHopTowards(d, DeviceOf[q])} :
                             q \in {p \in Ports : Teaches(d, p)}}
    <3>1. PICK q \in Ports : \E via \in NextHopTowards(d, DeviceOf[q]) :
            t = Lesson(q, via, Size[d] + Place(q))
      BY <2>3
    <3>2. t.place = Size[d] + Place(q)
      BY <3>1 DEF Lesson, Route
    <3> QED BY <3>1, <3>2, PlaceIsPosition
  <2> QED BY <2>1, <2>2, <2>3, TablesAre
<1>3. ASSUME NEW p \in Ports, NEW q \in Ports, Place(p) = Place(q) PROVE p = q
  BY <1>3, PlaceIsPosition
<1>4. \A e : \A via, way \in NextHopTowards(d, e) : via = way
  BY DEF NextHopTowards
<1>5. CASE u.place <= Base
  <2>1. \A p \in Ports : Place(p) \in 1..Base => u.place # Size[d] + Place(p)
    BY <1>1, <1>5
  <2>2. PICK p \in Ports : u = Route(doc.net[p], NoAddress, p, 0, Place(p)) /\ u.place = Place(p)
    BY <1>2, <2>1
  <2>3. PICK q \in Ports : w = Route(doc.net[q], NoAddress, q, 0, Place(q)) /\ w.place = Place(q)
    BY <1>2, <2>1
  <2> QED BY <1>3, <2>2, <2>3
<1>6. CASE ~(u.place <= Base)
  <2>1. \A p \in Ports : Place(p) \in 1..Base => u.place # Place(p)
    BY <1>1, <1>6
  <2>2. PICK p \in Ports : \E via \in NextHopTowards(d, DeviceOf[p]) :
          /\ u = Lesson(p, via, Size[d] + Place(p)) /\ u.place = Size[d] + Place(p)
          /\ Place(p) \in 1..Base
    BY <1>2, <2>1
  <2>3. PICK q \in Ports : \E way \in NextHopTowards(d, DeviceOf[q]) :
          /\ w = Lesson(q, way, Size[d] + Place(q)) /\ w.place = Size[d] + Place(q)
          /\ Place(q) \in 1..Base
    BY <1>2, <2>1
  <2>4. Place(p) = Place(q)
    <3> DEFINE i == Place(p)
               j == Place(q)
               n == Size[d]
    <3>1. n \in Nat /\ i \in 1..Base /\ j \in 1..Base /\ n + i = n + j /\ Base \in Nat
      BY <1>1, <2>2, <2>3
    <3> HIDE DEF i, j, n
    <3>2. i = j
      BY ONLY <3>1
    <3> QED BY <3>2 DEF i, j
  <2>5. p = q
    BY <1>3, <2>4
  <2>6. PICK via \in NextHopTowards(d, DeviceOf[p]) : u = Lesson(p, via, Size[d] + Place(p))
    BY <2>2
  <2>7. PICK way \in NextHopTowards(d, DeviceOf[q]) : w = Lesson(q, way, Size[d] + Place(q))
    BY <2>3
  <2>8. via = way
    BY <1>4, <2>5, <2>6, <2>7
  <2> QED BY <2>5, <2>6, <2>7, <2>8
<1> QED BY <1>5, <1>6

\* t is what lookup_route finds in T for a.
Foremost(T, a, t) == t \in T /\ a \in t.network /\ \A u \in T : a \in u.network => Before(t, u)

\* Both tables are made of routing entries.
LEMMA TableIsTyped ==
  ASSUME AlikeButOrder, Document(doc), NEW d \in Devices
  PROVE  /\ RoutingTable(d) \subseteq Entry
         /\ Drawing!RoutingTable(d) \subseteq Entry
<1>1. RoutingTable(d) \subseteq Entry
  BY TableIsSound
<1>2. ASSUME NEW v \in Drawing!RoutingTable(d) PROVE v \in Entry
  <2>1. PICK u \in RoutingTable(d) : Twin(d, u, v)
    BY TwinsAreThere
  <2>2. u \in Entry
    BY <1>1
  <2>3. /\ v.network \in Subnets /\ v.nextHop \in AnyAddress
        /\ v.exit \in Ports \cup {NoPort} /\ v.distance \in Nat
    BY <2>1, <2>2 DEF Twin, Entry
  <2>4. v.place \in Nat
    BY <2>1, SizesAreNat DEF Twin
  <2>5. \E n, h, x, i, j : v = Route(n, h, x, i, j)
    BY TablesAre DEF ConnectedRoutes, AsRoute, Lesson
  <2>6. v = Route(v.network, v.nextHop, v.exit, v.distance, v.place)
    BY <2>5 DEF Route
  <2>7. Route(v.network, v.nextHop, v.exit, v.distance, v.place) \in Entry
    BY <2>3, <2>4 DEF Route, Entry
  <2> QED BY <2>6, <2>7
<1> QED BY <1>1, <1>2

\* The routes that are found for an address say the same.
LEMMA ForemostAgree ==
  ASSUME AlikeButOrder, Document(doc), Unambiguous, NEW d \in Devices, NEW a, NEW w, NEW o,
         Foremost(RoutingTable(d), a, w), Foremost(Drawing!RoutingTable(d), a, o)
  PROVE  w.nextHop = o.nextHop /\ w.exit = o.exit
<1>1. PICK t \in Drawing!RoutingTable(d) : Twin(d, w, t)
  BY TwinsAreThere DEF Foremost
<1>2. PICK v \in RoutingTable(d) : Twin(d, v, o)
  BY TwinsAreThere DEF Foremost
<1>3. /\ w \in RoutingTable(d) /\ o \in Drawing!RoutingTable(d)
      /\ a \in w.network /\ a \in o.network /\ a \in t.network /\ a \in v.network
      /\ w.network = t.network /\ w.distance = t.distance
      /\ v.network = o.network /\ v.distance = o.distance
      /\ v.nextHop = o.nextHop /\ v.exit = o.exit
  BY <1>1, <1>2 DEF Foremost, Twin
<1>4. Before(w, v) /\ Before(o, t)
  BY <1>3 DEF Foremost
<1>5. /\ \A r \in {w, v, o, t} : r \in Entry /\ Cardinality(r.network) \in Nat
      /\ \A r \in {w, v, o, t} : r.distance \in Nat /\ r.place \in Nat
  BY <1>3, TableIsTyped, SubnetIsFinite DEF Entry
<1>6. /\ Cardinality(w.network) = Cardinality(v.network)
      /\ w.place <= v.place /\ o.place <= t.place
  <2> DEFINE m == Cardinality(w.network)
             n == Cardinality(v.network)
  <2>1. m \in Nat /\ n \in Nat /\ w.distance \in Nat /\ v.distance \in Nat
    BY <1>5
  <2>2. m = Cardinality(t.network) /\ n = Cardinality(o.network)
    BY <1>3
  <2>3. \/ m < n
        \/ m = n /\ w.distance < v.distance
        \/ m = n /\ w.distance = v.distance /\ w.place <= v.place
    BY <1>4 DEF Before
  <2>4. \/ n < m
        \/ n = m /\ v.distance < w.distance
        \/ n = m /\ v.distance = w.distance /\ o.place <= t.place
    BY <1>3, <1>4, <2>2 DEF Before
  <2> HIDE DEF m, n
  <2>5. m = n /\ w.place <= v.place /\ o.place <= t.place
    BY ONLY <2>1, <2>3, <2>4
  <2> QED BY <2>5 DEF m, n
<1>7. /\ Base \in Nat /\ Size[d] \in Nat /\ DrawnSize[d] \in Nat
      /\ Base <= Size[d] /\ Base <= DrawnSize[d]
  BY SizesAreNat
<1>8. CASE w.place \in (Base + 1)..Size[d]
  <2>1. v.place \in (Base + 1)..Size[d]
    <3>1. t.place \in (Base + 1)..DrawnSize[d]
      BY <1>1, <1>7, <1>8 DEF Twin
    <3>2. o.place <= DrawnSize[d]
      BY <1>5, <1>6, <1>7, <3>1
    <3> QED BY <1>2, <1>5, <1>6, <1>7, <1>8, <3>2 DEF Twin
  <2>2. PICK x \in ToSet(doc.routes[d]) : w = AsRoute(x, w.place)
    BY <1>1, <1>7, <1>8 DEF Twin
  <2>3. PICK y \in ToSet(doc.routes[d]) : v = AsRoute(y, v.place)
    BY <1>2, <1>7, <2>1 DEF Twin
  <2>4. /\ w.network = x.network /\ w.nextHop = x.nextHop /\ w.exit = x.exit
        /\ v.network = y.network /\ v.nextHop = y.nextHop /\ v.exit = y.exit
    BY <2>2, <2>3 DEF AsRoute, Route
  <2>5. x = y
    <3>1. x \in ToSet(Original.routes[d]) /\ y \in ToSet(Original.routes[d])
      BY DEF AlikeButOrder
    <3>2. a \in x.network \cap y.network /\ Cardinality(x.network) = Cardinality(y.network)
      BY <1>3, <1>6, <2>4
    <3> QED BY <3>1, <3>2 DEF Unambiguous
  <2> QED BY <1>3, <2>4, <2>5
<1>9. CASE w.place \notin (Base + 1)..Size[d]
  <2>1. w.place = v.place
    <3>1. CASE w.place \in 1..Base
      <4>1. t.place = w.place
        BY <1>1, <1>7, <3>1 DEF Twin
      <4>2. o.place <= Base
        BY <1>5, <1>6, <1>7, <3>1, <4>1
      <4>3. v.place = o.place
        BY <1>2, <1>5, <1>7, <4>2 DEF Twin
      <4> QED BY <1>5, <1>6, <4>1, <4>3
    <3>2. CASE w.place \notin 1..Base
      <4>1. PICK k \in Nat \ {0} : w.place = Size[d] + k /\ t.place = DrawnSize[d] + k
        BY <1>1, <1>9, <3>2 DEF Twin
      <4>2. ~(v.place \in 1..Base) /\ ~(v.place \in (Base + 1)..Size[d])
        BY <1>5, <1>6, <1>7, <4>1
      <4>3. PICK j \in Nat \ {0} : v.place = Size[d] + j /\ o.place = DrawnSize[d] + j
        BY <1>2, <4>2 DEF Twin
      <4>4. k = j
        <5> DEFINE n == Size[d]
                   m == DrawnSize[d]
        <5>1. n \in Nat /\ m \in Nat /\ n + k <= n + j /\ m + j <= m + k
          BY <1>6, <1>7, <4>1, <4>3
        <5> HIDE DEF n, m
        <5> QED BY <5>1
      <4> QED BY <4>1, <4>3, <4>4
    <3> QED BY <3>1, <3>2
  <2>2. w = v
    BY <1>3, <1>9, <2>1, OnePlaceEach
  <2> QED BY <1>3, <2>2
<1> QED BY <1>8, <1>9

\* The tables that are used are those of the network as it is.
Fresh == table = [d \in Devices |-> RoutingTable(d)]

\* Nor do the other questions a packet puts to the network depend on the order.
LEMMA PaperAlike ==
  ASSUME AlikeButOrder
  PROVE  /\ Paper!Ports = Ports /\ \A S : Paper!First(S) = First(S)
         /\ \A d : Paper!PortsOf(d) = PortsOf(d) /\ Paper!Working(d) = Working(d)
         /\ \A d, a : (Paper!Owns(d, a) <=> Owns(d, a)) /\ Paper!Local(d, a) = Local(d, a)
         /\ \A p : Paper!Heard(p) = Heard(p)
         /\ \A S : Paper!FirstIp(S) = FirstIp(S)
         /\ \A p, a : Paper!Answering(p, a) = Answering(p, a)
         /\ \A p, q : Paper!Landing(p, q) = Landing(p, q)
         /\ \A to : Paper!Resolved(to) = Resolved(to)
         /\ \A s, a : Paper!AddressFacing(s, a) = AddressFacing(s, a)
<1>1. /\ doc.up = Original.up /\ doc.cabled = Original.cabled /\ doc.ip = Original.ip
      /\ doc.net = Original.net
  BY DEF AlikeButOrder
<1>2. Paper!Ports = Ports
  BY DEF Paper!Ports, Ports, Paper!ToSet, ToSet
<1>3. \A S : Paper!First(S) = First(S)
  <2>1. \A p : Paper!Place(p) = Place(p)
    BY DEF Paper!Place, Place
  <2> QED BY <2>1 DEF Paper!First, First
<1>4. \A d : Paper!PortsOf(d) = PortsOf(d)
  BY <1>2 DEF Paper!PortsOf, PortsOf
<1>5. \A d : Paper!Working(d) = Working(d)
  BY <1>1, <1>4 DEF Paper!Working, Working
<1>6. \A d, a : (Paper!Owns(d, a) <=> Owns(d, a)) /\ Paper!Local(d, a) = Local(d, a)
  BY <1>1, <1>4 DEF Paper!Owns, Owns, Paper!Local, Local
<1>7. \A p : Paper!Heard(p) = Heard(p)
  BY <1>1 DEF Paper!Heard, Heard
<1>8. \A S : Paper!FirstIp(S) = FirstIp(S)
  BY <1>1, <1>3 DEF Paper!FirstIp, FirstIp
<1>9. \A p, a : Paper!Answering(p, a) = Answering(p, a)
  BY <1>1, <1>7 DEF Paper!Answering, Answering
<1>10. \A p, q : Paper!Landing(p, q) = Landing(p, q)
  BY <1>1, <1>7 DEF Paper!Landing, Landing
<1>11. \A to : Paper!Resolved(to) = Resolved(to)
  BY <1>5, <1>6, <1>8 DEF Paper!Resolved, Resolved
<1>12. \A s, a : Paper!AddressFacing(s, a) = AddressFacing(s, a)
  BY <1>1, <1>3, <1>5, <1>6, <1>8 DEF Paper!AddressFacing, AddressFacing
<1> QED BY <1>2, <1>3, <1>4, <1>5, <1>6, <1>7, <1>8, <1>9, <1>10, <1>11, <1>12

\* An address that has a route in one network has the same way in the other.
LEMMA LookupAgrees ==
  ASSUME AlikeButOrder, Document(doc), Unambiguous, Fresh, NEW d \in Devices, NEW a
  PROVE  \/ LookupRoute(d, a) = {} /\ Paper!LookupRoute(d, a) = {}
         \/ \E w, o : /\ LookupRoute(d, a) = {w} /\ Paper!LookupRoute(d, a) = {o}
                      /\ w.nextHop = o.nextHop /\ w.exit = o.exit
<1> DEFINE T == RoutingTable(d)
           O == Drawing!RoutingTable(d)
           matches == {t \in T : a \in t.network}
           drawnMatches == {t \in O : a \in t.network}
           Best(w) == \A u \in matches : Before(w, u)
           DrawnBest(w) == \A u \in drawnMatches : Before(w, u)
           gateway == Route(Addresses, doc.gateway[d], NoPort, 0, 0)
<1>1. LookupRoute(d, a) = IF matches # {} THEN {CHOOSE t \in matches : Best(t)}
                          ELSE IF doc.gateway[d] # NoAddress THEN {gateway} ELSE {}
  BY DEF LookupRoute, Fresh
<1>2. Paper!LookupRoute(d, a) =
        IF drawnMatches # {} THEN {CHOOSE t \in drawnMatches : DrawnBest(t)}
        ELSE IF doc.gateway[d] # NoAddress THEN {gateway} ELSE {}
  <2>1. /\ doc.gateway = Original.gateway
        /\ \A n, h, x, i, j : Paper!Route(n, h, x, i, j) = Route(n, h, x, i, j)
        /\ Tables[d] = O
    BY DEF AlikeButOrder, Paper!Route, Route, Tables
  <2>2. \A t, u : Paper!Before(t, u) <=> Before(t, u)
    <3>1. \A S : Paper!Cardinality(S) = Cardinality(S)
      BY DEF Paper!Cardinality, Cardinality
    <3> QED BY <3>1 DEF Paper!Before, Before
  <2> DEFINE M == {t \in Tables[d] : a \in t.network}
             PaperBest(t) == \A u \in M : Paper!Before(t, u)
  <2>3. M = drawnMatches /\ \A t : PaperBest(t) <=> DrawnBest(t)
    BY <2>1, <2>2
  <2>4. Paper!LookupRoute(d, a) =
          IF M # {} THEN {CHOOSE t \in M : PaperBest(t)}
          ELSE IF Original.gateway[d] # NoAddress
               THEN {Paper!Route(Addresses, Original.gateway[d], NoPort, 0, 0)} ELSE {}
    BY DEF Paper!LookupRoute
  <2> HIDE DEF M, PaperBest, drawnMatches, DrawnBest
  <2>5. (CHOOSE t \in M : PaperBest(t)) = (CHOOSE t \in drawnMatches : DrawnBest(t))
    BY <2>3
  <2> QED BY <2>1, <2>3, <2>4, <2>5
<1>3. T \subseteq Entry /\ O \subseteq Entry
  BY TableIsTyped
<1>4. matches = {} <=> drawnMatches = {}
  BY TwinsAreThere DEF Twin
<1>5. CASE matches = {}
  BY <1>1, <1>2, <1>4, <1>5
<1>6. CASE matches # {}
  <2> DEFINE w == CHOOSE t \in matches : Best(t)
             o == CHOOSE t \in drawnMatches : DrawnBest(t)
  <2>1. (\E t \in matches : Best(t)) /\ (\E t \in drawnMatches : DrawnBest(t))
    <3>1. /\ matches \in SUBSET Entry /\ matches # {}
          /\ drawnMatches \in SUBSET Entry /\ drawnMatches # {}
      BY <1>3, <1>4, <1>6
    <3> HIDE DEF matches, drawnMatches
    <3> QED BY <3>1, SomeRouteIsFirst
  <2>2. w \in matches /\ Best(w) /\ o \in drawnMatches /\ DrawnBest(o)
    <3> HIDE DEF matches, drawnMatches, Best, DrawnBest
    <3> QED BY <2>1
  <2>3. LookupRoute(d, a) = {w} /\ Paper!LookupRoute(d, a) = {o}
    BY <1>1, <1>2, <1>4, <1>6
  <2> HIDE DEF w, o
  <2>4. Foremost(T, a, w) /\ Foremost(O, a, o)
    BY <2>2 DEF Foremost
  <2>5. w.nextHop = o.nextHop /\ w.exit = o.exit
    BY <2>4, ForemostAgree
  <2> QED BY <2>3, <2>5
<1> QED BY <1>5, <1>6

\* A packet leaves for the same next hop.
LEMMA EgressAgrees ==
  ASSUME AlikeButOrder, Document(doc), Unambiguous, Fresh, NEW d \in Devices, NEW a
  PROVE  Paper!ChooseEgress(d, a) = ChooseEgress(d, a)
<1>1. Paper!Local(d, a) = Local(d, a)
  BY PaperAlike
<1>2. CASE Local(d, a) # {}
  BY <1>1, <1>2, PaperAlike DEF ChooseEgress, Paper!ChooseEgress
<1>3. CASE Local(d, a) = {}
  <2> DEFINE Hop(route) == IF route.nextHop = NoAddress THEN a ELSE route.nextHop
             Ways(route) == Towards(d, route, Hop(route)) \X {Hop(route)}
             PaperWays(route) == Paper!Towards(d, route, Hop(route)) \X {Hop(route)}
  <2>1. /\ ChooseEgress(d, a) = UNION {Ways(route) : route \in LookupRoute(d, a)}
        /\ Paper!ChooseEgress(d, a) = UNION {PaperWays(route) : route \in Paper!LookupRoute(d, a)}
    BY <1>1, <1>3 DEF ChooseEgress, Paper!ChooseEgress
  <2>2. ASSUME NEW w, NEW o, w.nextHop = o.nextHop, w.exit = o.exit
        PROVE  Ways(w) = PaperWays(o)
    <3>1. Hop(w) = Hop(o)
      BY <2>2
    <3>2. Paper!Towards(d, o, Hop(o)) = Towards(d, w, Hop(o))
      <4> HIDE DEF Hop
      <4>1. doc.up = Original.up
        BY DEF AlikeButOrder
      <4> QED BY <2>2, <4>1, PaperAlike DEF Towards, Paper!Towards
    <3> HIDE DEF Hop
    <3> QED BY <3>1, <3>2
  <2> HIDE DEF Ways, PaperWays
  <2>3. CASE LookupRoute(d, a) = {} /\ Paper!LookupRoute(d, a) = {}
    BY <2>1, <2>3
  <2>4. CASE \E w, o : /\ LookupRoute(d, a) = {w} /\ Paper!LookupRoute(d, a) = {o}
                       /\ w.nextHop = o.nextHop /\ w.exit = o.exit
    <3>1. PICK w, o : /\ LookupRoute(d, a) = {w} /\ Paper!LookupRoute(d, a) = {o}
                      /\ w.nextHop = o.nextHop /\ w.exit = o.exit
      BY <2>4
    <3>2. Ways(w) = PaperWays(o)
      BY <2>2, <3>1
    <3>3. UNION {Ways(route) : route \in {w}} = Ways(w)
      OBVIOUS
    <3>4. UNION {PaperWays(route) : route \in {o}} = PaperWays(o)
      OBVIOUS
    <3> QED BY <2>1, <3>1, <3>2, <3>3, <3>4
  <2> QED BY <2>3, <2>4, LookupAgrees
<1> QED BY <1>2, <1>3

\* A packet takes the same step.
LEMMA AfterAgrees ==
  ASSUME AlikeButOrder, Document(doc), Unambiguous, Fresh
  PROVE  Paper!Trip = Trip /\ \A c : \A x \in Trip : Paper!After(c, x) = After(c, x)
<1>1. Paper!Trip = Trip
  BY PaperAlike DEF Paper!Trip, Trip, Paper!AnyAddress, AnyAddress, Paper!Endings, Endings
<1>2. ASSUME NEW c, NEW x \in Trip PROVE Paper!After(c, x) = After(c, x)
  <2>1. /\ \A l, d, a, h, C, how : Paper!Stage(l, d, a, h, C, how) = Stage(l, d, a, h, C, how)
        /\ \A S : Paper!TheOne(S) = TheOne(S)
    BY DEF Paper!Stage, Stage, Paper!TheOne, TheOne
  <2>2. \A how : Paper!Over(x, how) = Over(x, how)
    BY <2>1 DEF Paper!Over, Over
  <2>3. Paper!Owns(x.at, x.dest) <=> Owns(x.at, x.dest)
    BY PaperAlike
  <2>4. Paper!Received(c, x) = Received(c, x)
    <3>1. Paper!Turned(c, x) = Turned(c, x)
      BY <2>1, PaperAlike DEF Paper!Turned, Turned
    <3>2. Paper!Record(c.to) = Record(c.to)
      BY PaperAlike DEF Paper!Record, Record
    <3> QED BY <2>2, <3>1, <3>2 DEF Paper!Received, Received
  <2>5. Paper!Passed(x) = Passed(x)
    <3>1. Paper!ChooseEgress(x.at, x.dest) = ChooseEgress(x.at, x.dest)
      <4>1. x.at \in Devices
        BY DEF Trip
      <4> QED BY <4>1, EgressAgrees
    <3>2. Paper!Way(x) = Way(x)
      BY <2>1, <3>1 DEF Paper!Way, Way
    <3>3. Paper!Known(x) = Known(x)
      BY <3>2 DEF Paper!Known, Known
    <3>4. Paper!Holders(x) = Holders(x)
      BY <3>2, <3>3, PaperAlike DEF Paper!Holders, Holders
    <3>5. Paper!Learnt(x) = Learnt(x)
      BY <2>1, <3>2, <3>4 DEF Paper!Learnt, Learnt
    <3>6. Paper!Landed(x) = Landed(x)
      BY <2>1, <3>2, <3>4, PaperAlike DEF Paper!Landed, Landed
    <3> QED BY <2>1, <2>2, <3>1, <3>4, <3>5, <3>6 DEF Paper!Passed, Passed
  <2> QED BY <2>2, <2>3, <2>4, <2>5 DEF Paper!After, After
<1> QED BY <1>1, <1>2

\* The first route of a subnet is the only one.
LEMMA RouteHoldsInBoth ==
  ASSUME AlikeButOrder, Unambiguous, NEW r \in Devices, NEW n, NEW h
  PROVE  Paper!RouteHolds(r, n, h) <=> RouteHolds(r, n, h)
<1> DEFINE Says(routes) == \E t \in ToSet(routes) : t.network = n /\ h \in {NoAddress, t.nextHop}
           Decides(routes) ==
             \E i \in DOMAIN routes : /\ routes[i].network = n
                                      /\ \A j \in 1..(i - 1) : routes[j].network # n
                                      /\ h \in {NoAddress, routes[i].nextHop}
<1>1. ASSUME NEW routes \in Seq(StaticRoute), ToSet(routes) = ToSet(Original.routes[r])
      PROVE  Decides(routes) <=> Says(routes)
  <2>1. Decides(routes) => Says(routes)
    BY DEF ToSet
  <2>2. ASSUME Says(routes) PROVE Decides(routes)
    <3>1. PICK t \in ToSet(routes) : t.network = n /\ h \in {NoAddress, t.nextHop}
      BY <2>2
    <3> DEFINE N == {i \in DOMAIN routes : routes[i].network = n}
    <3>2. N # {} /\ N \in SUBSET Nat
      BY <3>1 DEF ToSet
    <3>3. PICK i \in N : \A j \in N : i <= j
      <4> HIDE DEF N
      <4> QED BY <3>2, LeastOfNat
    <3>4. i \in DOMAIN routes /\ routes[i].network = n /\ routes[i] \in ToSet(routes)
      BY <3>3 DEF ToSet
    <3>5. routes[i] = t
      BY <1>1, <3>1, <3>4 DEF Unambiguous
    <3>6. \A j \in 1..(i - 1) : routes[j].network # n
      <4> SUFFICES ASSUME NEW j \in 1..(i - 1), routes[j].network = n PROVE FALSE
        OBVIOUS
      <4>1. i \in 1..Len(routes) /\ Len(routes) \in Nat
        BY <3>4
      <4>2. j \in DOMAIN routes /\ ~(i <= j)
        BY <4>1
      <4> QED BY <3>3, <4>2
    <3> QED BY <3>1, <3>4, <3>5, <3>6
  <2> QED BY <2>1, <2>2
<1>2. /\ doc.routes[r] \in Seq(StaticRoute) /\ Original.routes[r] \in Seq(StaticRoute)
      /\ ToSet(doc.routes[r]) = ToSet(Original.routes[r])
  BY SizesAreNat DEF AlikeButOrder
<1>3. /\ RouteHolds(r, n, h) <=> Decides(doc.routes[r])
      /\ Paper!RouteHolds(r, n, h) <=> Decides(Original.routes[r])
  BY DEF RouteHolds, Paper!RouteHolds
<1>4. Says(doc.routes[r]) <=> Says(Original.routes[r])
  BY <1>2
<1> HIDE DEF Says, Decides
<1>5. /\ Decides(doc.routes[r]) <=> Says(doc.routes[r])
      /\ Decides(Original.routes[r]) <=> Says(Original.routes[r])
  BY <1>1, <1>2
<1> QED BY <1>3, <1>4, <1>5

\* A configuration rule finds the same.
LEMMA ConfigurationAgrees ==
  ASSUME AlikeButOrder, Unambiguous, NEW q
  PROVE  Paper!ConfigurationHolds(q) <=> ConfigurationHolds(q)
<1>1. /\ doc.up = Original.up /\ doc.ip = Original.ip /\ doc.net = Original.net
      /\ doc.gateway = Original.gateway /\ doc.pools = Original.pools
  BY DEF AlikeButOrder
<1>2. Paper!Ports = Ports /\ \A d : Paper!PortsOf(d) = PortsOf(d)
  BY PaperAlike
<1>3. \A d, e : Paper!Linked(d, e) <=> Linked(d, e)
  BY PaperAlike DEF Paper!Linked, Linked
<1>4. \A s : Paper!ToSet(s) = ToSet(s)
  BY DEF Paper!ToSet, ToSet
<1>5. q.source \in Devices =>
        (Paper!RouteHolds(q.source, q.network, q.address) <=>
           RouteHolds(q.source, q.network, q.address))
  BY RouteHoldsInBoth
<1> QED BY <1>1, <1>2, <1>3, <1>4, <1>5 DEF Paper!ConfigurationHolds, ConfigurationHolds

\* The network that was put right answers what the author's answers.
LEMMA VerdictsCarryOver ==
  ASSUME AlikeButOrder, Document(doc), Unambiguous, Fresh, NEW q, NEW v
  PROVE  Paper!HoldsFor(q, v) <=> HoldsFor(q, v)
<1>1. doc.up = Original.up /\ doc.ip = Original.ip /\ doc.resolver = Original.resolver
      /\ doc.pools = Original.pools
  BY DEF AlikeButOrder
<1>2. Paper!ByTraffic(q) <=> ByTraffic(q)
  BY DEF Paper!ByTraffic, ByTraffic, Paper!Traffic, Traffic
<1>3. Paper!KindOf(q) = KindOf(q) /\ Paper!CallOf(q) = CallOf(q)
  BY DEF Paper!KindOf, KindOf, Paper!CallOf, CallOf, Paper!Call, Call
<1>4. Paper!Goal(q) = Goal(q)
  BY <1>1, <1>3, PaperAlike DEF Paper!Goal, Goal
<1>5. Paper!Start(q) = Start(q) /\ (Paper!Sent(q) <=> Sent(q))
  BY <1>4, PaperAlike DEF Paper!Start, Start, Paper!Stage, Stage, Paper!Sent, Sent
<1>6. Paper!Leased(q) <=> Leased(q)
  <2>1. \A d, pool : Paper!Serves(d, pool) <=> Serves(d, pool)
    BY <1>1, PaperAlike DEF Paper!Serves, Serves
  <2>2. \A p : Paper!ServingPools(p) = ServingPools(p)
    <3> SUFFICES ASSUME NEW p PROVE Paper!ServingPools(p) = ServingPools(p)
      OBVIOUS
    <3> DEFINE Own(x) == {pool \in ToSet(doc.pools[DeviceOf[x]]) : Serves(DeviceOf[x], pool)}
               PaperOwn(x) == {pool \in Paper!ToSet(Original.pools[DeviceOf[x]]) :
                                 Paper!Serves(DeviceOf[x], pool)}
    <3>1. \A x : PaperOwn(x) = Own(x)
      BY <1>1, <2>1 DEF Paper!ToSet, ToSet
    <3>2. Paper!Heard(p) \cap Original.up = Heard(p) \cap doc.up
      BY <1>1, PaperAlike
    <3>3. /\ ServingPools(p) = UNION {Own(x) : x \in Heard(p) \cap doc.up}
          /\ Paper!ServingPools(p) = UNION {PaperOwn(x) : x \in Paper!Heard(p) \cap Original.up}
      BY DEF ServingPools, Paper!ServingPools
    <3> HIDE DEF Own, PaperOwn
    <3> QED BY <3>1, <3>2, <3>3
  <2> QED BY <1>1, <2>2, PaperAlike DEF Paper!Leased, Leased
<1>7. Paper!Reach(q) = Reach(q)
  <2>1. \A f, s : Paper!Orbit(f, s) = Orbit(f, s)
    BY DEF Paper!Orbit, Orbit, Paper!Closed, Closed
  <2>2. \A c : Paper!Walk(c) = Walk(c)
    BY AfterAgrees DEF Paper!Walk, Walk
  <2> QED BY <1>3, <1>5, <2>1, <2>2 DEF Paper!Reach, Reach
<1>8. \A how : Paper!Gets(q, how) <=> Gets(q, how)
  BY <1>5, <1>6, <1>7 DEF Paper!Gets, Gets
<1>9. Paper!ConfigurationHolds(q) <=> ConfigurationHolds(q)
  BY ConfigurationAgrees
<1> QED BY <1>2, <1>8, <1>9 DEF Paper!HoldsFor, HoldsFor

\* Routing tables are functions of the document.
LEMMA TableStays == ASSUME doc' = doc PROVE \A d : RoutingTable(d)' = RoutingTable(d)
<1>1. \A d : ConnectedRoutes(d)' = ConnectedRoutes(d)
  BY DEF ConnectedRoutes, PortsOf
<1>2. \A d : StaticRoutes(d)' = StaticRoutes(d)
  BY DEF StaticRoutes
<1>3. \A d, e : Joined(d, e)' = Joined(d, e)
  BY DEF Joined, Heard, PortsOf
<1>4. ASSUME NEW d PROVE RoutingPeers(d)' = RoutingPeers(d)
  BY <1>3 DEF RoutingPeers
<1>5. \A d, q : Teaches(d, q)' = Teaches(d, q)
  BY <1>4 DEF Teaches, Advertises, PortsOf
<1>6. \A d, e : NextHopTowards(d, e)' = NextHopTowards(d, e)
  BY DEF NextHopTowards, PortsOf
<1>7. ASSUME NEW d PROVE LearnedRoutes(d)' = LearnedRoutes(d)
  BY <1>5, <1>6 DEF LearnedRoutes
<1> QED BY <1>1, <1>2, <1>7 DEF RoutingTable

\* With the verdicts of VerdictInvariant: the document of the lab is never
\* written to, and the tables are made anew for each grading.
MendedInvariant ==
  /\ VerdictInvariant
  /\ lab.document = Original
  /\ attempt = "grading" => Fresh

\* Every action keeps it.
LEMMA MendedStepHolds ==
  MendedInvariant /\ [GradingNext]_<<vars, grading>> => MendedInvariant'
<1> SUFFICES ASSUME MendedInvariant, [GradingNext]_<<vars, grading>> PROVE MendedInvariant'
  OBVIOUS
<1>1. VerdictInvariant'
  BY VerdictStepHolds DEF MendedInvariant
<1>2. UNCHANGED known => Fresh' = Fresh
  <2> SUFFICES ASSUME UNCHANGED known PROVE Fresh' = Fresh
    OBVIOUS
  <2>1. doc' = doc /\ table' = table
    BY DEF known
  <2> QED BY <2>1, TableStays DEF Fresh
<1>3. CASE Simulate \/ Judge \/ Inspect \/ (attempt = "grading" /\ Carry /\ UNCHANGED grading)
  <2>1. attempt = "grading" /\ lab' = lab /\ UNCHANGED known
    BY <1>3 DEF Simulate, Judge, Inspect, ToGrade, grading, vars, Carry, Arrived, NoRoute,
         ArpTimeout, Forward, HopLimit
  <2> QED BY <1>1, <1>2, <2>1 DEF MendedInvariant
<1>4. CASE Begin
  <2>1. lab' = lab /\ doc' = doc /\ table' = [d \in Devices |-> RoutingTable(d)]
    BY <1>4 DEF Begin, Network
  <2>2. Fresh'
    BY <2>1, TableStays DEF Fresh
  <2> QED BY <1>1, <2>1, <2>2 DEF MendedInvariant
<1>5. CASE Finish \/ StartAttempt \/ (\E p \in Ports : Repair(p))
           \/ (attempt = "none" /\ Next /\ UNCHANGED grading)
  <2>1. attempt' # "grading" /\ lab' = lab
    BY <1>5 DEF Finish, StartAttempt, Repair, grading
  <2> QED BY <1>1, <2>1 DEF MendedInvariant
<1>6. CASE UNCHANGED <<vars, grading>>
  <2>1. lab' = lab /\ attempt' = attempt /\ UNCHANGED known
    BY <1>6 DEF vars, grading
  <2> QED BY <1>1, <1>2, <2>1 DEF MendedInvariant
<1> QED BY <1>3, <1>4, <1>5, <1>6 DEF GradingNext, Grader

\* In a network that is the author's but for the order of routes, every verdict is TRUE.
LEMMA MendedIsFull ==
  ASSUME OriginalPasses, Unambiguous, MendedInvariant PROVE MendedScoresFull
<1> SUFFICES ASSUME Report, SameNetwork(doc, lab.document) PROVE Earned = DOMAIN Rules
  BY DEF MendedScoresFull
<1>1. /\ attempt = "grading" /\ Len(verdicts) = Len(Rules) /\ Graded /\ Fresh
      /\ Topology /\ Phases /\ LabTyped /\ lab.document = Original
  BY DEF Report, MendedInvariant, VerdictInvariant, GradingInvariant
<1>2. Document(doc) /\ Document(Original)
  BY <1>1, DocumentsAssumption DEF Topology, LabTyped
<1>3. AlikeButOrder
  <2>1. doc \in Fields /\ Original \in Fields
    BY <1>2 DEF Document, Fields
  <2> QED BY <1>1, <2>1, SameIsAlike
<1>4. DOMAIN verdicts = DOMAIN Rules /\ verdicts \in Seq(BOOLEAN)
  BY <1>1, RulesAssumption DEF Phases
<1>5. ASSUME NEW i \in DOMAIN Rules PROVE verdicts[i] = TRUE
  <2>1. PICK q : q = Question(Rules[i])
    OBVIOUS
  <2>2. Paper!HoldsFor(q, TRUE)
    BY <2>1 DEF OriginalPasses
  <2>3. HoldsFor(q, TRUE)
    BY <1>2, <1>3, <1>1, <2>2, VerdictsCarryOver
  <2>4. HoldsFor(q, verdicts[i])
    BY <1>1, <1>4, <2>1 DEF Graded
  <2>5. verdicts[i] \in BOOLEAN
    BY <1>4, ElementOfSeq
  <2> QED BY <1>1, <2>3, <2>4, <2>5, OneVerdict
<1> QED BY <1>4, <1>5 DEF Earned

\* "A working network plus a list of things to break" (apply_faults): a lab whose
\* network, as its author drew it, satisfies the lab's rules gives LabGrader nothing
\* to mark down once the learner has put every fault right, in whatever order and by
\* whatever detours.  The routes of the drawing must not compete for a packet: one
\* that is removed and added again comes behind the others.
THEOREM MendedLabsScoreFull ==
  ASSUME Unambiguous
  PROVE  GradingSpec /\ lab.document = Original /\ OriginalPasses => []MendedScoresFull
<1>1. GradingInit /\ lab.document = Original => MendedInvariant
  <2> SUFFICES ASSUME GradingInit, lab.document = Original PROVE MendedInvariant
    OBVIOUS
  <2>1. attempt = "none" /\ verdicts = <<>>
    BY DEF GradingInit
  <2> QED BY <2>1, GradingInitHolds
          DEF MendedInvariant, VerdictInvariant, Graded, Sought, SameQuestionSameVerdict
<1>2. OriginalPasses /\ MendedInvariant => MendedScoresFull
  BY MendedIsFull
<1>3. OriginalPasses => OriginalPasses'
  OBVIOUS
<1> QED BY <1>1, <1>2, <1>3, MendedStepHolds, PTL DEF GradingSpec
=============================================================================
