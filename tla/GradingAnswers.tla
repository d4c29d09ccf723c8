--------------------------- MODULE GradingAnswers ---------------------------
(***************************************************************************)
(* What a network answers, as functions of the network (doc and table) and *)
(* the question alone: Carry as a function of the trip so far, the trips   *)
(* that follow from a question, and the verdicts they give a rule.         *)
(*                                                                         *)
(* Grading_proofs shows that the grader's verdicts are these, and uses the *)
(* module a second time for the network as its author drew it.             *)
(***************************************************************************)
EXTENDS Grading

-----------------------------------------------------------------------------
(* A walk that takes each step in one way *)

\* What is reached from s, as what every closed set with s has in it.
Closed(f, C) == \A x \in C : f[x] \in C
Orbit(f, s)  == {x \in DOMAIN f : \A C \in SUBSET DOMAIN f : s \in C /\ Closed(f, C) => x \in C}

-----------------------------------------------------------------------------
(* An exchange *)

Endings == {"none", "success", "no_record", "no_route", "arp_timeout", "lost", "hops"}

\* A packet and what it has left in the ARP caches.
Trip == [leg : {"out", "back", "done"}, at : Devices, dest : AnyAddress, hops : 0..MaxHops,
         cache : SUBSET (Devices \X AnyAddress \X Ports), answer : Endings]

Stage(l, d, a, h, C, how) ==
  [leg |-> l, at |-> d, dest |-> a, hops |-> h, cache |-> C, answer |-> how]

Now == Stage(leg, at, dest, hops, cache, answer)

\* Carry, as a function of the question and the trip so far.
TheOne(S)     == CHOOSE e : e \in S
Over(x, how)  == Stage("done", x.at, x.dest, x.hops, x.cache, how)
Turned(c, x)  == Stage("back", x.at, AddressFacing(c.from, x.dest), 0, x.cache, x.answer)
Record(to)    == IF FirstIp(Working(to)) = NoAddress THEN "no_record" ELSE "success"
Way(x)        == TheOne(ChooseEgress(x.at, x.dest))
Known(x)      == {t[3] : t \in {c \in x.cache : c[1] = x.at /\ c[2] = Way(x)[2]}}
Holders(x)    ==
  IF Known(x) # {} THEN Known(x)
  ELSE IF Answering(Way(x)[1], Way(x)[2]) # {}
       THEN {First(Answering(Way(x)[1], Way(x)[2]))} ELSE {}
Learnt(x)     == x.cache \cup {<<x.at, Way(x)[2], TheOne(Holders(x))>>}
Landed(x)     == Landing(Way(x)[1], TheOne(Holders(x)))

Received(c, x) ==
  IF c.kind = "ping" /\ x.leg = "out" THEN Turned(c, x)
  ELSE IF c.kind = "dns" THEN Over(x, Record(c.to))
  ELSE Over(x, "success")

Passed(x) ==
  IF ChooseEgress(x.at, x.dest) = {} THEN Over(x, "no_route")
  ELSE IF Holders(x) = {} THEN Over(x, "arp_timeout")
  ELSE IF Landed(x) = {} THEN Stage("done", x.at, x.dest, x.hops, Learnt(x), "lost")
  ELSE Stage(x.leg, TheOne(Landed(x)), x.dest, x.hops + 1, Learnt(x), x.answer)

After(c, x) ==
  IF x.leg = "done" THEN x
  ELSE IF x.hops = MaxHops THEN Over(x, "hops")
  ELSE IF Owns(x.at, x.dest) THEN Received(c, x)
  ELSE Passed(x)

-----------------------------------------------------------------------------
(* What a rule's verdict is made from *)

Question(rule) == [rule EXCEPT !.objective = 0]
ByTraffic(q)   == q.type \in Traffic /\ q.source \in Devices

KindOf(q) == IF q.type \in {"ping", "no_ping"} THEN "ping"
             ELSE IF q.type = "port" THEN "oneway" ELSE "dns"
CallOf(q) == Call(KindOf(q), q.source, q.to, {})
Goal(q)   == IF KindOf(q) = "dns" THEN doc.resolver[q.source] ELSE Resolved(q.to)
Start(q)  == Stage("out", q.source, Goal(q), 0, {}, "none")
Sent(q)   == Goal(q) # NoAddress /\ Working(q.source) # {}
Leased(q) == LET enabled == PortsOf(q.source) \cap doc.up
             IN  enabled # {} /\ ServingPools(First(enabled)) # {}

Walk(c)  == [x \in Trip |-> After(c, x)]
Reach(q) == Orbit(Walk(CallOf(q)), Start(q))

\* The answers that the topology gives to a question.
Gets(q, how) ==
  IF q.type = "dhcp_lease" THEN (how = "success") <=> Leased(q)
  ELSE IF ~Sent(q) THEN how # "success"
  ELSE \E x \in Reach(q) : x.leg = "done" /\ x.answer = how

HoldsFor(q, v) ==
  IF ByTraffic(q)
  THEN \E how : Gets(q, how) /\ (v <=> ((how = "success") <=> (q.type # "no_ping")))
  ELSE v <=> ConfigurationHolds(q)
=============================================================================
