----------------------------- MODULE XpAccount ------------------------------
(***************************************************************************)
(* What the XP ledger promises a learner, without requests, transactions   *)
(* or caches: sources are paid, at most once each, and the total and the   *)
(* level are always those of everything paid so far.                       *)
(***************************************************************************)
EXTENDS LevelCurve

CONSTANTS Sources, Reward

VARIABLES paid, total, level

vars == <<paid, total, level>>

Init == paid = {} /\ total = 0 /\ level = 1

\* The orders in which sources can be paid; all of them lead to one total.
Orders(S) ==
  {order \in [1..Cardinality(S) -> S] :
     \A s \in S : \E i \in 1..Cardinality(S) : order[i] = s}

TotalAfter(order, n) ==
  LET sum[i \in 0..n] == IF i = 0 THEN total ELSE sum[i - 1] + Reward[order[i]]
  IN  sum[n]

\* One commit pays any number of sources that were not yet paid.
Pay(S) ==
  /\ S # {} /\ S \cap paid = {}
  /\ paid' = paid \cup S
  /\ \E order \in Orders(S) : total' = TotalAfter(order, Cardinality(S))
  /\ level' = LevelForXp(total')

Next == \E S \in SUBSET Sources : Pay(S)

Spec == Init /\ [][Next]_vars
=============================================================================
