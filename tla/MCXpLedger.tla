---------------------------- MODULE MCXpLedger ------------------------------
(***************************************************************************)
(* Small instances of XpLedger for TLC: a lesson, the course it completes, *)
(* and badges that the first and the second of them earn.                  *)
(***************************************************************************)
EXTENDS XpLedger, FiniteSetsExt, TLC

CONSTANTS lesson, course, firstBadge, centuryBadge

\* A lesson worth 60 XP and a course worth 100 (COURSE_COMPLETION_XP) cross
\* the price of level 2 between them; with the badges they reach level 3's.
MCReward ==
  lesson :> 60 @@ course :> 100 @@ firstBadge :> 100 @@ centuryBadge :> 25

\* One badge asks for a total, the other, like the seeded "level" badge, for a
\* level.
MCCriterion ==
  firstBadge :> [metric |-> "total_xp", value |-> 50] @@
  centuryBadge :> [metric |-> "level", value |-> 2]

RewardInUse    == [s \in Sources |-> MCReward[s]]
CriterionInUse == [b \in Badges |-> MCCriterion[b]]

\* xpSum is kept incrementally; it is the sum of the rows that are there.
SumIsOfRows ==
  xpSum = MapThenSumSet(LAMBDA s : ledger[s] * Reward[s], Sources)
=============================================================================
