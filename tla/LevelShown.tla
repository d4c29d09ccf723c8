----------------------------- MODULE LevelShown -----------------------------
(***************************************************************************)
(* What is shown of a learner's XP: the level that level_for_xp answers    *)
(* and the bar that describe_level draws for the total of user_stats       *)
(* (services/progress_service.py).  How the total comes to be is XpLedger. *)
(***************************************************************************)
EXTENDS LevelCurve

VARIABLE total     \* user_stats.total_xp

Earn(amount) == total' = total + amount

LevelShownSpec == total = 0 /\ [][\E amount \in Nat : Earn(amount)]_total

\* The level of a total is the highest level whose price the total covers
\* (docstring of level_for_xp), although the loop stops at the first price it
\* cannot pay: the two agree only because the curve never dips.
LevelIsHighestPaid ==
  LET shown == LevelForXp(total)
  IN  \A level \in Levels : level <= shown <=> XpRequiredForLevel[level] <= total

\* A progress bar is full exactly when there is no next level: rounding to one
\* decimal never shows 100 % to a learner who still lacks XP, and what it
\* counts as earned and as the price of the level never contradict each other.
BarFullOnlyAtTheEnd ==
  LET bar == DescribeLevel(total)
  IN  /\ bar.perMille = 1000 <=> bar.isMax
      /\ bar.into >= 0
      /\ ~bar.isMax => bar.into < bar.forNext

\* What is shown of a total is what it has paid for.
LevelShownIsPaidFor == LevelIsHighestPaid /\ BarFullOnlyAtTheEnd
=============================================================================
