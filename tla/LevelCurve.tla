----------------------------- MODULE LevelCurve -----------------------------
(***************************************************************************)
(* The level curve of services/progress_service.py: how many XP a level    *)
(* costs, which level a total has paid for, and the numbers a progress bar *)
(* shows.  Pure operators; no state.                                       *)
(***************************************************************************)
EXTENDS Integers, FiniteSets

LevelBaseXp == 100     \* LEVEL_BASE_XP
MaxLevel    == 100     \* MAX_LEVEL
Levels      == 1..MaxLevel

-----------------------------------------------------------------------------
(***************************************************************************)
(* int(100 * k^1.5) in whole numbers.  The result is k*q + r with          *)
(* q = floor(sqrt(10000*k)); r is the largest remainder below k that keeps *)
(* the square of the result within 10000*k^3, an inequality divided by k^2 *)
(* here so that no product leaves 32 bits.  Both are found by counting the *)
(* positive numbers that are not too large.                                *)
(***************************************************************************)
PowThreeHalves(k) ==
  LET square == LevelBaseXp * LevelBaseXp * k
      q == Cardinality({n \in 1..(10 * LevelBaseXp) : n * n <= square})
      r == Cardinality({n \in 1..(k - 1) :
                          n * n + 2 * q * k * n <= (square - q * q) * k * k})
  IN  k * q + r

\* The curve as a table: the total XP needed to have reached each level.
XpRequiredForLevel == [level \in Levels |-> PowThreeHalves(level - 1)]

\* The loop of level_for_xp climbs while the next level is paid for; it stops
\* at the first level that is the last one or whose successor costs too much.
LoopStopsWhenExact(total_xp) ==     \* mutant: < for <=
  {level \in Levels : \/ level = MaxLevel
                      \/ XpRequiredForLevel[level + 1] >= total_xp}

LoopStops(total_xp) ==
  {level \in Levels : \/ level = MaxLevel
                      \/ XpRequiredForLevel[level + 1] > total_xp}

LevelForXp(total_xp) ==
  LET stops == LoopStops(total_xp)
  IN  CHOOSE level \in stops : \A other \in stops : level <= other

\* Where a learner stands between two levels; the percentage is in tenths of
\* a percent, which is the precision the code rounds to.
DescribeLevel(total_xp) ==
  LET level == LevelForXp(total_xp)
      floor == XpRequiredForLevel[level]
      isMax == level >= MaxLevel
      next  == IF isMax THEN floor ELSE XpRequiredForLevel[level + 1]
      span  == IF next - floor > 1 THEN next - floor ELSE 1
      into  == total_xp - floor
      part  == IF into < span THEN into ELSE span
  IN  [level    |-> level,
       into     |-> into,
       forNext  |-> IF isMax THEN 0 ELSE span,
       perMille |-> IF isMax THEN 1000
                    ELSE (2000 * part + span) \div (2 * span),
       isMax    |-> isMax]
=============================================================================
