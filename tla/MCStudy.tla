------------------------------ MODULE MCStudy -------------------------------
(***************************************************************************)
(* What a learner's own pages show of them: the level a total of XP has    *)
(* reached, the streak, with days of four six-hour slots in UTC or one     *)
(* slot off it, the shelf of topologies, notes and bookmarks, and the XP   *)
(* ledger of a learner who waits for each answer.                          *)
(*                                                                         *)
(* These do not touch each other and are tried one at a time.  The total   *)
(* starts anywhere from Reach XP below the price of a level to Reach XP    *)
(* above it, and climbs: between prices the level is constant and the bar  *)
(* only grows, so the totals near a price are the ones to try.  A streak   *)
(* is followed up to its first misdated activity, after which nothing is   *)
(* said of it.                                                             *)
(***************************************************************************)
EXTENDS LevelShown, Streaks, Library, MCXpLedger

CONSTANTS
  Reach,         \* bound: how far from a price totals are tried
  t1, t2, t3, k1, k2, d1, d2

MCZones     == {-1, 0, 1}
MCDevicesIn == d1 :> 1 @@ d2 :> 2
Symmetric   == Permutations({t1, t2, t3}) \cup Permutations({k1, k2})

VARIABLE
  trial          \* what is tried in this behaviour

NearPrices ==
  {t \in {XpRequiredForLevel[level] + w : level \in Levels, w \in (-Reach)..Reach} : t >= 0}

StudyInit ==
  /\ trial \in {"level", "streak", "topologies", "notes", "ledger"}
  /\ IF trial = "level" THEN total \in NearPrices ELSE total = 0
  /\ StreakInit /\ (trial # "streak" => zone = 0)
  /\ LibInit
  /\ Init

Climb ==
  /\ trial = "level"
  /\ total + 1 \in NearPrices /\ Earn(1)
  /\ UNCHANGED <<streakVars, libVars, vars, trial>>

Live ==
  /\ trial = "streak" /\ ~misdated /\ StreakNext
  /\ UNCHANGED <<total, libVars, vars, trial>>

Shelve ==
  /\ \E k \in Calls : \/ trial = "topologies" /\ CallOn(Topologies, k)
                      \/ trial = "notes" /\ CallOn(Notes \cup Bookmarks, k)
  /\ UNCHANGED <<total, streakVars, vars, trial>>

Complete ==
  /\ trial = "ledger" /\ Next
  /\ UNCHANGED <<total, streakVars, libVars, trial>>

StudyNext == Climb \/ Live \/ Shelve \/ Complete

StudySpec ==
  StudyInit /\ [][StudyNext]_<<total, streakVars, libVars, vars, trial>>
=============================================================================
