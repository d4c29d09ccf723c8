------------------------------ MODULE Streaks -------------------------------
(***************************************************************************)
(* The study streak of one learner: record_activity, _local_today and      *)
(* current_streak of services/progress_service.py, with the profile's time *)
(* zone.  Time is the UTC clock in slots, Slots of them to a day; a zone   *)
(* is its offset from UTC in slots.  `misdated` remembers that an activity *)
(* fell on a local day that is not the UTC day of its timestamp.           *)
(***************************************************************************)
EXTENDS Integers, FiniteSets

CONSTANTS
  Slots,     \* slots to a day
  Zones,     \* offsets the learner's profile may hold
  LastSlot,  \* bound: the clock stops here
  Never      \* last_activity_date is NULL

ASSUME SlotsAssumption == Slots \in Nat \ {0}
ASSUME ZonesAssumption == Zones \subseteq (-Slots)..Slots /\ Zones # {}
ASSUME ClockAssumption == LastSlot \in Nat /\ Never \notin Int

VARIABLES
  clock,         \* utcnow()
  zone,          \* user.timezone
  lastActivity,  \* user_stats.last_activity_date
  streak,        \* user_stats.current_streak_days
  longest,       \* user_stats.longest_streak_days
  activeDays,    \* the learner's own calendar: the local days with activity
  misdated       \* history: see above

streakVars == <<clock, zone, lastActivity, streak, longest, activeDays, misdated>>

UtcDate(t)  == t \div Slots
LocalToday  == (clock + zone) \div Slots

\* The day record_activity and current_streak believe was the last active one:
\* the calendar date of the stored timestamp, which is in UTC.
LastActive == UtcDate(lastActivity)

StreakTypeOK ==
  /\ clock \in 0..LastSlot
  /\ zone \in Zones
  /\ lastActivity \in (0..LastSlot) \cup {Never}
  /\ streak \in Nat
  /\ longest \in Nat
  /\ activeDays \subseteq Int
  /\ misdated \in BOOLEAN

StreakInit ==
  /\ clock = 0
  /\ zone \in Zones
  /\ lastActivity = Never
  /\ streak = 0
  /\ longest = 0
  /\ activeDays = {}
  /\ misdated = FALSE

-----------------------------------------------------------------------------
TimePasses ==
  /\ clock < LastSlot
  /\ clock' = clock + 1
  /\ UNCHANGED <<zone, lastActivity, streak, longest, activeDays, misdated>>

NextStreakPerPing ==     \* mutant: a second ping on a day counts
  IF lastActivity = Never THEN 1
  ELSE IF LastActive \in {LocalToday, LocalToday - 1} THEN streak + 1
  ELSE 1

NextStreak ==
  IF lastActivity = Never THEN 1
  ELSE IF LastActive = LocalToday THEN streak
  ELSE IF LastActive = LocalToday - 1 THEN streak + 1
  ELSE 1

RecordActivityStaleLongest ==     \* mutant: the record is taken before the update
  /\ streak' = NextStreak
  /\ longest' = IF longest < streak THEN streak ELSE longest
  /\ lastActivity' = clock
  /\ activeDays' = activeDays \cup {LocalToday}
  /\ misdated' = (misdated \/ LocalToday # UtcDate(clock))
  /\ UNCHANGED <<clock, zone>>

RecordActivity ==
  /\ streak' = NextStreak
  /\ longest' = IF longest < NextStreak THEN NextStreak ELSE longest
  /\ lastActivity' = clock
  /\ activeDays' = activeDays \cup {LocalToday}
  /\ misdated' = (misdated \/ LocalToday # UtcDate(clock))
  /\ UNCHANGED <<clock, zone>>

\* What the dashboard shows: the stored counter unless a day was missed.
CurrentStreak ==
  IF lastActivity # Never /\ LastActive \in {LocalToday, LocalToday - 1}
  THEN streak ELSE 0

StreakNext == TimePasses \/ RecordActivity

StreakSpec == StreakInit /\ [][StreakNext]_streakVars

-----------------------------------------------------------------------------
(* The calendar the streak is meant to follow *)

\* Days of unbroken activity up to and including day d.
RunUpTo(d) ==
  Cardinality({first \in activeDays : first <= d /\ (first..d) \subseteq activeDays})

LatestDay == CHOOSE d \in activeDays : \A e \in activeDays : e <= d

\* "Streaks are counted in calendar days in the user's own timezone": the stored
\* counter is the unbroken run of the learner's days that ends with the latest.
\* A misdated activity breaks it: the day it is compared with is not the day it
\* was on.
StreakIsRunOfDays ==
  activeDays # {} => streak = RunUpTo(LatestDay)

\* The streak on display is that run while it is alive, which is through the
\* day after the last activity, and zero once a whole day was missed.
ShownStreakIsAlive ==
  CurrentStreak = IF activeDays # {} /\ LatestDay >= LocalToday - 1
                  THEN RunUpTo(LatestDay) ELSE 0

\* The record is the longest run the learner ever had.
LongestIsBestRun ==
  activeDays # {} =>
    /\ \A d \in activeDays : RunUpTo(d) <= longest
    /\ \E d \in activeDays : RunUpTo(d) = longest

\* As long as every activity fell on the UTC day of its own timestamp, stored,
\* shown and best streak are read off the calendar of the learner's zone, on
\* whichever side of UTC's midnight the page is looked at, whatever the order of
\* pings, gaps and repeats; the record in particular is taken after the streak is
\* updated.
StreakFollowsCalendar ==
  ~misdated => StreakIsRunOfDays /\ ShownStreakIsAlive /\ LongestIsBestRun
=============================================================================
