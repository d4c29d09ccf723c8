SPECIFICATION StudySpec
CONSTANTS
  Reach = 25
  Slots = 4
  Zones <- MCZones
  LastSlot = 27
  Never = Never
  t1 = t1
  t2 = t2
  t3 = t3
  k1 = k1
  k2 = k2
  d1 = d1
  d2 = d2
  Topologies = {t1, t2, t3}
  Notes = {note}
  Bookmarks = {star1, star2}
  Documents = {d1, d2}
  DevicesIn <- MCDevicesIn
  Bodies = {body1, body2}
  Lessons = {lesson}
  MaxTopologies = 1
  LongestName = 2
  Suffix = 1
  Calls = {k1, k2}
  Gone = Gone
  Requests = {r1, r2}
  Activities = {lesson, course}
  Badges = {firstBadge, centuryBadge}
  lesson = lesson
  course = course
  firstBadge = firstBadge
  centuryBadge = centuryBadge
  Reward <- RewardInUse
  Criterion <- CriterionInUse
  None = None
  Overlapping = FALSE
SYMMETRY Symmetric
INVARIANTS
  LevelShownIsPaidFor StreakFollowsCalendar ShelfInOrder
  OncePerSource CacheIsLedgerSum
PROPERTY LedgerImplementsAccount
CHECK_DEADLOCK FALSE
