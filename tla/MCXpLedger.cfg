SPECIFICATION FairSpec
CONSTANTS
  Requests = {r1, r2}
  Activities = {lesson, course}
  Badges = {firstBadge, centuryBadge}
  lesson = lesson
  course = course
  firstBadge = firstBadge
  centuryBadge = centuryBadge
  Reward <- RewardInUse
  Criterion <- CriterionInUse
  None = None
  Overlapping = TRUE
INVARIANTS CacheWithinLedger BadgesHonest
PROPERTIES RequestsFinish
