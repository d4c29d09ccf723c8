SPECIFICATION FairSpec
CONSTANTS
  untouched = untouched
  solution = solution
  Docs <- BothDocs
  Blank = untouched
  Solved = {solution}
  Slots = {1, 2}
  MaxAttempts = 1
  None = None
INVARIANTS SavedMeansSaved GradedIsShownWork AnnouncedIsRecorded
PROPERTIES WorkIsSaved
CONSTRAINT Uncrossed
