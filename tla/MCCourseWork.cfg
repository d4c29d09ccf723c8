CONSTANTS
  l1 = l1  l2 = l2
  MaxTabs = 2
  Lessons <- MCLessons
  QuizLesson = l1
  MaxAttempts = 1
  Course = course
  Quiz = quiz
  None = none
SPECIFICATION FairSpec
INVARIANTS CourseClosesWithLastLesson AttemptLimitHolds GradeHoldsUp
PROPERTIES NothingTakenBack RequestsAnswered
