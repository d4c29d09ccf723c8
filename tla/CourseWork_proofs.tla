------------------------- MODULE CourseWork_proofs -------------------------
(***************************************************************************)
(* For any number of tabs, lessons and attempts: a course closes with its  *)
(* last lesson, a quiz keeps to its limit, a passed attempt holds what     *)
(* passed, and nothing achieved is taken back.                             *)
(*                                                                         *)
(* The argument for the first: a tab that adds a lesson took the lock on   *)
(* user_stats before it counted, and nobody else completes a lesson while  *)
(* it is held, so what was counted is still true at the commit; a tab that *)
(* adds none found its lesson paid for, hence completed.  `Fits` says how  *)
(* what a request has read relates to the tables at each of its steps.     *)
(***************************************************************************)
EXTENDS CourseWork, TLAPS, FiniteSetTheorems, SequenceTheorems

Size     == Cardinality(Lessons)
Statuses == {"none", "active", "completed"}

Request ==
  [op : {"none", "complete", "start", "submit", "claim"} \cup Saves,
   at : {"idle", "record", "insert", "pay", "grant", "count", "commit", "used",
         "new", "issue"},
   lesson : Lessons \cup {None}, status : Statuses, read : 0..Size,
   inserted : BOOLEAN, due : Sources \cup {None}, granted : SUBSET Sources,
   counted : Nat, closes : BOOLEAN, answers : Answers]

Attempt == [status : {"in_progress", "passed", "failed"}, answers : Answers, points : 0..1]

Types ==
  /\ open \in Tabs /\ enrolment \in Statuses /\ percent \in 0..Size
  /\ rows \in [Lessons -> {"absent", "in_progress", "completed"}]
  /\ paid \in SUBSET Sources
  /\ attempts \in Seq(Attempt)
  /\ cert \in {"none", "valid", "revoked"}
  /\ lock \in Tabs \cup {None}
  /\ req \in [Tabs -> Request]

-----------------------------------------------------------------------------
\* What a request has read and not yet committed, at each of its steps.

\* No request, and requests that write neither a lesson nor an attempt.
Bare(r) == r.granted = {} /\ ~r.inserted /\ ~r.closes

FitsIdle(r)  == r.at = "idle" /\ r.op = "none" /\ Bare(r)
FitsStart(r) == r.op = "start" /\ r.at \in {"used", "new"} /\ Bare(r)
FitsClaim(r) == r.op = "claim" /\ r.at = "issue" /\ Bare(r) /\ enrolment = "completed"

FitsSave(r) ==
  /\ r.op \in Saves /\ r.at \in {"record", "insert", "commit"}
  /\ r.lesson \in Lessons /\ r.granted = {} /\ ~r.closes
  /\ r.inserted => r.at = "commit"

\* The steps of a completion that come after the count.
Past(r) == r.at = "commit" \/ r.due = Course

FitsComplete(r) ==
  /\ r.op = "complete" /\ r.at \in {"record", "insert", "pay", "grant", "count", "commit"}
  /\ r.lesson \in Lessons /\ r.due \in {r.lesson, Course}
  /\ r.granted \subseteq {r.lesson, Course} /\ r.counted \in 0..Size
  /\ enrolment # "none" /\ (r.status = "completed" => enrolment = "completed")
  /\ r.at \in {"record", "insert"} => r.due = r.lesson /\ Bare(r)
  /\ r.at = "count" => r.due = r.lesson
  /\ r.closes <=> r.due = Course
  /\ r.inserted \/ r.at \in {"record", "insert"} \/ rows[r.lesson] # "absent"
  /\ r.at = "count" \/ Past(r) => r.lesson \in paid \cup r.granted
  /\ IF Past(r) THEN IF r.closes THEN Done \cup {r.lesson} = Lessons
                     ELSE Done \cup {r.lesson} # Lessons \/ enrolment = "completed"
                ELSE r.status # "none"

FitsSubmit(r) ==
  /\ r.op = "submit" /\ r.at \in {"pay", "grant", "record", "insert", "commit"}
  /\ r.lesson = QuizLesson /\ r.due = Quiz /\ r.granted \subseteq {Quiz} /\ ~r.closes
  /\ r.counted \in DOMAIN attempts
  /\ r.inserted => r.at = "commit"
  /\ r.answers = "right" /\ r.at \in {"record", "insert", "commit"} =>
       Quiz \in paid \cup r.granted
  /\ open = 1 => IsOpen(attempts[r.counted])

Fits(t, r) ==
  /\ r.at # "idle" => t <= open
  /\ \/ FitsIdle(r) \/ FitsStart(r) \/ FitsClaim(r)
     \/ FitsSave(r) \/ FitsComplete(r) \/ FitsSubmit(r)
  /\ r.inserted => rows[r.lesson] = "absent"

\* The lock is held from the grant on, and a lesson's row is inserted once.
LockHeld   == \A t \in Tabs : req[t].granted # {} => lock = t
InsertOnce == \A t, u \in Tabs :
  t # u /\ req[t].inserted /\ req[u].inserted => req[t].lesson # req[u].lesson

\* The tables: what is completed is paid, the course is closed with the last
\* lesson, and an attempt is graded as it was answered.
PaidWhenDone == \A l \in Lessons : l \in paid <=> rows[l] = "completed"
ClosesRight  == enrolment = "completed" <=> Done = Lessons
AttemptsRight ==
  \A i \in DOMAIN attempts :
    LET a == attempts[i]
    IN  /\ IsOpen(a) => a.answers = "blank" /\ a.points = 0
        /\ a.status = "passed" => a.answers = "right" /\ a.points = 1 /\ Quiz \in paid
        /\ open = 1 => Points(a.answers) = a.points

Tables == PaidWhenDone /\ ClosesRight /\ AttemptsRight

CourseInv ==
  /\ Types /\ Tables /\ LockHeld /\ InsertOnce
  /\ \A t \in Tabs : Fits(t, req[t])

-----------------------------------------------------------------------------
\* The limit: attempts there are, and attempts about to be inserted by a tab
\* that counted too few.
Starters == {t \in Tabs : req[t].at = "new"}
LimitInv == Len(attempts) + Cardinality(Starters) <= MaxAttempts + open - 1

-----------------------------------------------------------------------------
\* The smallest facts.

LEMMA Sizes ==
  /\ Size \in Nat
  /\ \A S \in SUBSET Lessons : /\ Cardinality(S) \in 0..Size
                               /\ Cardinality(S) >= Size <=> S = Lessons
<1>1. IsFiniteSet(Lessons)
  BY CourseAssumption
<1>2. Size \in Nat
  BY <1>1, FS_CardinalityType DEF Size
<1>3. ASSUME NEW S \in SUBSET Lessons
      PROVE  Cardinality(S) \in 0..Size /\ (Cardinality(S) >= Size <=> S = Lessons)
  <2>1. /\ IsFiniteSet(S) /\ Cardinality(S) <= Size
        /\ Size = Cardinality(S) => S = Lessons
    BY <1>1, FS_Subset DEF Size
  <2>2. Cardinality(S) \in Nat
    BY <2>1, FS_CardinalityType
  <2>. QED BY <1>2, <2>1, <2>2 DEF Size
<1>. QED BY <1>2, <1>3

LEMMA IdleFits ==
  /\ Types => Idle \in Request
  /\ \A t \in Tabs : Fits(t, Idle)
<1>1. Size \in Nat
  BY Sizes
<1>. QED BY <1>1 DEF Types, Request, Idle, Statuses, Answers, Fits, FitsIdle, Bare

LEMMA InitInv == Init => CourseInv
<1> SUFFICES ASSUME Init PROVE CourseInv
  OBVIOUS
<1>1. Types
  <2>1. Size \in Nat /\ Idle \in Request
    BY Sizes DEF Request, Idle, Statuses, Answers
  <2>2. attempts \in Seq(Attempt)
    BY EmptySeq DEF Init
  <2>. QED BY <2>1, <2>2 DEF Init, Types, Statuses
<1>2. Tables
  <2>1. Done = {}
    BY DEF Init, Done
  <2>2. PaidWhenDone
    BY DEF Init, PaidWhenDone
  <2>3. ClosesRight
    BY <2>1, CourseAssumption DEF Init, ClosesRight
  <2>4. AttemptsRight
    BY DEF Init, AttemptsRight
  <2>. QED BY <2>2, <2>3, <2>4 DEF Tables
<1>3. LockHeld /\ InsertOnce
  BY DEF Init, LockHeld, InsertOnce, Idle
<1>4. \A t \in Tabs : Fits(t, req[t])
  BY IdleFits DEF Init
<1>. QED BY <1>1, <1>2, <1>3, <1>4 DEF CourseInv

-----------------------------------------------------------------------------
\* Steps that commit nothing: the request of tab t becomes r, which fits the
\* tables as they are, and the lock is taken only if nobody else holds it.
Keeps == UNCHANGED <<open, enrolment, percent, rows, paid, attempts, cert>>

LEMMA QuietStep ==
  ASSUME CourseInv, Keeps, NEW t \in Tabs, NEW r \in Request, Step(t, r), Fits(t, r),
         lock' = lock \/ (Locks(t) /\ lock' = t) \/ (lock = t /\ lock' = None),
         r.granted # {} => lock' = t,
         r.inserted => \A u \in Tabs \ {t} : req[u].inserted => req[u].lesson # r.lesson
  PROVE  CourseInv'
<1>1. req' \in [Tabs -> Request] /\ req'[t] = r /\ \A u \in Tabs \ {t} : req'[u] = req[u]
  BY DEF CourseInv, Types, Step
<1>2. Types'
  BY <1>1 DEF CourseInv, Types, Keeps
<1>3. Done' = Done
  BY DEF Keeps, Done
<1>4. Tables'
  BY <1>3 DEF CourseInv, Tables, PaidWhenDone, ClosesRight, AttemptsRight, Keeps, IsOpen
<1>5. LockHeld'
  <2> SUFFICES ASSUME NEW u \in Tabs, req'[u].granted # {} PROVE lock' = u
    BY DEF LockHeld
  <2>1. CASE u = t
    BY <2>1, <1>1
  <2>2. CASE u # t
    <3>1. lock = u
      BY <2>2, <1>1 DEF CourseInv, LockHeld
    <3>. QED BY <3>1, <2>2, CourseAssumption DEF Locks
  <2>. QED BY <2>1, <2>2
<1>6. InsertOnce'
  BY <1>1 DEF CourseInv, InsertOnce
<1>7. ASSUME NEW u \in Tabs, NEW q, Fits(u, q) PROVE Fits(u, q)'
  BY <1>3, <1>7 DEF Keeps, Fits, FitsIdle, FitsStart, FitsClaim, FitsSave, FitsComplete,
       FitsSubmit, IsOpen
<1>8. \A u \in Tabs : Fits(u, req[u])'
  <2>1. \A u \in Tabs : \A q : Fits(u, q) => Fits(u, q)'
    BY <1>7
  <2>. QED BY <2>1, <1>1 DEF CourseInv
<1>. QED BY <1>2, <1>4, <1>5, <1>6, <1>8 DEF CourseInv

\* A request that ends leaves nothing behind.
LEMMA FinishInv ==
  ASSUME CourseInv, Keeps, NEW t \in Tabs, Finish(t)
  PROVE  CourseInv'
<1>1. Idle \in Request /\ Fits(t, Idle)
  BY IdleFits DEF CourseInv
<1>. QED BY <1>1, QuietStep DEF Finish, Idle

LEMMA BeginInv ==
  ASSUME CourseInv, NEW t \in Tabs,
         \/ ResumeQuiz(t) \/ Claim(t)
         \/ \E l \in Lessons, op \in {"complete"} \cup Saves : OpenLesson(t, op, l)
         \/ \E i \in DOMAIN attempts, a \in Answers : Submit(t, i, a)
  PROVE  CourseInv'
<1>1. Idle \in Request /\ Size \in Nat /\ 0 \in 0..Size
  BY IdleFits, Sizes DEF CourseInv
<1>2. CASE ResumeQuiz(t)
  <2> DEFINE r == [Idle EXCEPT !.op = "start", !.at = "used"]
  <2>1. r \in Request /\ Fits(t, r)
    BY <1>1, <1>2 DEF ResumeQuiz, Request, Idle, Fits, FitsStart, Bare
  <2>. QED BY <2>1, <1>2, QuietStep DEF ResumeQuiz, Keeps, Idle
<1>3. CASE Claim(t)
  <2> DEFINE r == [Idle EXCEPT !.op = "claim", !.at = "issue"]
  <2>1. r \in Request /\ Fits(t, r)
    BY <1>1, <1>3 DEF Claim, Request, Idle, Fits, FitsClaim, Bare
  <2>. QED BY <2>1, <1>3, QuietStep DEF Claim, Keeps, Idle
<1>4. ASSUME NEW l \in Lessons, NEW op \in Saves, OpenLesson(t, op, l)
      PROVE  CourseInv'
  <2> DEFINE r == [Idle EXCEPT !.op = op, !.at = "record", !.lesson = l]
  <2>1. r \in Request /\ Fits(t, r)
    BY <1>1, <1>4 DEF OpenLesson, Request, Idle, Fits, FitsSave, Bare
  <2>. QED BY <2>1, <1>4, QuietStep DEF OpenLesson, Keeps, Idle
<1>5. ASSUME NEW l \in Lessons, OpenLesson(t, "complete", l)
      PROVE  CourseInv'
  <2> DEFINE r == [Idle EXCEPT !.op = "complete", !.at = "record", !.lesson = l,
                               !.due = l, !.status = enrolment, !.read = percent]
  <2>1. r \in Request
    BY <1>1 DEF Request, Idle, CourseInv, Types, Sources, Statuses
  <2>2. Fits(t, r)
    BY <1>1, <1>5, CourseAssumption DEF OpenLesson, Idle, Fits, FitsComplete, Bare, Past
  <2>3. Step(t, r) /\ Keeps /\ lock' = lock
    BY <1>5 DEF OpenLesson, Saves, Keeps
  <2>. QED BY <2>1, <2>2, <2>3, QuietStep DEF Idle
<1>6. ASSUME NEW i \in DOMAIN attempts, NEW a \in Answers, Submit(t, i, a)
      PROVE  CourseInv'
  <2> DEFINE r == [Idle EXCEPT !.op = "submit", !.counted = i, !.answers = a,
                     !.lesson = QuizLesson, !.due = Quiz,
                     !.at = IF Points(a) = 1 THEN "pay" ELSE "commit"]
  <2>1. i \in Nat /\ QuizLesson \in Lessons
    BY CourseAssumption, LenProperties DEF CourseInv, Types
  <2>2. r \in Request
    BY <1>1, <2>1 DEF Request, Idle, Sources
  <2>3. Fits(t, r)
    BY <1>6, CourseAssumption DEF Submit, Idle, Fits, FitsSubmit, Points
  <2>. QED BY <2>2, <2>3, <1>6, QuietStep DEF Submit, Keeps, Idle
<1>. QED BY <1>2, <1>3, <1>4, <1>5, <1>6

LEMMA RecordInv ==
  ASSUME CourseInv, NEW t \in Tabs, LoadRecord(t) \/ InsertRecord(t)
  PROVE  CourseInv'
<1> DEFINE q == req[t]
<1>1. q \in Request /\ Fits(t, q)
  BY DEF CourseInv, Types
<1>2. q.granted # {} => lock = t
  BY DEF CourseInv, LockHeld
<1>3. AfterRecord(q) = IF q.op = "complete" THEN "pay" ELSE "commit"
  BY DEF AfterRecord
<1>4. CASE LoadRecord(t)
  <2> DEFINE r == [q EXCEPT !.at = IF rows[q.lesson] = "absent" THEN "insert"
                                   ELSE AfterRecord(q)]
  <2>1. r \in Request
    BY <1>1, <1>3 DEF Request
  <2>2. Fits(t, r)
    BY <1>1, <1>3, <1>4, CourseAssumption DEF LoadRecord, Request, Fits, FitsIdle, FitsStart,
         FitsClaim, FitsSave, FitsComplete, FitsSubmit, Bare, Past, Sources, Saves
  <2>3. r.granted = q.granted /\ r.inserted = q.inserted
    BY <1>1 DEF Request
  <2>4. q.inserted => \A u \in Tabs \ {t} : req[u].inserted => req[u].lesson # r.lesson
    BY <1>1 DEF CourseInv, InsertOnce, Request
  <2>5. Step(t, r) /\ Keeps /\ lock' = lock
    BY <1>4 DEF LoadRecord, Go, Keeps
  <2> HIDE DEF r, q
  <2>. QED BY <1>2, <2>1, <2>2, <2>3, <2>4, <2>5, QuietStep
<1>5. CASE InsertRecord(t)
  <2> DEFINE r == [q EXCEPT !.inserted = TRUE, !.at = AfterRecord(q)]
  <2>1. r \in Request
    BY <1>1, <1>3 DEF Request
  <2>2. Fits(t, r)
    BY <1>1, <1>3, <1>5, CourseAssumption DEF InsertRecord, Request, Fits, FitsIdle, FitsStart,
         FitsClaim, FitsSave, FitsComplete, FitsSubmit, Bare, Past, Sources, Saves
  <2>3. r.granted = q.granted
    BY <1>1 DEF Request
  <2>4. \A u \in Tabs \ {t} : req[u].inserted => req[u].lesson # r.lesson
    BY <1>1, <1>5 DEF InsertRecord, InsertUnderWay, Request
  <2>5. Step(t, r) /\ Keeps /\ lock' = lock
    BY <1>5 DEF InsertRecord, Keeps
  <2> HIDE DEF r, q
  <2>. QED BY <1>2, <2>1, <2>2, <2>3, <2>4, <2>5, QuietStep
<1>. QED BY <1>4, <1>5

\* grant_xp: a source that is not found in the ledger is granted, under the lock.
LEMMA PayInv ==
  ASSUME CourseInv, NEW t \in Tabs, FindPaid(t) \/ Grant(t)
  PROVE  CourseInv'
<1> DEFINE q == req[t]
<1>1. q \in Request /\ Fits(t, q)
  BY DEF CourseInv, Types
<1>2. q.granted # {} => lock = t
  BY DEF CourseInv, LockHeld
<1>3. q.inserted => \A u \in Tabs \ {t} : req[u].inserted => req[u].lesson # q.lesson
  BY DEF CourseInv, InsertOnce
<1>4. q.at \in {"pay", "grant"} /\ (FitsComplete(q) \/ FitsSubmit(q))
  BY <1>1 DEF FindPaid, Grant, Fits, FitsIdle, FitsStart, FitsClaim, FitsSave
<1>5. q.due \in Lessons \cup {Course, Quiz}
  BY <1>4, CourseAssumption DEF FitsComplete, FitsSubmit
<1>6. /\ AfterGrant(q) \in {"count", "commit", "record"}
      /\ FitsComplete(q) => AfterGrant(q) = IF q.due = Course THEN "commit" ELSE "count"
      /\ FitsSubmit(q) => AfterGrant(q) = "record"
  BY <1>5, CourseAssumption DEF AfterGrant, FitsComplete, FitsSubmit
<1>7. CASE FindPaid(t)
  <2> DEFINE r == [q EXCEPT !.at = IF q.due \in paid THEN AfterGrant(q) ELSE "grant"]
  <2>1. r \in Request /\ r.granted = q.granted /\ r.inserted = q.inserted
                      /\ r.lesson = q.lesson
    BY <1>1, <1>6 DEF Request
  <2>2. FitsComplete(q) => FitsComplete(r)
    BY <1>1, <1>4, <1>6, CourseAssumption DEF Request, FitsComplete, Past
  <2>3. FitsSubmit(q) => FitsSubmit(r)
    BY <1>1, <1>4, <1>6 DEF Request, FitsSubmit
  <2>4. Fits(t, r)
    BY <1>1, <1>4, <2>1, <2>2, <2>3 DEF Fits
  <2>5. Step(t, r) /\ Keeps /\ lock' = lock
    BY <1>7 DEF FindPaid, Go, Keeps
  <2> HIDE DEF r, q
  <2>. QED BY <1>2, <1>3, <2>1, <2>4, <2>5, QuietStep
<1>8. CASE Grant(t)
  <2> DEFINE r == [q EXCEPT !.granted = @ \cup {q.due}, !.at = AfterGrant(q)]
  <2>1. r \in Request /\ r.inserted = q.inserted /\ r.lesson = q.lesson
    BY <1>1, <1>5, <1>6 DEF Request, Sources
  <2>2. FitsComplete(q) => FitsComplete(r)
    BY <1>1, <1>4, <1>6, <1>8, CourseAssumption DEF Grant, Request, FitsComplete, Past
  <2>3. FitsSubmit(q) => FitsSubmit(r)
    BY <1>1, <1>4, <1>6, <1>8 DEF Grant, Request, FitsSubmit
  <2>4. Fits(t, r)
    BY <1>1, <1>4, <2>1, <2>2, <2>3 DEF Fits
  <2>5. Step(t, r) /\ Keeps /\ Locks(t) /\ lock' = t
    BY <1>8 DEF Grant, Keeps
  <2> HIDE DEF r, q
  <2>. QED BY <1>3, <2>1, <2>4, <2>5, QuietStep
<1>. QED BY <1>7, <1>8

\* _recompute_course_progress: what is completed, and the lesson just granted,
\* are the lesson of the request and what was completed before.
LEMMA CountInv ==
  ASSUME CourseInv, NEW t \in Tabs, RollUp(t)
  PROVE  CourseInv'
<1> DEFINE q == req[t]
           n == Counted(t)
           c == IF n = q.read THEN 0 ELSE n
           d == IF n = q.read THEN 0 ELSE q.read
<1>1. q \in Request /\ Fits(t, q) /\ q.at = "count"
  BY DEF CourseInv, Types, RollUp
<1>2. q.granted # {} => lock = t
  BY DEF CourseInv, LockHeld
<1>3. q.inserted => \A u \in Tabs \ {t} : req[u].inserted => req[u].lesson # q.lesson
  BY DEF CourseInv, InsertOnce
<1>4. FitsComplete(q)
  BY <1>1 DEF Fits, FitsIdle, FitsStart, FitsClaim, FitsSave, FitsSubmit
<1>5. Done \cup (q.granted \cap Lessons) = Done \cup {q.lesson}
  <2>1. q.granted \cap Lessons \subseteq {q.lesson} /\ q.lesson \in Lessons
    BY <1>4, CourseAssumption DEF FitsComplete
  <2>2. q.lesson \in paid \cup q.granted
    BY <1>1, <1>4 DEF FitsComplete
  <2>3. q.lesson \in paid => q.lesson \in Done
    BY <2>1 DEF CourseInv, Tables, PaidWhenDone, Done
  <2>. QED BY <2>1, <2>2, <2>3
<1>6. n \in 0..Size /\ (n >= Cardinality(Lessons) <=> Done \cup {q.lesson} = Lessons)
  <2>1. Done \cup {q.lesson} \in SUBSET Lessons
    BY <1>4 DEF FitsComplete, Done
  <2>. QED BY <2>1, <1>5, Sizes DEF Counted, Size
<1>7. PICK b \in BOOLEAN : b = (n >= Cardinality(Lessons) /\ q.status = "active")
  OBVIOUS
<1> DEFINE s == IF b THEN Course ELSE q.due
           a == IF b THEN "pay" ELSE "commit"
           r == [q EXCEPT !.counted = c, !.read = d, !.closes = b, !.status = "none",
                          !.due = s, !.at = a]
<1>8. Step(t, r) /\ Keeps /\ lock' = lock
  <2>1. CASE b = TRUE
    <3>1. n >= Cardinality(Lessons) /\ q.status = "active"
      BY <1>7, <2>1
    <3>. QED BY <3>1, <2>1 DEF RollUp, Keeps
  <2>2. CASE b = FALSE
    <3>1. ~(n >= Cardinality(Lessons) /\ q.status = "active")
      BY <1>7, <2>2
    <3>. QED BY <3>1, <2>2 DEF RollUp, Keeps
  <2>. QED BY <2>1, <2>2
<1>9. c \in 0..Size /\ d \in 0..Size /\ s \in Sources \cup {None} /\ a \in {"pay", "commit"}
  BY <1>1, <1>6, Sizes DEF Request, Sources
<1>10. /\ b <=> Done \cup {q.lesson} = Lessons /\ q.status = "active"
       /\ s = (IF b THEN Course ELSE q.due) /\ a = IF b THEN "pay" ELSE "commit"
  BY <1>6, <1>7
<1>11. ~b => Done \cup {q.lesson} # Lessons \/ enrolment = "completed"
  BY <1>1, <1>4, <1>10, CourseAssumption DEF FitsComplete, Past, Request, Statuses
<1> HIDE DEF q, n, c, d, s, a
<1>12. /\ r \in Request /\ r.granted = q.granted /\ r.inserted = q.inserted
       /\ r.lesson = q.lesson /\ r.op = q.op /\ r.status = "none"
       /\ r.closes = b /\ r.counted = c /\ r.due = s /\ r.at = a
  <2>1. c \in Nat
    BY <1>9, Sizes
  <2>. QED BY <1>1, <1>9, <2>1 DEF Request, Statuses
<1> HIDE DEF r
<1>13. FitsComplete(r)
  BY <1>1, <1>4, <1>9, <1>10, <1>11, <1>12, CourseAssumption DEF FitsComplete, Past
<1>14. Fits(t, r)
  BY <1>1, <1>12, <1>13 DEF Fits
<1>. QED BY <1>2, <1>3, <1>8, <1>12, <1>14, QuietStep

LEMMA CountUsedInv ==
  ASSUME CourseInv, NEW t \in Tabs, CountUsed(t)
  PROVE  CourseInv'
<1> DEFINE q == req[t]
           r == [q EXCEPT !.at = "new"]
<1>1. q \in Request /\ Fits(t, q) /\ q.at = "used"
  BY DEF CourseInv, Types, CountUsed
<1>2. FitsStart(q)
  BY <1>1 DEF Fits, FitsIdle, FitsClaim, FitsSave, FitsComplete, FitsSubmit
<1>3. r \in Request /\ Fits(t, r) /\ Bare(r)
  BY <1>1, <1>2 DEF Request, Fits, FitsStart, Bare
<1>4. Idle \in Request /\ Fits(t, Idle) /\ Bare(Idle)
  BY IdleFits DEF CourseInv, Idle, Bare
<1>5. (Step(t, Idle) \/ Step(t, r)) /\ Keeps /\ lock' = lock
  BY DEF CountUsed, Keeps
<1> HIDE DEF q, r
<1>. QED BY <1>3, <1>4, <1>5, QuietStep DEF Bare

-----------------------------------------------------------------------------
\* Steps that commit.

\* The request of t is over and the others are where they were.
Ends(t) == Step(t, Idle) /\ (lock' = lock \/ (lock = t /\ lock' = None))

LEMMA EndLeaves ==
  ASSUME CourseInv, NEW t \in Tabs, Ends(t)
  PROVE  /\ req' \in [Tabs -> Request] /\ lock' \in Tabs \cup {None}
         /\ \A u \in Tabs : req'[u] = IF u = t THEN Idle ELSE req[u]
         /\ LockHeld' /\ InsertOnce'
<1>1. /\ req' \in [Tabs -> Request]
      /\ \A u \in Tabs : req'[u] = IF u = t THEN Idle ELSE req[u]
  BY IdleFits DEF CourseInv, Types, Ends, Step
<1>2. lock' \in Tabs \cup {None}
  BY DEF CourseInv, Types, Ends
<1>3. Idle.granted = {} /\ ~Idle.inserted
  BY DEF Idle
<1>4. LockHeld'
  <2> SUFFICES ASSUME NEW u \in Tabs, req'[u].granted # {} PROVE lock' = u
    BY DEF LockHeld
  <2>1. u # t /\ req'[u] = req[u]
    BY <1>1, <1>3
  <2>. QED BY <2>1 DEF CourseInv, LockHeld, Ends
<1>5. InsertOnce'
  <2> SUFFICES ASSUME NEW u \in Tabs, NEW v \in Tabs, u # v,
                      req'[u].inserted, req'[v].inserted
               PROVE  req'[u].lesson # req'[v].lesson
    BY DEF InsertOnce
  <2>1. u # t /\ v # t /\ req'[u] = req[u] /\ req'[v] = req[v]
    BY <1>1, <1>3
  <2>. QED BY <2>1 DEF CourseInv, InsertOnce
<1>. QED BY <1>1, <1>2, <1>4, <1>5

\* So a commit is sound when the tables are, and the others still fit.
LEMMA CommitStep ==
  ASSUME CourseInv, NEW t \in Tabs, Ends(t), Tables',
         open' \in Tabs, enrolment' \in Statuses, percent' \in 0..Size,
         rows' \in [Lessons -> {"absent", "in_progress", "completed"}],
         paid' \in SUBSET Sources, attempts' \in Seq(Attempt),
         cert' \in {"none", "valid", "revoked"},
         \A u \in Tabs \ {t} : \A q : q = req[u] => Fits(u, q)'
  PROVE  CourseInv'
<1>1. \A u \in Tabs : req'[u] = IF u = t THEN Idle ELSE req[u]
  BY EndLeaves
<1>2. \A u \in Tabs : Fits(u, Idle)'
  BY DEF Fits, FitsIdle, Bare, Idle
<1>3. \A u \in Tabs : Fits(u, req[u])'
  BY <1>1, <1>2
<1>. QED BY <1>3, EndLeaves DEF CourseInv, Types

LEMMA CommitCompleteInv ==
  ASSUME CourseInv, NEW t \in Tabs, CommitComplete(t)
  PROVE  CourseInv'
<1> DEFINE q == req[t]
           l == q.lesson
<1>1. FitsComplete(q) /\ l \in Lessons /\ Fits(t, q) /\ q \in Request
  BY DEF CourseInv, Types, CommitComplete, Fits, FitsIdle, FitsStart, FitsClaim, FitsSave,
     FitsComplete, FitsSubmit, Saves
<1>2. Done' = Done \cup {l} /\ Done \subseteq Lessons
  BY <1>1 DEF CommitComplete, Done, CourseInv, Types
<1>3. paid' = paid \cup q.granted /\ q.granted \cap Lessons \subseteq {l} /\ l \in paid'
  BY <1>1, CourseAssumption DEF CommitComplete, FitsComplete, Past
<1>4. PaidWhenDone'
  BY <1>1, <1>3 DEF CommitComplete, PaidWhenDone, CourseInv, Tables, Types
<1>5. ClosesRight'
  BY <1>1, <1>2 DEF CommitComplete, ClosesRight, CourseInv, Tables, FitsComplete, Past
<1>6. AttemptsRight'
  BY <1>3 DEF CommitComplete, AttemptsRight, CourseInv, Tables, IsOpen
<1>7. enrolment # "none" /\ (enrolment = "completed" => enrolment' = "completed")
                         /\ (enrolment' # "none")
  BY <1>1 DEF CommitComplete, FitsComplete
<1>8. ASSUME NEW u \in Tabs \ {t}, NEW p, p = req[u] PROVE Fits(u, p)'
  <2>1. Fits(u, p) /\ p \in Request
    BY <1>8 DEF CourseInv, Types
  <2>2. p.inserted => p.lesson # l
    BY <1>1, <1>8, <2>1 DEF CourseInv, InsertOnce, Fits, FitsComplete, CommitComplete
  <2>3. p.granted = {}
    BY <1>8, CourseAssumption DEF CourseInv, LockHeld, CommitComplete, Locks
  <2>4. FitsComplete(p) => FitsComplete(p)'
    <3> SUFFICES ASSUME FitsComplete(p) PROVE FitsComplete(p)'
      OBVIOUS
    <3>1. Past(p) => p.lesson \in Done
      BY <2>3 DEF FitsComplete, CourseInv, Tables, PaidWhenDone, Done
    <3>2. IF Past(p) THEN IF p.closes THEN Done' \cup {p.lesson} = Lessons
                          ELSE Done' \cup {p.lesson} # Lessons \/ enrolment' = "completed"
                     ELSE p.status # "none"
      BY <1>1, <1>2, <1>5, <3>1 DEF FitsComplete, ClosesRight
    <3>3. p.inserted \/ p.at \in {"record", "insert"} \/ rows'[p.lesson] # "absent"
      BY <1>1 DEF FitsComplete, CommitComplete, CourseInv, Types
    <3>. QED BY <1>3, <1>7, <3>2, <3>3 DEF FitsComplete, Past, Bare
  <2>5. FitsSubmit(p) => FitsSubmit(p)'
    BY <1>3 DEF FitsSubmit, CommitComplete, IsOpen
  <2>6. /\ FitsIdle(p) => FitsIdle(p)'
        /\ FitsStart(p) => FitsStart(p)'
        /\ FitsClaim(p) => FitsClaim(p)'
        /\ FitsSave(p) => FitsSave(p)'
    BY <1>7 DEF FitsIdle, FitsStart, FitsClaim, FitsSave, Bare
  <2>7. p.inserted => rows'[p.lesson] = "absent"
    BY <1>1, <2>1, <2>2 DEF Fits, FitsIdle, FitsStart, FitsClaim, FitsSave, FitsComplete,
         FitsSubmit, Bare, CommitComplete, CourseInv, Types
  <2>8. open' = open
    BY DEF CommitComplete
  <2>. QED BY <2>1, <2>4, <2>5, <2>6, <2>7, <2>8 DEF Fits
<1>9. /\ enrolment' \in Statuses /\ percent' \in 0..Size
      /\ rows' \in [Lessons -> {"absent", "in_progress", "completed"}]
      /\ paid' \in SUBSET Sources
  BY <1>1, <1>3 DEF CommitComplete, FitsComplete, Request, Statuses, CourseInv, Types
<1>10. Tables' /\ Ends(t)
  BY <1>4, <1>5, <1>6 DEF Tables, CommitComplete, Finish, Ends
<1>11. open' \in Tabs /\ attempts' \in Seq(Attempt) /\ cert' \in {"none", "valid", "revoked"}
  BY DEF CommitComplete, CourseInv, Types
<1>12. \A u \in Tabs \ {t} : \A p : p = req[u] => Fits(u, p)'
  BY <1>8
<1>. QED BY <1>9, <1>10, <1>11, <1>12, CommitStep

\* A row that is inserted as "in_progress" was not there: nothing that is
\* completed changes, and no other request waits for that row.
LEMMA InsertedRow ==
  ASSUME CourseInv, NEW t \in Tabs, req[t].inserted,
         rows' = [rows EXCEPT ![req[t].lesson] = "in_progress"]
  PROVE  /\ rows' \in [Lessons -> {"absent", "in_progress", "completed"}]
         /\ req[t].lesson \in Lessons /\ Done' = Done
         /\ \A l \in Lessons : rows'[l] = "completed" <=> rows[l] = "completed"
         /\ \A l \in Lessons : rows[l] # "absent" => rows'[l] # "absent"
         /\ \A u \in Tabs \ {t} : req[u].inserted => rows'[req[u].lesson] = "absent"
<1> DEFINE q == req[t]
<1>1. q.lesson \in Lessons /\ rows[q.lesson] = "absent"
  BY CourseAssumption DEF CourseInv, Fits, FitsIdle, FitsStart, FitsClaim, FitsSave,
     FitsComplete, FitsSubmit, Bare
<1>2. rows \in [Lessons -> {"absent", "in_progress", "completed"}]
  BY DEF CourseInv, Types
<1>3. \A l \in Lessons : rows'[l] = IF l = q.lesson THEN "in_progress" ELSE rows[l]
  BY <1>1, <1>2
<1>4. Done' = Done
  BY <1>1, <1>3 DEF Done
<1>5. ASSUME NEW u \in Tabs \ {t}, req[u].inserted
      PROVE  rows'[req[u].lesson] = "absent"
  <2>1. req[u].lesson \in Lessons /\ rows[req[u].lesson] = "absent"
    BY <1>5, CourseAssumption DEF CourseInv, Fits, FitsIdle, FitsStart, FitsClaim, FitsSave,
       FitsComplete, FitsSubmit, Bare
  <2>2. req[u].lesson # q.lesson
    BY <1>5 DEF CourseInv, InsertOnce
  <2>. QED BY <1>3, <2>1, <2>2
<1>. QED BY <1>1, <1>2, <1>3, <1>4, <1>5

\* What the others have read stays true when no lesson is completed, the course
\* does not change, nothing paid is lost and the attempts keep their places.
LEMMA OthersFit ==
  ASSUME CourseInv, NEW t \in Tabs, Done' = Done, open' = open, enrolment' = enrolment,
         paid \subseteq paid', DOMAIN attempts \subseteq DOMAIN attempts',
         open = 1 => \A u \in Tabs \ {t} : req[u].at = "idle",
         \A l \in Lessons : rows[l] # "absent" => rows'[l] # "absent",
         \A u \in Tabs \ {t} : req[u].inserted => rows'[req[u].lesson] = "absent"
  PROVE  \A u \in Tabs \ {t} : \A p : p = req[u] => Fits(u, p)'
<1> SUFFICES ASSUME NEW u \in Tabs \ {t}, NEW p, p = req[u] PROVE Fits(u, p)'
  OBVIOUS
<1>1. Fits(u, p)
  BY DEF CourseInv
<1>2. FitsComplete(p) => FitsComplete(p)'
  BY DEF FitsComplete, Past, Bare
<1>3. FitsSubmit(p) => FitsSubmit(p)'
  BY DEF FitsSubmit
<1>4. FitsClaim(p) => FitsClaim(p)'
  BY DEF FitsClaim, Bare
<1>. QED BY <1>1, <1>2, <1>3, <1>4 DEF Fits, FitsIdle, FitsStart, FitsSave, Bare

\* With one tab open there is one request.
LEMMA OneTab ==
  ASSUME CourseInv, NEW t \in Tabs, req[t].at # "idle"
  PROVE  open = 1 => \A u \in Tabs \ {t} : req[u].at = "idle"
BY DEF CourseInv, Types, Tabs, Fits

LEMMA CommitPositionInv ==
  ASSUME CourseInv, NEW t \in Tabs, CommitPosition(t)
  PROVE  CourseInv'
<1>1. /\ rows' \in [Lessons -> {"absent", "in_progress", "completed"}] /\ Done' = Done
      /\ \A l \in Lessons : rows'[l] = "completed" <=> rows[l] = "completed"
      /\ \A l \in Lessons : rows[l] # "absent" => rows'[l] # "absent"
      /\ \A u \in Tabs \ {t} : req[u].inserted => rows'[req[u].lesson] = "absent"
  <2>1. CASE req[t].inserted
    BY <2>1, InsertedRow DEF CommitPosition
  <2>2. CASE ~req[t].inserted
    BY <2>2 DEF CommitPosition, CourseInv, Types, Done, Fits
  <2>. QED BY <2>1, <2>2
<1>2. Tables'
  BY <1>1 DEF CommitPosition, CourseInv, Tables, PaidWhenDone, ClosesRight, AttemptsRight, IsOpen
<1>3. \A u \in Tabs \ {t} : \A p : p = req[u] => Fits(u, p)'
  <2>1. req[t].at # "idle"
    BY DEF CommitPosition
  <2>. QED BY <1>1, <2>1, OneTab, OthersFit DEF CommitPosition
<1>. QED BY <1>1, <1>2, <1>3, CommitStep DEF CommitPosition, CourseInv, Types, Finish, Ends

LEMMA CommitSubmitInv ==
  ASSUME CourseInv, NEW t \in Tabs, CommitSubmit(t)
  PROVE  CourseInv'
<1> DEFINE q == req[t]
           i == q.counted
           g == Graded(attempts[i], q.answers)
<1>1. FitsSubmit(q) /\ q \in Request /\ q.at = "commit" /\ Fits(t, q)
  BY DEF CourseInv, Types, CommitSubmit, Fits, FitsIdle, FitsStart, FitsClaim, FitsSave,
     FitsComplete, FitsSubmit, Saves
<1>2. /\ rows' \in [Lessons -> {"absent", "in_progress", "completed"}] /\ Done' = Done
      /\ \A l \in Lessons : rows'[l] = "completed" <=> rows[l] = "completed"
      /\ \A l \in Lessons : rows[l] # "absent" => rows'[l] # "absent"
      /\ \A u \in Tabs \ {t} : req[u].inserted => rows'[req[u].lesson] = "absent"
  <2>1. CASE req[t].inserted
    <3>1. rows' = [rows EXCEPT ![req[t].lesson] = "in_progress"]
      BY <2>1, <1>1 DEF CommitSubmit, FitsSubmit
    <3>. QED BY <2>1, <3>1, InsertedRow
  <2>2. CASE ~req[t].inserted
    BY <2>2 DEF CommitSubmit, CourseInv, Types, Done, Fits
  <2>. QED BY <2>1, <2>2
<1>3. paid' = paid \cup q.granted /\ q.granted \subseteq {Quiz}
  BY <1>1 DEF CommitSubmit, FitsSubmit
<1>4. attempts \in Seq(Attempt) /\ i \in DOMAIN attempts /\ attempts[i] \in Attempt
  BY <1>1, ElementOfSeq, LenProperties DEF CourseInv, Types, FitsSubmit
<1>5. /\ g \in Attempt /\ ~IsOpen(g)
      /\ g.status = "passed" => g.answers = "right" /\ g.points = 1 /\ q.answers = "right"
      /\ IsOpen(attempts[i]) /\ attempts[i].answers = "blank" /\ attempts[i].points = 0
           => Points(g.answers) = g.points
  BY <1>1, <1>4 DEF Graded, Points, IsOpen, Attempt, Request, Answers
<1>6. attempts' = [attempts EXCEPT ![i] = g]
  BY DEF CommitSubmit
<1>7. /\ attempts' \in Seq(Attempt) /\ DOMAIN attempts' = DOMAIN attempts
      /\ \A k \in DOMAIN attempts : attempts'[k] = IF k = i THEN g ELSE attempts[k]
  <2> HIDE DEF g
  <2>. QED BY <1>4, <1>5, <1>6, ExceptSeq, LenProperties
<1>8. AttemptsRight'
  <2>1. Quiz \in paid => Quiz \in paid'
    BY <1>3
  <2>2. g.status = "passed" => Quiz \in paid'
    BY <1>1, <1>3, <1>5 DEF FitsSubmit
  <2>3. open = 1 => Points(g.answers) = g.points
    BY <1>1, <1>4, <1>5 DEF FitsSubmit, CourseInv, Tables, AttemptsRight
  <2>4. open' = open
    BY DEF CommitSubmit
  <2> HIDE DEF g, i
  <2> SUFFICES ASSUME NEW k \in DOMAIN attempts
               PROVE  LET a == attempts'[k]
                      IN  /\ IsOpen(a) => a.answers = "blank" /\ a.points = 0
                          /\ a.status = "passed" =>
                               a.answers = "right" /\ a.points = 1 /\ Quiz \in paid'
                          /\ open' = 1 => Points(a.answers) = a.points
    BY <1>7 DEF AttemptsRight, IsOpen, Points
  <2>5. CASE k = i
    BY <1>5, <1>7, <2>2, <2>3, <2>4, <2>5
  <2>6. CASE k # i
    BY <1>7, <2>1, <2>4, <2>6 DEF CourseInv, Tables, AttemptsRight
  <2>. QED BY <2>5, <2>6
<1>9. Tables'
  BY <1>2, <1>3, <1>8, CourseAssumption
     DEF CommitSubmit, CourseInv, Tables, PaidWhenDone, ClosesRight
<1>10. \A u \in Tabs \ {t} : \A p : p = req[u] => Fits(u, p)'
  BY <1>1, <1>2, <1>3, <1>7, OneTab, OthersFit DEF CommitSubmit
<1>11. paid' \in SUBSET Sources
  BY <1>3 DEF CourseInv, Types, Sources
<1>. QED BY <1>2, <1>7, <1>9, <1>10, <1>11, CommitStep DEF CommitSubmit, CourseInv, Types, Finish, Ends

LEMMA InsertAttemptInv ==
  ASSUME CourseInv, NEW t \in Tabs, InsertAttempt(t)
  PROVE  CourseInv'
<1>1. NewAttempt \in Attempt
  BY DEF NewAttempt, Attempt, Answers
<1>2. attempts \in Seq(Attempt)
  BY DEF CourseInv, Types
<1>3. /\ attempts' \in Seq(Attempt) /\ DOMAIN attempts' = 1..Len(attempts) + 1
      /\ DOMAIN attempts = 1..Len(attempts) /\ Len(attempts) \in Nat
      /\ \A k \in DOMAIN attempts : attempts'[k] = attempts[k]
      /\ attempts'[Len(attempts) + 1] = NewAttempt
  BY <1>1, <1>2, AppendProperties, LenProperties DEF InsertAttempt
<1>4. AttemptsRight'
  <2>1. /\ IsOpen(NewAttempt) => NewAttempt.answers = "blank" /\ NewAttempt.points = 0
        /\ NewAttempt.status # "passed" /\ Points(NewAttempt.answers) = NewAttempt.points
    BY DEF NewAttempt, IsOpen, Points
  <2>2. open' = open /\ paid' = paid
    BY DEF InsertAttempt
  <2> SUFFICES ASSUME NEW k \in DOMAIN attempts'
               PROVE  LET a == attempts'[k]
                      IN  /\ IsOpen(a) => a.answers = "blank" /\ a.points = 0
                          /\ a.status = "passed" =>
                               a.answers = "right" /\ a.points = 1 /\ Quiz \in paid'
                          /\ open' = 1 => Points(a.answers) = a.points
    BY DEF AttemptsRight, IsOpen, Points
  <2>3. CASE k = Len(attempts) + 1
    BY <1>3, <2>1, <2>3
  <2>4. CASE k \in DOMAIN attempts
    BY <1>3, <2>2, <2>4 DEF CourseInv, Tables, AttemptsRight
  <2>. QED BY <1>3, <2>3, <2>4
<1>5. Done' = Done
  BY DEF InsertAttempt, Done
<1>6. Tables'
  BY <1>4, <1>5 DEF InsertAttempt, CourseInv, Tables, PaidWhenDone, ClosesRight
<1>7. \A u \in Tabs \ {t} : \A p : p = req[u] => Fits(u, p)'
  <2>1. req[t].at # "idle"
    BY DEF InsertAttempt
  <2>2. DOMAIN attempts \subseteq DOMAIN attempts'
    BY <1>3
  <2>3. \A u \in Tabs : req[u].inserted => rows[req[u].lesson] = "absent"
    BY DEF CourseInv, Fits
  <2>. QED BY <1>5, <2>1, <2>2, <2>3, OneTab, OthersFit DEF InsertAttempt
<1>. QED BY <1>3, <1>6, <1>7, CommitStep DEF InsertAttempt, CourseInv, Types, Ends

LEMMA IssueInv ==
  ASSUME CourseInv, NEW t \in Tabs, Issue(t)
  PROVE  CourseInv'
<1>1. Done' = Done
  BY DEF Issue, Done
<1>2. Tables'
  BY <1>1 DEF Issue, CourseInv, Tables, PaidWhenDone, ClosesRight, AttemptsRight, IsOpen
<1>3. \A u \in Tabs \ {t} : \A p : p = req[u] => Fits(u, p)'
  <2>1. req[t].at # "idle"
    BY DEF Issue
  <2>2. \A u \in Tabs : req[u].inserted => rows[req[u].lesson] = "absent"
    BY DEF CourseInv, Fits
  <2>. QED BY <1>1, <2>1, <2>2, OneTab, OthersFit DEF Issue
<1>. QED BY <1>2, <1>3, CommitStep DEF Issue, CourseInv, Types, Finish, Ends

\* Nothing but the enrolment or the certificate changes: a learner enrols, a
\* certificate is revoked, or nothing happens.
LEMMA AsideInv ==
  ASSUME CourseInv, UNCHANGED <<open, percent, rows, paid, attempts, lock, req>>,
         enrolment' = enrolment \/ (enrolment = "none" /\ enrolment' = "active"),
         cert' \in {"none", "valid", "revoked"}
  PROVE  CourseInv'
<1>1. Done' = Done
  BY DEF Done
<1>2. Tables'
  BY <1>1 DEF CourseInv, Tables, PaidWhenDone, ClosesRight, AttemptsRight, IsOpen
<1>3. ASSUME NEW u \in Tabs, NEW p, p = req[u] PROVE Fits(u, p)'
  <2>1. Fits(u, p)
    BY <1>3 DEF CourseInv
  <2>2. FitsComplete(p) => FitsComplete(p)'
    BY <1>1 DEF FitsComplete, Past, Bare
  <2>3. FitsSubmit(p) => FitsSubmit(p)'
    BY DEF FitsSubmit, IsOpen
  <2>4. FitsClaim(p) => FitsClaim(p)'
    BY DEF FitsClaim, Bare
  <2>. QED BY <2>1, <2>2, <2>3, <2>4 DEF Fits, FitsIdle, FitsStart, FitsSave, Bare
<1>4. \A u \in Tabs : Fits(u, req[u])'
  BY <1>3
<1>. QED BY <1>2, <1>4 DEF CourseInv, Types, Statuses, LockHeld, InsertOnce

LEMMA AdvanceInv ==
  ASSUME CourseInv, NEW t \in Tabs, Advance(t)
  PROVE  CourseInv'
<1>1. CASE LoadRecord(t) \/ InsertRecord(t)
  BY <1>1, RecordInv
<1>2. CASE RecordConflict(t) \/ BreakDeadlock(t)
  BY <1>2, FinishInv DEF RecordConflict, BreakDeadlock, Keeps
<1>3. CASE FindPaid(t) \/ Grant(t)
  BY <1>3, PayInv
<1>. QED BY <1>1, <1>2, <1>3, CountInv, CountUsedInv, CommitCompleteInv, CommitPositionInv,
        CommitSubmitInv, InsertAttemptInv, IssueInv DEF Advance

LEMMA NextInv == CourseInv /\ [Next]_vars => CourseInv'
<1> SUFFICES ASSUME CourseInv, [Next]_vars PROVE CourseInv'
  OBVIOUS
<1>1. CASE Revoke \/ UNCHANGED vars
  BY <1>1, AsideInv DEF Revoke, vars, CourseInv, Types
<1>2. ASSUME NEW t \in Tabs, Begin(t) PROVE CourseInv'
  <2>1. CASE Enrol(t)
    BY <2>1, AsideInv DEF Enrol, CourseInv, Types
  <2>. QED BY <1>2, <2>1, BeginInv DEF Begin
<1>3. ASSUME NEW t \in Tabs, Rollback(t) PROVE CourseInv'
  BY <1>3, FinishInv DEF Rollback, Keeps
<1>. QED BY <1>1, <1>2, <1>3, AdvanceInv DEF Next

LEMMA SpecInv == Spec => []CourseInv
BY InitInv, NextInv, PTL DEF Spec

-----------------------------------------------------------------------------
\* What follows from the invariant.

\* Enrolment, progress, lessons, payments, attempts and certificate keep to the
\* values the tables allow.
THEOREM TypeCorrect == Spec => []TypeOK
<1>1. CourseInv => TypeOK
  <2> SUFFICES ASSUME CourseInv PROVE TypeOK
    OBVIOUS
  <2>1. \A i \in DOMAIN attempts : attempts[i] \in Attempt
    BY ElementOfSeq, LenProperties DEF CourseInv, Types
  <2>. QED BY <2>1 DEF CourseInv, Types, TypeOK, Statuses, Size, Attempt
<1>. QED BY <1>1, SpecInv, PTL

\* A course is closed by the transaction that completes its last lesson, and
\* only then, whatever the tabs do at the same time (complete_lesson and
\* _recompute_course_progress).
THEOREM ClosesWithLastLesson == Spec => []CourseClosesWithLastLesson
<1>1. CourseInv => CourseClosesWithLastLesson
  BY DEF CourseInv, Tables, ClosesRight, CourseClosesWithLastLesson
<1>. QED BY <1>1, SpecInv, PTL

\* A passed attempt holds the right answers, their points, and was paid; with one
\* tab every graded attempt agrees with its answers (submit).
THEOREM GradesHoldUp == Spec => []GradeHoldsUp
<1>1. CourseInv => GradeHoldsUp
  BY DEF CourseInv, Tables, AttemptsRight, GradeHoldsUp
<1>. QED BY <1>1, SpecInv, PTL

\* No step of any tab takes back a completed lesson, a closed course, a payment or
\* a revoked certificate, and none changes the grade of an attempt but the commit
\* of another submission of it, for which a second tab is needed (the commits of
\* learning_service.py, quiz_service.py and certificate_service.py).
THEOREM AchievementsStay == Spec => NothingTakenBack
<1> DEFINE Kept == /\ Done \subseteq Done' /\ paid \subseteq paid'
                   /\ enrolment = "completed" => enrolment' = "completed"
                   /\ \A i \in DOMAIN attempts : ~IsOpen(attempts[i]) =>
                        \/ attempts'[i] = attempts[i]
                        \/ open > 1 /\ Submitting(i) /\ ~IsOpen(attempts'[i])
                   /\ cert' # cert => \/ cert' = "valid" /\ cert = "none" /\ enrolment = "completed"
                                      \/ cert' = "revoked"
<1>1. ASSUME UNCHANGED <<enrolment, rows, paid, attempts, cert>> PROVE Kept
  BY <1>1 DEF Done
<1>2. ASSUME CourseInv, NEW t \in Tabs, Advance(t) PROVE Kept
  <2>1. CASE \/ LoadRecord(t) \/ InsertRecord(t) \/ RecordConflict(t) \/ FindPaid(t)
             \/ Grant(t) \/ RollUp(t) \/ CountUsed(t) \/ BreakDeadlock(t)
    BY <2>1, <1>1 DEF LoadRecord, InsertRecord, RecordConflict, FindPaid, Grant, RollUp,
       CountUsed, BreakDeadlock
  <2>2. CASE CommitComplete(t)
    BY <1>2, <2>2 DEF CommitComplete, Done, CourseInv, Types
  <2>3. CASE CommitPosition(t)
    <3>1. Done' = Done
      BY <1>2, <2>3, InsertedRow DEF CommitPosition, Done
    <3>. QED BY <2>3, <3>1 DEF CommitPosition
  <2>4. CASE CommitSubmit(t)
    <3>1. FitsSubmit(req[t])
      BY <1>2, <2>4 DEF CourseInv, CommitSubmit, Fits, FitsIdle, FitsStart, FitsClaim, FitsSave,
         FitsComplete, Saves
    <3>2. Done' = Done
      BY <1>2, <2>4, <3>1, InsertedRow DEF CommitSubmit, FitsSubmit, Done
    <3>3. \A i \in DOMAIN attempts :
            \/ attempts'[i] = attempts[i]
            \/ i = req[t].counted /\ attempts'[i] = Graded(attempts[i], req[t].answers)
      BY <1>2, <2>4 DEF CommitSubmit, CourseInv, Types
    <3>4. \A old, a : ~IsOpen(Graded(old, a))
      BY DEF Graded, IsOpen
    <3>5. Submitting(req[t].counted)
      BY <2>4 DEF CommitSubmit, Submitting
    <3>6. ~IsOpen(attempts[req[t].counted]) => open > 1
      BY <1>2, <3>1 DEF FitsSubmit, CourseInv, Types, Tabs
    <3>. QED BY <2>4, <3>2, <3>3, <3>4, <3>5, <3>6 DEF CommitSubmit
  <2>5. CASE InsertAttempt(t)
    <3>1. \A i \in DOMAIN attempts : attempts'[i] = attempts[i]
      BY <1>2, <2>5, AppendProperties, LenProperties DEF InsertAttempt, CourseInv, Types,
         NewAttempt, Attempt, Answers
    <3>. QED BY <2>5, <3>1 DEF InsertAttempt, Done
  <2>6. CASE Issue(t)
    <3>1. FitsClaim(req[t])
      BY <1>2, <2>6 DEF CourseInv, Issue, Fits, FitsIdle, FitsStart, FitsSave, FitsComplete, FitsSubmit
    <3>. QED BY <1>2, <2>6, <3>1 DEF Issue, FitsClaim, Done, CourseInv, Types
  <2>. QED BY <1>2, <2>1, <2>2, <2>3, <2>4, <2>5, <2>6 DEF Advance
<1>3. ASSUME CourseInv, NEW t \in Tabs, Begin(t) \/ Rollback(t) PROVE Kept
  <2>1. CASE Enrol(t)
    BY <2>1 DEF Enrol, Done
  <2>. QED BY <1>1, <1>3, <2>1 DEF Begin, ResumeQuiz, Claim, OpenLesson, Submit, Rollback
<1>4. ASSUME Revoke PROVE Kept
  BY <1>4 DEF Revoke, Done
<1> HIDE DEF Kept
<1>5. CourseInv /\ [Next]_vars => [Kept]_vars
  BY <1>2, <1>3, <1>4 DEF Next
<1>. QED BY <1>5, SpecInv, PTL DEF Spec, NothingTakenBack, Kept

-----------------------------------------------------------------------------
\* The limit on attempts.

FewStarters ==
  /\ IsFiniteSet(Starters) /\ Cardinality(Starters) \in Nat /\ Cardinality(Starters) <= open
  /\ open \in Nat /\ MaxAttempts \in Nat /\ Len(attempts) \in Nat

LEMMA StartersCounted == CourseInv => FewStarters
<1> SUFFICES ASSUME CourseInv PROVE FewStarters
  OBVIOUS
<1>1. open \in Nat /\ MaxAttempts \in Nat /\ Len(attempts) \in Nat
  BY CourseAssumption, LenProperties DEF CourseInv, Types, Tabs
<1>2. Starters \in SUBSET (1..open)
  BY <1>1 DEF CourseInv, Fits, Starters, Tabs
<1>3. IsFiniteSet(1..open) /\ Cardinality(1..open) = open
  BY <1>1, FS_Interval
<1>4. IsFiniteSet(Starters) /\ Cardinality(Starters) <= open
  BY <1>2, <1>3, FS_Subset
<1>. QED BY <1>1, <1>4, FS_CardinalityType DEF FewStarters

LEMMA StartersCountedNext == CourseInv' => FewStarters'
BY StartersCounted, PTL

\* A tab is about to insert an attempt only when it counted fewer than the limit,
\* and there is an attempt more only when one such tab is done.
LEMMA StarterStep ==
  ASSUME CourseInv, NEW t \in Tabs, Advance(t)
  PROVE  \/ Len(attempts') = Len(attempts) /\ Starters' \subseteq Starters
         \/ /\ attempts' = attempts /\ Len(attempts) < MaxAttempts
            /\ t \notin Starters /\ Starters' \subseteq Starters \cup {t}
         \/ /\ Len(attempts') = Len(attempts) + 1
            /\ t \in Starters /\ Starters' \subseteq Starters \ {t}
<1>1. req \in [Tabs -> Request] /\ attempts \in Seq(Attempt)
  BY DEF CourseInv, Types
<1>2. ASSUME NEW r, Step(t, r), r.at # "new" PROVE Starters' \subseteq Starters \ {t}
  BY <1>1, <1>2 DEF Step, Starters
<1>3. CASE LoadRecord(t)
  <2>1. AfterRecord(req[t]) # "new"
    BY DEF AfterRecord
  <2>. QED BY <1>1, <1>3, <2>1 DEF LoadRecord, Go, Step, Starters, Request
<1>4. CASE InsertRecord(t)
  <2>1. AfterRecord(req[t]) # "new"
    BY DEF AfterRecord
  <2>. QED BY <1>1, <1>4, <2>1 DEF InsertRecord, Step, Starters, Request
<1>5. CASE FindPaid(t) \/ Grant(t)
  <2>1. req[t].due \in Lessons \cup {Course, Quiz}
    BY <1>5 DEF FindPaid, Grant, CourseInv, Fits, FitsIdle, FitsStart, FitsClaim, FitsSave,
       FitsComplete, FitsSubmit
  <2>2. AfterGrant(req[t]) # "new"
    BY <2>1 DEF AfterGrant
  <2>3. CASE FindPaid(t)
    BY <1>1, <2>2, <2>3 DEF FindPaid, Go, Step, Starters, Request
  <2>4. CASE Grant(t)
    BY <1>1, <2>2, <2>4 DEF Grant, Step, Starters, Request
  <2>. QED BY <1>5, <2>3, <2>4
<1>6. CASE RollUp(t)
  BY <1>1, <1>6 DEF RollUp, Step, Starters, Request
<1>7. CASE CountUsed(t)
  <2>1. t \notin Starters
    BY <1>7 DEF CountUsed, Starters
  <2>2. CASE Len(attempts) >= MaxAttempts
    BY <1>2, <1>7, <2>2 DEF CountUsed, Idle
  <2>3. CASE ~(Len(attempts) >= MaxAttempts)
    <3>1. Len(attempts) < MaxAttempts
      BY <2>3, StartersCounted DEF FewStarters
    <3>. QED BY <1>1, <1>7, <2>1, <2>3, <3>1 DEF CountUsed, Step, Starters
  <2>. QED BY <2>2, <2>3
<1>8. CASE InsertAttempt(t)
  <2>1. t \in Starters
    BY <1>8 DEF InsertAttempt, Starters
  <2>2. Len(attempts') = Len(attempts) + 1
    BY <1>1, <1>8, AppendProperties DEF InsertAttempt, NewAttempt, Attempt, Answers
  <2>. QED BY <1>2, <1>8, <2>1, <2>2 DEF InsertAttempt, Idle
<1>9. CASE \/ RecordConflict(t) \/ BreakDeadlock(t) \/ Issue(t)
           \/ CommitComplete(t) \/ CommitPosition(t) \/ CommitSubmit(t)
  <2>1. Step(t, Idle) /\ Idle.at # "new"
    BY <1>9 DEF RecordConflict, BreakDeadlock, Issue, CommitComplete, CommitPosition,
       CommitSubmit, Finish, Idle
  <2>2. Len(attempts') = Len(attempts)
    BY <1>1, <1>9, LenProperties DEF RecordConflict, BreakDeadlock, Issue, CommitComplete,
       CommitPosition, CommitSubmit
  <2>. QED BY <1>2, <2>1, <2>2
<1>. QED BY <1>3, <1>4, <1>5, <1>6, <1>7, <1>8, <1>9 DEF Advance

LEMMA LimitStep ==
  ASSUME CourseInv, CourseInv', [Next]_vars, LimitInv
  PROVE  LimitInv'
<1>1. /\ IsFiniteSet(Starters) /\ Cardinality(Starters) \in Nat
      /\ Cardinality(Starters)' \in Nat /\ Cardinality(Starters)' <= open'
      /\ open \in Nat /\ MaxAttempts \in Nat
      /\ Len(attempts) \in Nat /\ Len(attempts)' \in Nat
  BY StartersCounted, StartersCountedNext DEF FewStarters
<1>2. open' = open
  <2>1. CASE \E t \in Tabs : Advance(t)
    BY <2>1 DEF Advance, LoadRecord, InsertRecord, RecordConflict, FindPaid, Grant,
       RollUp, CommitComplete, CommitPosition, CommitSubmit, CountUsed, InsertAttempt,
       Issue, BreakDeadlock
  <2>2. CASE Revoke \/ (\E t \in Tabs : Begin(t)) \/ UNCHANGED vars
    BY <2>2 DEF vars, Revoke, Begin, Enrol, ResumeQuiz, Claim, OpenLesson, Submit
  <2>3. CASE \E t \in Tabs : Rollback(t)
    BY <2>3 DEF Rollback
  <2> QED BY <2>1, <2>2, <2>3 DEF Next
<1>3. ASSUME Len(attempts') = Len(attempts), Starters' \subseteq Starters
      PROVE  LimitInv'
  <2>1. Cardinality(Starters') <= Cardinality(Starters)
    BY <1>1, <1>3, FS_Subset
  <2>. QED BY <1>1, <1>2, <1>3, <2>1 DEF LimitInv
<1>4. ASSUME NEW t \in Tabs, Advance(t) PROVE LimitInv'
  <2>1. CASE /\ attempts' = attempts /\ Len(attempts) < MaxAttempts
    BY <1>1, <1>2, <2>1 DEF LimitInv
  <2>2. CASE /\ Len(attempts') = Len(attempts) + 1
             /\ t \in Starters /\ Starters' \subseteq Starters \ {t}
    <3>1. /\ IsFiniteSet(Starters \ {t})
          /\ Cardinality(Starters \ {t}) = Cardinality(Starters) - 1
      BY <1>1, <2>2, FS_RemoveElement
    <3>2. Cardinality(Starters') <= Cardinality(Starters) - 1
      BY <2>2, <3>1, FS_Subset
    <3>. QED BY <1>1, <1>2, <2>2, <3>2 DEF LimitInv
  <2>. QED BY <1>3, <1>4, <2>1, <2>2, StarterStep
<1>5. ASSUME NEW t \in Tabs, Begin(t) \/ Rollback(t) PROVE LimitInv'
  <2>1. attempts' = attempts
    BY <1>5 DEF Begin, Enrol, ResumeQuiz, Claim, OpenLesson, Submit, Rollback
  <2>2. req' = req \/ \E r : Step(t, r) /\ r.at # "new"
    <3>1. CASE Enrol(t)
      BY <3>1 DEF Enrol
    <3>2. CASE ResumeQuiz(t) \/ Claim(t) \/ Rollback(t)
      <4> DEFINE q == [Idle EXCEPT !.op = "start", !.at = "used"]
                 r == [Idle EXCEPT !.op = "claim", !.at = "issue"]
      <4>1. Idle.at # "new" /\ q.at # "new" /\ r.at # "new"
        BY DEF Idle
      <4>2. Step(t, q) \/ Step(t, r) \/ Step(t, Idle)
        BY <3>2 DEF ResumeQuiz, Claim, Rollback, Finish
      <4> HIDE DEF q, r
      <4>. QED BY <4>1, <4>2
    <3>3. ASSUME NEW l, NEW op, OpenLesson(t, op, l)
          PROVE  \E r : Step(t, r) /\ r.at # "new"
      <4> DEFINE q == [Idle EXCEPT !.op = op, !.at = "record", !.lesson = l]
                 r == [Idle EXCEPT !.op = op, !.at = "record", !.lesson = l, !.due = l,
                                   !.status = enrolment, !.read = percent]
      <4>1. q.at # "new" /\ r.at # "new"
        BY DEF Idle
      <4>2. Step(t, q) \/ Step(t, r)
        BY <3>3 DEF OpenLesson
      <4> HIDE DEF q, r
      <4>. QED BY <4>1, <4>2
    <3>4. ASSUME NEW i, NEW a, Submit(t, i, a)
          PROVE  \E r : Step(t, r) /\ r.at # "new"
      <4> DEFINE r == [Idle EXCEPT !.op = "submit", !.counted = i, !.answers = a,
                         !.lesson = QuizLesson, !.due = Quiz,
                         !.at = IF Points(a) = 1 THEN "pay" ELSE "commit"]
      <4>1. r.at # "new"
        BY DEF Idle
      <4>2. Step(t, r)
        BY <3>4 DEF Submit
      <4> HIDE DEF r
      <4>. QED BY <4>1, <4>2
    <3>. QED BY <1>5, <3>1, <3>2, <3>3, <3>4 DEF Begin
  <2>3. Starters' \subseteq Starters
    BY <2>2 DEF Starters, Step, CourseInv, Types
  <2>. QED BY <1>3, <2>1, <2>3
<1>6. CASE Revoke \/ UNCHANGED vars
  <2>1. attempts' = attempts /\ Starters' = Starters
    BY <1>6 DEF Revoke, vars, Starters
  <2>. QED BY <1>3, <2>1
<1>. QED BY <1>4, <1>5, <1>6 DEF Next

\* A quiz allows no more attempts than its limit, and one more for every other
\* tab that counted before the first had inserted its own (start_attempt).
THEOREM LimitHolds == Spec => []AttemptLimitHolds
<1>1. Init => LimitInv
  <2> SUFFICES ASSUME Init PROVE LimitInv
    OBVIOUS
  <2>1. Starters = {} /\ Len(attempts) = 0
    BY DEF Init, Starters, Idle
  <2>2. Cardinality(Starters) = 0
    BY <2>1, FS_EmptySet
  <2>. QED BY <2>1, <2>2, CourseAssumption DEF Init, LimitInv, Tabs
<1>2. CourseInv /\ LimitInv => AttemptLimitHolds
  <2> SUFFICES ASSUME CourseInv, LimitInv PROVE AttemptLimitHolds
    OBVIOUS
  <2>. QED BY StartersCounted DEF FewStarters, LimitInv, AttemptLimitHolds
<1>. QED BY <1>1, <1>2, LimitStep, SpecInv, PTL DEF Spec
=============================================================================
