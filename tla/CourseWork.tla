----------------------------- MODULE CourseWork -----------------------------
(***************************************************************************)
(* One learner at one course: enrolment, lessons, the quiz of a lesson and *)
(* the certificate (services/learning_service.py, quiz_service.py,         *)
(* certificate_service.py), worked on from one or more browser tabs.       *)
(*                                                                         *)
(* A tab has one request at a time, and a request is one database session: *)
(* what it loaded it does not read again, UPDATE names the columns that    *)
(* changed, an INSERT waits for an uncommitted row with the same unique    *)
(* key, and a row lock is held until the transaction ends.  The row lock   *)
(* that matters is the one on user_stats, which every flush that pays XP   *)
(* or records activity takes.  An action runs up to the next statement     *)
(* whose outcome another tab can change.                                   *)
(***************************************************************************)
EXTENDS Naturals, Sequences, FiniteSets

CONSTANTS
  MaxTabs,       \* the tabs the learner may have open
  Lessons,       \* the published lessons of the course
  QuizLesson,    \* the lesson that has the quiz
  MaxAttempts,   \* attempts the quiz allows
  Course, Quiz,  \* the other two sources of XP
  None           \* no tab, no lesson

Tabs == 1..MaxTabs

ASSUME CourseAssumption ==
  /\ QuizLesson \in Lessons /\ MaxAttempts \in Nat \ {0}
  /\ IsFiniteSet(Lessons) /\ Course \notin Lessons /\ Quiz \notin Lessons
  /\ Course # Quiz /\ None \notin Tabs \cup Lessons
  /\ MaxTabs \in Nat \ {0}

VARIABLES
  open,       \* how many tabs are in use, chosen once
  enrolment,  \* "none", "active" or "completed"
  percent,    \* the cached progress, as the number of lessons it counts
  rows,       \* the lesson_progress row of each lesson
  paid,       \* sources with a row in xp_transactions
  attempts,   \* the rows of quiz_attempts
  cert,       \* the certificate: "none", "valid" or "revoked"
  lock,       \* the tab whose transaction holds the user_stats row
  req         \* what the request of each tab has read and not yet committed

vars == <<open, enrolment, percent, rows, paid, attempts, cert, lock, req>>

Sources == Lessons \cup {Course, Quiz}
Answers == {"right", "blank"}

\* A request that is not there.
Idle == [op |-> "none", at |-> "idle", lesson |-> None, status |-> "none",
         read |-> 0, inserted |-> FALSE, due |-> None, granted |-> {},
         counted |-> 0, closes |-> FALSE, answers |-> "blank"]

Init ==
  /\ open \in Tabs
  /\ enrolment = "none" /\ percent = 0
  /\ rows = [l \in Lessons |-> "absent"]
  /\ paid = {} /\ attempts = <<>>
  /\ cert = "none"
  /\ lock = None
  /\ req = [t \in Tabs |-> Idle]

Done == {l \in Lessons : rows[l] = "completed"}

\* The request moves on with these fields changed.
Step(t, r) == req' = [req EXCEPT ![t] = r]
Go(t, at)  == Step(t, [req[t] EXCEPT !.at = at])

\* The transaction ends: the answer is sent, the lock released.
Finish(t) ==
  /\ Step(t, Idle)
  /\ lock' = IF lock = t THEN None ELSE lock

Locks(t) == lock \in {None, t}

-----------------------------------------------------------------------------
(* Enrolment and lessons *)

\* enroll: a new enrolment, or the one that is there.  Of two inserts the
\* unique index lets one through and the other reads what that one wrote.
Enrol(t) ==
  /\ t <= open /\ req[t].at = "idle"
  /\ enrolment' = IF enrolment = "none" THEN "active" ELSE enrolment
  /\ UNCHANGED <<open, percent, rows, paid, attempts, cert, lock, req>>

\* complete_lesson and save_position load the enrolment.  A position is saved
\* with time spent on the lesson, or without.
Saves == {"save", "timed"}
OpenLesson(t, op, l) ==
  /\ t <= open /\ req[t].at = "idle"
  /\ enrolment # "none"
  /\ Step(t, IF op \in Saves THEN [Idle EXCEPT !.op = op, !.at = "record", !.lesson = l]
             ELSE [Idle EXCEPT !.op = op, !.at = "record", !.lesson = l, !.due = l,
                               !.status = enrolment, !.read = percent])
  /\ UNCHANGED <<open, enrolment, percent, rows, paid, attempts, cert, lock>>

\* _get_or_create_progress and _mark_lesson_started load the row ...
AfterRecord(r) == CASE r.op = "complete" -> "pay"
                    [] OTHER             -> "commit"
LoadRecord(t) ==
  /\ req[t].at = "record"
  /\ Go(t, IF rows[req[t].lesson] = "absent" THEN "insert" ELSE AfterRecord(req[t]))
  /\ UNCHANGED <<open, enrolment, percent, rows, paid, attempts, cert, lock>>

\* ... or insert it, once nobody else is inserting the same.
InsertUnderWay(l) == \E t \in Tabs : req[t].inserted /\ req[t].lesson = l
InsertRecord(t) ==
  /\ req[t].at = "insert"
  /\ ~InsertUnderWay(req[t].lesson)
  /\ rows[req[t].lesson] = "absent"
  /\ Step(t, [req[t] EXCEPT !.inserted = TRUE, !.at = AfterRecord(req[t])])
  /\ UNCHANGED <<open, enrolment, percent, rows, paid, attempts, cert, lock>>

\* The unique index refuses the second row; nothing catches it, the request
\* is answered with an error and its transaction undone.
RecordConflict(t) ==
  /\ req[t].at = "insert"
  /\ rows[req[t].lesson] # "absent"
  /\ Finish(t)
  /\ UNCHANGED <<open, enrolment, percent, rows, paid, attempts, cert>>

\* grant_xp looks for the source in the ledger ...
AfterGrant(r) == CASE r.due \in Lessons -> "count"
                   [] r.due = Course    -> "commit"
                   [] r.due = Quiz      -> "record"
FindPaid(t) ==
  /\ req[t].at = "pay"
  /\ Go(t, IF req[t].due \in paid THEN AfterGrant(req[t]) ELSE "grant")
  /\ UNCHANGED <<open, enrolment, percent, rows, paid, attempts, cert, lock>>

\* ... and, when it is not there, flushes the new row with everything else
\* that waits to be written, which takes the lock on user_stats.
GrantUnlocked(t) ==     \* mutant: a grant that does not touch user_stats
  /\ req[t].at = "grant"
  /\ Step(t, [req[t] EXCEPT !.granted = @ \cup {req[t].due},
                            !.at = AfterGrant(req[t])])
  /\ UNCHANGED <<open, enrolment, percent, rows, paid, attempts, cert, lock>>

Grant(t) ==
  /\ req[t].at = "grant"
  /\ Locks(t) /\ lock' = t
  /\ Step(t, [req[t] EXCEPT !.granted = @ \cup {req[t].due},
                            !.at = AfterGrant(req[t])])
  /\ UNCHANGED <<open, enrolment, percent, rows, paid, attempts, cert>>

\* _recompute_course_progress counts the completed lessons, the one just
\* flushed included, and complete_lesson decides whether the course is done.
Counted(t) == Cardinality(Done \cup (req[t].granted \cap Lessons))
RollUp(t) ==
  /\ req[t].at = "count"
  /\ LET closes == Counted(t) >= Cardinality(Lessons) /\ req[t].status = "active"
         same   == Counted(t) = req[t].read
     IN  Step(t, [req[t] EXCEPT !.counted = IF same THEN 0 ELSE Counted(t),
                    !.read = IF same THEN 0 ELSE @,
                    !.closes = closes, !.status = "none",
                    !.due = IF closes THEN Course ELSE @,
                    !.at = IF closes THEN "pay" ELSE "commit"])
  /\ UNCHANGED <<open, enrolment, percent, rows, paid, attempts, cert, lock>>

\* The commit of complete_lesson: record_activity takes the lock if the grant
\* did not, and the columns that differ from what was loaded are written.
CommitWholeEnrolment(t) ==     \* mutant: the stale row is written back whole
  /\ req[t].at = "commit" /\ req[t].op = "complete"
  /\ Locks(t)
  /\ rows' = [rows EXCEPT ![req[t].lesson] = "completed"]
  /\ enrolment' = IF req[t].closes THEN "completed" ELSE "active"
  /\ percent' = req[t].counted
  /\ paid' = paid \cup req[t].granted
  /\ Finish(t)
  /\ UNCHANGED <<open, attempts, cert>>

CommitComplete(t) ==
  /\ req[t].at = "commit" /\ req[t].op = "complete"
  /\ Locks(t)
  /\ rows' = [rows EXCEPT ![req[t].lesson] = "completed"]
  /\ enrolment' = IF req[t].closes THEN "completed" ELSE enrolment
  /\ percent' = IF req[t].counted # req[t].read THEN req[t].counted ELSE percent
  /\ paid' = paid \cup req[t].granted
  /\ Finish(t)
  /\ UNCHANGED <<open, attempts, cert>>

\* The commit of save_position.  Time spent counts as activity, which takes the
\* lock.
CommitPosition(t) ==
  /\ req[t].at = "commit" /\ req[t].op \in Saves
  /\ req[t].op = "timed" => Locks(t)
  /\ rows' = IF req[t].inserted THEN [rows EXCEPT ![req[t].lesson] = "in_progress"]
                                ELSE rows
  /\ Finish(t)
  /\ UNCHANGED <<open, enrolment, percent, paid, attempts, cert>>

-----------------------------------------------------------------------------
(* The quiz *)

\* The attempts are numbered 1, 2, ...; get_open_attempt answers the last open.
IsOpen(a)  == a.status = "in_progress"
NewAttempt == [status |-> "in_progress", answers |-> "blank", points |-> 0]

\* start_attempt resumes the attempt that is open, or counts those used.
ResumeQuiz(t) ==
  /\ t <= open /\ req[t].at = "idle"
  /\ ~\E i \in DOMAIN attempts : IsOpen(attempts[i])
  /\ Step(t, [Idle EXCEPT !.op = "start", !.at = "used"])
  /\ UNCHANGED <<open, enrolment, percent, rows, paid, attempts, cert, lock>>

CountUsedOffByOne(t) ==     \* mutant: > for >=
  /\ req[t].at = "used"
  /\ Step(t, IF Len(attempts) > MaxAttempts THEN Idle
                                            ELSE [req[t] EXCEPT !.at = "new"])
  /\ UNCHANGED <<open, enrolment, percent, rows, paid, attempts, cert, lock>>

CountUsed(t) ==
  /\ req[t].at = "used"
  /\ Step(t, IF Len(attempts) >= MaxAttempts THEN Idle
                                             ELSE [req[t] EXCEPT !.at = "new"])
  /\ UNCHANGED <<open, enrolment, percent, rows, paid, attempts, cert, lock>>

InsertAttempt(t) ==
  /\ req[t].at = "new"
  /\ attempts' = Append(attempts, NewAttempt)
  /\ Step(t, Idle)
  /\ UNCHANGED <<open, enrolment, percent, rows, paid, cert, lock>>

\* submit: load an open attempt, grade the answers, pay if they pass.
Points(a) == IF a = "right" THEN 1 ELSE 0
Submit(t, i, a) ==
  /\ t <= open /\ req[t].at = "idle"
  /\ IsOpen(attempts[i])
  /\ Step(t, [Idle EXCEPT !.op = "submit", !.counted = i, !.answers = a,
                !.lesson = QuizLesson, !.due = Quiz,
                !.at = IF Points(a) = 1 THEN "pay" ELSE "commit"])
  /\ UNCHANGED <<open, enrolment, percent, rows, paid, attempts, cert, lock>>

GradedWithoutAnswers(old, a) ==     \* mutant: the answers are not stored
  [status |-> IF Points(a) = 1 THEN "passed" ELSE "failed",
   answers |-> old.answers, points |-> Points(a)]

\* The columns of the graded attempt that differ from those of an open one.
\* A passing request has created the row of the lesson if there was none.
Graded(old, a) ==
  [status  |-> IF Points(a) = 1 THEN "passed" ELSE "failed",
   answers |-> IF a # "blank" THEN a ELSE old.answers,
   points  |-> IF Points(a) # 0 THEN Points(a) ELSE old.points]

CommitSubmit(t) ==
  /\ req[t].at = "commit" /\ req[t].op = "submit"
  /\ Locks(t)
  /\ attempts' = [attempts EXCEPT ![req[t].counted] = Graded(@, req[t].answers)]
  /\ rows' = IF req[t].inserted THEN [rows EXCEPT ![QuizLesson] = "in_progress"]
                                ELSE rows
  /\ paid' = paid \cup req[t].granted
  /\ Finish(t)
  /\ UNCHANGED <<open, enrolment, percent, cert>>

-----------------------------------------------------------------------------
(* The certificate *)

\* issue: the certificate there is, or a new one for a completed course.
Claim(t) ==
  /\ t <= open /\ req[t].at = "idle"
  /\ cert = "none" /\ enrolment = "completed"
  /\ Step(t, [Idle EXCEPT !.op = "claim", !.at = "issue"])
  /\ UNCHANGED <<open, enrolment, percent, rows, paid, attempts, cert, lock>>

\* The insert, which the unique index refuses when another came first.
Issue(t) ==
  /\ req[t].at = "issue"
  /\ cert' = IF cert = "none" THEN "valid" ELSE cert
  /\ Finish(t)
  /\ UNCHANGED <<open, enrolment, percent, rows, paid, attempts>>

Revoke ==
  /\ cert = "valid"
  /\ cert' = "revoked"
  /\ UNCHANGED <<open, enrolment, percent, rows, paid, attempts, lock, req>>

-----------------------------------------------------------------------------
(* Failure *)

\* A tab whose next statement waits for another's transaction.
WaitsFor(t, u) ==
  /\ t # u
  /\ \/ req[t].at = "insert" /\ req[u].inserted /\ req[u].lesson = req[t].lesson
     \/ req[t].at \in {"grant", "commit"} /\ req[t].op # "save" /\ lock = u

NeverDeadlocked(t) == FALSE     \* mutant: nobody breaks the circle

\* get_db rolls back on any exception: of two transactions that wait for each
\* other PostgreSQL ends one, and any request may be cut off.
Deadlocked(t) == \E u \in Tabs : WaitsFor(t, u) /\ WaitsFor(u, t)
BreakDeadlock(t) ==
  /\ Deadlocked(t)
  /\ Finish(t)
  /\ UNCHANGED <<open, enrolment, percent, rows, paid, attempts, cert>>

Rollback(t) ==
  /\ req[t].at # "idle"
  /\ Finish(t)
  /\ UNCHANGED <<open, enrolment, percent, rows, paid, attempts, cert>>

\* The steps of a request under way.
Advance(t) ==
  \/ LoadRecord(t) \/ InsertRecord(t) \/ RecordConflict(t)
  \/ FindPaid(t) \/ Grant(t) \/ RollUp(t)
  \/ CommitComplete(t) \/ CommitPosition(t) \/ CommitSubmit(t)
  \/ CountUsed(t) \/ InsertAttempt(t) \/ Issue(t) \/ BreakDeadlock(t)

Begin(t) ==
  \/ Enrol(t) \/ ResumeQuiz(t) \/ Claim(t)
  \/ \E l \in Lessons, op \in {"complete"} \cup Saves : OpenLesson(t, op, l)
  \/ \E i \in DOMAIN attempts, a \in Answers : Submit(t, i, a)

Next == Revoke \/ \E t \in Tabs : Begin(t) \/ Advance(t) \/ Rollback(t)

Spec     == Init /\ [][Next]_vars
FairSpec == Spec /\ \A t \in Tabs : SF_vars(Advance(t))

-----------------------------------------------------------------------------
(* Properties *)

TypeOK ==
  /\ open \in Tabs
  /\ enrolment \in {"none", "active", "completed"}
  /\ percent \in 0..Cardinality(Lessons)
  /\ rows \in [Lessons -> {"absent", "in_progress", "completed"}]
  /\ paid \in SUBSET Sources
  /\ \A i \in DOMAIN attempts :
       /\ attempts[i].status \in {"in_progress", "passed", "failed"}
       /\ attempts[i].answers \in Answers
  /\ cert \in {"none", "valid", "revoked"}
  /\ lock \in Tabs \cup {None}
  /\ DOMAIN req = Tabs

\* The course is closed in the transaction that completes its last lesson, by
\* whichever tab and in whatever order; never before, and never opened again.
\* Nothing but the lock taken by the grant keeps two tabs that complete the
\* last two lessons from each counting one too few (complete_lesson).
CourseClosesWithLastLesson ==
  (enrolment = "completed") <=> (enrolment # "none" /\ Done = Lessons)

\* No more attempts than the quiz allows, and one more at most for each tab
\* beyond the first: a start counts the attempts before it inserts one.
AttemptLimitHolds == Len(attempts) <= MaxAttempts + open - 1

\* A passed attempt holds the answers and the points that passed, and was paid,
\* even if another tab submitted other answers for it; with one tab every
\* graded attempt can be graded again from its answers to the same result.
GradeHoldsUp ==
  \A i \in DOMAIN attempts :
    LET a == attempts[i]
    IN  /\ a.status = "passed" => a.answers = "right" /\ a.points = 1 /\ Quiz \in paid
        /\ open = 1 /\ ~IsOpen(a) => Points(a.answers) = a.points

\* A submission of attempt i that is about to commit; it found the attempt open.
Submitting(i) ==
  \E t \in Tabs : req[t].op = "submit" /\ req[t].at = "commit" /\ req[t].counted = i

\* What a learner has achieved is not taken back: a completed lesson, a closed
\* course, a paid source and a revoked certificate stay what they are, and a
\* certificate is issued only for a closed course.  A graded attempt is not opened
\* again, and with one tab its grade is final; with more of them another
\* submission of that attempt, and nothing else, may still grade it anew, and
\* then a pass can be lost (PassStays).
NothingTakenBack ==
  [][ /\ Done \subseteq Done' /\ paid \subseteq paid'
      /\ enrolment = "completed" => enrolment' = "completed"
      /\ \A i \in DOMAIN attempts : ~IsOpen(attempts[i]) =>
           \/ attempts'[i] = attempts[i]
           \/ open > 1 /\ Submitting(i) /\ ~IsOpen(attempts'[i])
      /\ cert' # cert =>
           \/ cert' = "valid" /\ cert = "none" /\ enrolment = "completed"
           \/ cert' = "revoked" ]_vars

\* "This attempt has already been submitted" (AttemptAlreadySubmitted): what was
\* passed stays passed.  It does not when another tab's submission found the
\* attempt open too and commits later (submit).
PassStays ==
  [][\A i \in DOMAIN attempts :
       attempts[i].status = "passed" => attempts'[i].status = "passed"]_vars

\* Every request ends, although a first visit that waits for user_stats and a
\* passed quiz that waits to insert the same lesson's row block each other.
RequestsAnswered == \A t \in Tabs : req[t].at # "idle" ~> req[t].at = "idle"
=============================================================================
