--------------------------- MODULE LabWorkspace ----------------------------
(***************************************************************************)
(* A learner at one lab: the page of pages/lab-page.tsx in the browser,    *)
(* the attempt rows of services/lab_service.py, and the requests between   *)
(* them.  The page autosaves its document, and saves before it asks for a  *)
(* check or a submission, which grade the document the *server* holds.     *)
(*                                                                         *)
(* A request is handled in a database session of its own: it loads the     *)
(* attempt, and commits later.  Requests overlap, none waits for another   *)
(* and no mutation is retried, so they commit in any order; a handler may  *)
(* fail, and a connection may break while its handler goes on.             *)
(*                                                                         *)
(* A document is a value, and a score is named by the document it was      *)
(* given to: documents with equal scores are not identified.               *)
(***************************************************************************)
EXTENDS Naturals, Sequences

CONSTANTS
  Docs,          \* topology documents
  Blank,         \* _starting_topology(lab)
  Solved,        \* the documents that reach the passing score
  Slots,         \* bound: so many requests at a time
  MaxAttempts,   \* bound on the attempt rows
  None

ASSUME DocAssumption   == Blank \in Docs /\ Solved \subseteq Docs
ASSUME BoundAssumption == MaxAttempts \in Nat
ASSUME NoneAssumption  == None \notin Docs \cup Slots

VARIABLES
  attempts,   \* the committed rows, oldest first
  requests,   \* what each slot carries
  page,       \* what the browser shows: the library, or the lab
  shown,      \* LabInner's attempt, an index of attempts
  doc,        \* editor.document
  dirty,      \* editor.isDirty
  pending,    \* the request each mutation, and the query, waits for
  grade,      \* the result the page announces: of a submission, as long as no check
              \* is answered after it; a check's own grade closes nothing
  cached,     \* the attempt in the query cache of the browser
  stale,      \* history: when the document last became clean, the answer that
              \* made it so was not the server's last word on it
  crossed     \* history: the attempts for which a save was sent while a request
              \* for another document of theirs was out

screenVars == <<page, shown, doc, dirty, pending, grade, cached, stale, crossed>>
vars == <<attempts, requests, screenVars>>

Statuses == {"in_progress", "passed", "failed"}
Attempt  == [number : 1..MaxAttempts, status : Statuses, doc : Docs,
             graded : Docs \cup {None}]      \* score_percent, check_results

\* "page": to the mounted component; "app": to the gradeNow of a component that
\* is gone, which goes on when its save is answered; "nobody": nothing in the
\* browser waits for it.
Addressees == {"page", "app", "nobody"}
Kinds      == {"start", "save", "check", "submit"}
Wishes     == {"nothing", "check", "submit"}     \* what gradeNow awaits a save for
Phases     == {"sent", "loaded", "done", "failed"}
Request ==
  [kind : Kinds, attempt : 0..MaxAttempts, doc : Docs \cup {None},
   then : Wishes, to : Addressees, phase : Phases,
   seen : Docs \cup {None},     \* the column it may write, as loaded
   meant : Docs]                \* history: what was on screen at the click

Idle == [kind |-> "idle"]

TypeOK ==
  /\ attempts \in Seq(Attempt) /\ Len(attempts) <= MaxAttempts
  /\ requests \in [Slots -> Request \cup {Idle}]
  /\ page \in {"library", "opening", "open"}
  /\ shown \in 0..Len(attempts)
  /\ doc \in Docs
  /\ dirty \in BOOLEAN
  /\ pending \in [Kinds -> Slots \cup {None}]
  /\ grade \in Docs \cup {None}
  /\ cached \in [attempt : 1..Len(attempts), doc : Docs] \cup {None}
  /\ stale \in BOOLEAN
  /\ crossed \subseteq 1..MaxAttempts
  /\ page = "open" => shown # 0

Init ==
  /\ attempts = <<>>
  /\ requests = [r \in Slots |-> Idle]
  /\ page = "library" /\ shown = 0 /\ doc = Blank /\ dirty = FALSE
  /\ pending = [k \in Kinds |-> None]
  /\ grade = None /\ cached = None
  /\ stale = FALSE /\ crossed = {}

\* A save, check or submission that is out: it may still reach the row, or its
\* answer the page.
Out(r) == requests[r] # Idle /\ requests[r].kind # "start" /\ requests[r].phase # "failed"
Busy(r, kind, phase) ==
  requests[r] # Idle /\ requests[r].kind = kind /\ requests[r].phase = phase

Message(kind, k, d, then, to, meant) ==
  [kind |-> kind, attempt |-> k, doc |-> d, then |-> then, to |-> to,
   phase |-> "sent", seen |-> None, meant |-> meant]

StartMessage == Message("start", 0, None, "nothing", "page", Blank)

\* Slots are alike: the first one CHOOSE finds free is as good as any.
FreeSlot(r) == requests[r] = Idle /\ r = CHOOSE q \in Slots : requests[q] = Idle
Forgotten(r) == [k \in Kinds |-> IF pending[k] = r THEN None ELSE pending[k]]

\* A request whose end nobody waits for any more.
Unheard(q) ==
  IF q # Idle /\ q.phase \in {"sent", "loaded"}
  THEN [q EXCEPT !.to = "nobody", !.then = "nothing"] ELSE Idle

\* The handler has ended, and there is an answer for whoever waits for it.
Ended(q, outcome) ==
  IF q.to = "nobody" THEN Idle ELSE [q EXCEPT !.phase = outcome, !.seen = None]

-----------------------------------------------------------------------------
\* The learner and the page.

\* The page is opened, with nothing in the query cache: startAttempt.
OpenLab(r) ==
  /\ page = "library" /\ cached = None /\ FreeSlot(r)
  /\ page' = "opening"
  /\ requests' = [requests EXCEPT ![r] = StartMessage]
  /\ pending' = [pending EXCEPT !["start"] = r]
  /\ stale' = \E q \in Slots : Out(q)
  /\ UNCHANGED <<attempts, shown, doc, dirty, grade, cached, crossed>>

\* The query retries a start that failed; giving up is Leave.
RetryStart(r) ==
  /\ page = "opening" /\ pending["start"] = None /\ FreeSlot(r)
  /\ requests' = [requests EXCEPT ![r] = StartMessage]
  /\ pending' = [pending EXCEPT !["start"] = r]
  /\ UNCHANGED <<attempts, page, shown, doc, dirty, grade, cached, stale, crossed>>

\* useTopologyEditor(attempt.workingTopology): a new LabInner.
Mount(k, d) ==
  /\ page' = "open"
  /\ shown' = k /\ doc' = d /\ dirty' = FALSE /\ grade' = None

\* The page is opened again while the attempt is still in the query cache:
\* staleTime is infinite and refetchOnMount off, so nothing is asked.
Reopen ==
  /\ page = "library" /\ cached # None
  /\ Mount(cached.attempt, cached.doc)
  /\ stale' = TRUE
  /\ UNCHANGED <<attempts, requests, pending, cached, crossed>>

\* Any edit, undo or redo (commit, applyTransient).
Edit(d) ==
  /\ page = "open" /\ d # doc
  /\ doc' = d /\ dirty' = TRUE
  /\ UNCHANGED <<attempts, requests, page, shown, pending, grade, cached, stale,
                 crossed>>

Crosses == \E q \in Slots :
  Out(q) /\ requests[q].attempt = shown /\ requests[q].meant # doc

Save(r, then) ==
  /\ FreeSlot(r)
  /\ requests' = [requests EXCEPT ![r] = Message("save", shown, doc, then, "page", doc)]
  /\ pending' = [pending EXCEPT !["save"] = r]
  /\ crossed' = IF Crosses THEN crossed \cup {shown} ELSE crossed

\* The timer of the autosave effect has run out.
Autosave(r) ==
  /\ page = "open" /\ dirty /\ pending["save"] = None
  /\ Save(r, "nothing")
  /\ UNCHANGED <<attempts, page, shown, doc, dirty, grade, cached, stale>>

GradeNowUnsaved(r, wish) ==     \* mutant: grading does not wait for a save
  /\ page = "open" /\ pending[wish] = None
  /\ grade = None
  /\ FreeSlot(r)
  /\ requests' = [requests EXCEPT ![r] =
       Message(wish, shown, None, "nothing", "page", doc)]
  /\ pending' = [pending EXCEPT ![wish] = r]
  /\ UNCHANGED <<attempts, page, shown, doc, dirty, grade, cached, stale, crossed>>

\* gradeNow: the button is disabled while its own mutation is pending and
\* once a submission was graded, not while the save it awaits is.
GradeNow(r, wish) ==
  /\ page = "open" /\ pending[wish] = None
  /\ grade = None
  /\ Save(r, wish)
  /\ UNCHANGED <<attempts, page, shown, doc, dirty, grade, cached, stale>>

\* The state of LabInner is gone.
Unmount ==
  /\ page' = "library" /\ shown' = 0 /\ doc' = Blank /\ dirty' = FALSE
  /\ pending' = [k \in Kinds |-> None]
  /\ grade' = None /\ stale' = FALSE

\* The component is unmounted.  Its callbacks change nothing any more, but a
\* gradeNow that awaits a save goes on.
\* Leaving before the lab has opened is modelled as a reload.
Leave ==
  /\ page = "open" \/ (page = "opening" /\ pending["start"] = None)
  /\ requests' = [r \in Slots |->
       IF requests[r] # Idle /\ requests[r].then # "nothing"
       THEN [requests[r] EXCEPT !.to = "app"] ELSE Unheard(requests[r])]
  /\ Unmount
  /\ UNCHANGED <<attempts, cached, crossed>>

\* The tab is refreshed, or closed and the site opened again.
Reload ==
  /\ page # "library" \/ cached # None
  /\ cached' = None
  /\ requests' = [r \in Slots |-> Unheard(requests[r])]
  /\ Unmount
  /\ UNCHANGED <<attempts, crossed>>

\* gcTime after the page was left, the cache forgets the attempt.
Evict ==
  /\ page = "library" /\ cached # None
  /\ cached' = None
  /\ UNCHANGED <<attempts, requests, page, shown, doc, dirty, pending, grade,
                 stale, crossed>>

-----------------------------------------------------------------------------
\* The server.

OpenAttempts == {k \in DOMAIN attempts : attempts[k].status = "in_progress"}

\* get_open_attempt: the open attempt with the highest number.
Latest(k) ==
  k \in OpenAttempts /\ \A j \in OpenAttempts : attempts[j].number <= attempts[k].number

\* start_attempt, up to its commit: resume the open attempt, or number a new one.
LoadStart(r) ==
  /\ Busy(r, "start", "sent")
  /\ \/ \E k \in DOMAIN attempts :
          /\ Latest(k)
          /\ requests' = [requests EXCEPT ![r] =
               Ended([@ EXCEPT !.attempt = k, !.doc = attempts[k].doc], "done")]
     \/ /\ OpenAttempts = {}
        /\ Len(attempts) < MaxAttempts
        /\ requests' = [requests EXCEPT ![r].phase = "loaded",
                                       ![r].attempt = Len(attempts) + 1]
  /\ UNCHANGED <<attempts, screenVars>>

CommitStart(r) ==
  /\ Busy(r, "start", "loaded")
  /\ Len(attempts) < MaxAttempts
  /\ attempts' = Append(attempts,
       [number |-> requests[r].attempt, status |-> "in_progress", doc |-> Blank,
        graded |-> None])
  /\ requests' = [requests EXCEPT ![r] =
       Ended([@ EXCEPT !.attempt = Len(attempts) + 1, !.doc = Blank], "done")]
  /\ UNCHANGED screenVars

Finish(r, outcome) == requests' = [requests EXCEPT ![r] = Ended(@, outcome)]

\* _own_attempt: a save, check or submit loads the attempt, which must be open.
LoadAttempt(r) ==
  /\ \E kind \in {"save", "check", "submit"} : Busy(r, kind, "sent")
  /\ LET row == attempts[requests[r].attempt] IN
     \/ /\ row.status = "in_progress"
        /\ requests' = [requests EXCEPT
             ![r].phase = "loaded",
             ![r].doc  = IF @ = None THEN row.doc ELSE @,
             ![r].seen = IF requests[r].kind = "save" THEN row.doc ELSE row.graded]
     \/ /\ row.status # "in_progress"      \* AttemptAlreadySubmitted
        /\ Finish(r, "failed")
  /\ UNCHANGED <<attempts, screenVars>>

\* The UPDATE names a column only when its value differs from the one loaded.
Written(r, old) == IF requests[r].doc # requests[r].seen THEN requests[r].doc ELSE old

CommitSave(r) ==
  /\ Busy(r, "save", "loaded")
  /\ attempts' = [attempts EXCEPT ![requests[r].attempt].doc = Written(r, @)]
  /\ Finish(r, "done")
  /\ UNCHANGED screenVars

CommitGrade(r) ==
  /\ \E kind \in {"check", "submit"} : Busy(r, kind, "loaded")
  /\ attempts' = [attempts EXCEPT
       ![requests[r].attempt].graded = Written(r, @),
       ![requests[r].attempt].status =
          CASE requests[r].kind = "check"  -> @
            [] requests[r].kind = "submit" ->
                 IF requests[r].doc \in Solved THEN "passed" ELSE "failed"]
  /\ Finish(r, "done")
  /\ UNCHANGED screenVars

\* An exception, a restart, a request that never arrives.
HandlerFails(r) ==
  /\ requests[r] # Idle /\ requests[r].phase \in {"sent", "loaded"}
  /\ Finish(r, "failed")
  /\ UNCHANGED <<attempts, screenVars>>

-----------------------------------------------------------------------------
\* What comes back.

\* fetch rejects, whatever becomes of the handler.
ConnectionLost(r) ==
  /\ requests[r] # Idle /\ requests[r].to # "nobody" /\ requests[r].phase # "failed"
  /\ requests' = [requests EXCEPT ![r] = Unheard(@)]
  /\ pending' = Forgotten(r)
  /\ UNCHANGED <<attempts, page, shown, doc, dirty, grade, cached, stale, crossed>>

RefusedMarksSaved(r) ==     \* mutant: markSaved in onSettled
  /\ requests[r] # Idle /\ requests[r].phase = "failed"
  /\ requests' = [requests EXCEPT ![r] = Idle]
  /\ pending' = Forgotten(r)
  /\ dirty' = (dirty /\ requests[r].kind # "save")
  /\ stale' = (stale /\ requests[r].kind # "save")
  /\ UNCHANGED <<attempts, page, shown, doc, grade, cached, crossed>>

RefusedStaysPending(r) ==     \* mutant: an error leaves the mutation pending
  /\ requests[r] # Idle /\ requests[r].phase = "failed"
  /\ requests' = [requests EXCEPT ![r] = Idle]
  /\ UNCHANGED <<attempts, screenVars>>

\* An error answer: the mutation is over, and gradeNow does not go on.
Refused(r) ==
  /\ requests[r] # Idle /\ requests[r].phase = "failed"
  /\ requests' = [requests EXCEPT ![r] = Idle]
  /\ pending' = Forgotten(r)
  /\ UNCHANGED <<attempts, page, shown, doc, dirty, grade, cached, stale, crossed>>

Answered(r, kind) == Busy(r, kind, "done")

Opened(r) ==
  /\ Answered(r, "start")
  /\ Mount(requests[r].attempt, requests[r].doc)
  /\ cached' = [attempt |-> requests[r].attempt, doc |-> requests[r].doc]
  /\ requests' = [requests EXCEPT ![r] = Idle]
  /\ pending' = Forgotten(r)
  /\ UNCHANGED <<attempts, stale, crossed>>

\* save's onSuccess: markSaved, whatever was edited since; then gradeNow goes on.
Saved(r) ==
  /\ Answered(r, "save")
  /\ LET q == requests[r] IN
     /\ dirty' = (dirty /\ q.to # "page")
     /\ stale' = IF q.to = "page" THEN doc # q.doc ELSE stale
     /\ requests' = [requests EXCEPT ![r] =
          IF q.then = "nothing" THEN Idle
          ELSE Message(q.then, q.attempt, None, "nothing",
                       IF q.to = "page" THEN "page" ELSE "nobody", q.meant)]
     /\ pending' = IF q.then = "nothing" \/ q.to # "page" THEN Forgotten(r)
                   ELSE [Forgotten(r) EXCEPT ![q.then] = r]
  /\ UNCHANGED <<attempts, page, shown, doc, grade, cached, crossed>>

GradedByAnyAnswer(r) ==     \* mutant: a check, too, ends the attempt on screen
  /\ \E kind \in {"check", "submit"} : Answered(r, kind)
  /\ grade' = requests[r].doc
  /\ requests' = [requests EXCEPT ![r] = Idle]
  /\ pending' = Forgotten(r)
  /\ UNCHANGED <<attempts, page, shown, doc, dirty, cached, stale, crossed>>

\* setGrade.  A check answers with the status it loaded, so that after a late one
\* the attempt looks open again.
Graded(r) ==
  /\ \E kind \in {"check", "submit"} : Answered(r, kind)
  /\ grade' = IF requests[r].kind = "submit" THEN requests[r].doc ELSE None
  /\ requests' = [requests EXCEPT ![r] = Idle]
  /\ pending' = Forgotten(r)
  /\ UNCHANGED <<attempts, page, shown, doc, dirty, cached, stale, crossed>>

-----------------------------------------------------------------------------
\* What happens to a request that is out, except for the connection.
Proceed(r) ==
  \/ LoadStart(r) \/ CommitStart(r)
  \/ LoadAttempt(r) \/ CommitSave(r) \/ CommitGrade(r) \/ HandlerFails(r)
  \/ Refused(r) \/ Opened(r) \/ Saved(r) \/ Graded(r)

Next ==
  \/ Reopen \/ Leave \/ Reload \/ Evict
  \/ \E d \in Docs : Edit(d)
  \/ \E r \in Slots :
       \/ OpenLab(r) \/ RetryStart(r) \/ Autosave(r)
       \/ \E wish \in {"check", "submit"} : GradeNow(r, wish)
       \/ Proceed(r) \/ ConnectionLost(r)

Spec == Init /\ [][Next]_vars

\* The timer fires and every request comes to an end; and when saves are tried
\* again and again, not all of them fail at the same point of their way.
SaveHeard(r) == requests[r] # Idle /\ requests[r].kind = "save" /\ requests[r].to = "page"
Fairness ==
  /\ WF_vars(\E r \in Slots : Autosave(r))
  /\ \A r \in Slots : WF_vars(Proceed(r))
  /\ SF_vars(\E r \in Slots : SaveHeard(r) /\ LoadAttempt(r))
  /\ SF_vars(\E r \in Slots : SaveHeard(r) /\ CommitSave(r))
  /\ SF_vars(\E r \in Slots : SaveHeard(r) /\ Saved(r))

FairSpec == Spec /\ Fairness

-----------------------------------------------------------------------------
\* "Work is autosaved": a page that reads "Saved" shows what the server holds.
SavedIsStored ==
  page = "open" /\ ~dirty /\ pending["save"] = None => attempts[shown].doc = doc

\* It does, however saves fail, are repeated or commit out of order, unless the
\* page was opened on an old copy, the save was answered after a later edit, or
\* saves of different documents were out at once.
SavedMeansSaved ==
  page = "open" /\ ~stale /\ shown \notin crossed => SavedIsStored

\* "Grading runs server-side against the saved document, so save first": a check
\* or a submission grades what was on the screen when it was clicked, whatever
\* was edited, left or opened again since, and the row of a closed attempt keeps
\* its document and its grade, unless saves crossed.
GradedIsShownWork ==
  /\ \A r \in Slots : \A kind \in {"check", "submit"} :
       Busy(r, kind, "loaded") /\ requests[r].attempt \notin crossed
         => requests[r].doc = requests[r].meant
  /\ \A k \in DOMAIN attempts \ crossed :
       attempts[k].status # "in_progress" => attempts[k].graded = attempts[k].doc

\* The page announces a result only for an attempt the server has closed, and,
\* unless saves crossed, with the grade it recorded, however checks and
\* submissions overlap.
AnnouncedIsRecorded ==
  page = "open" /\ grade # None =>
    /\ attempts[shown].status # "in_progress"
    /\ shown \notin crossed => attempts[shown].graded = grade

\* Work is autosaved: what was edited reaches the server in the end, failures and
\* all, unless the learner leaves the page, the attempt is closed, or one of the
\* two races marked the edit saved.
WorkIsSaved ==
  (page = "open" /\ dirty) ~>
    \/ page # "open"
    \/ attempts[shown].status # "in_progress"
    \/ attempts[shown].doc = doc
    \/ ~dirty /\ stale
    \/ shown \in crossed

\* "Reopening a lab resumes the open attempt": a page that opens shows an
\* attempt that is still open, with the document the server holds.
ReopeningResumesWork ==
  [][ page # "open" /\ page' = "open" =>
        /\ attempts[shown'].status = "in_progress"
        /\ attempts[shown'].doc = doc' ]_vars
=============================================================================
