------------------------ MODULE LabWorkspace_proofs -------------------------
(***************************************************************************)
(* Proofs about LabWorkspace: for any documents, any number of requests at *)
(* a time and any number of attempts, whatever the learner does.           *)
(*                                                                         *)
(* As long as no saves of an attempt have crossed, all that is out for it  *)
(* was sent for one document (Agree), so the order in which it commits     *)
(* makes no difference.  WorkOK says what such a request may still write,  *)
(* RowStep what it then makes of the row.                                  *)
(***************************************************************************)
EXTENDS LabWorkspace, TLAPS

\* What is so of a save, check or submission q whatever has crossed.
RequestOK(q, rows) ==
  /\ q.attempt \in DOMAIN rows
  /\ q.to = "app" => q.kind = "save"
  /\ q.kind # "save" => q.then = "nothing"
  /\ q.phase = "done" => q.to # "nobody"
  /\ q.kind = "save" => q.doc = q.meant
  /\ q.kind # "save" /\ q.phase = "sent" => q.doc = None
  /\ q.kind # "save" /\ q.phase \in {"loaded", "done"} => q.doc \in Docs
  /\ q.kind = "submit" /\ q.phase = "done" => rows[q.attempt].status # "in_progress"

\* The document d it was sent for, and the row of its attempt, if nothing has.
WorkOK(q, d, row) ==
  /\ q.meant = d
  /\ q.kind # "save" => row.doc = d
  /\ q.kind # "save" /\ q.phase \in {"loaded", "done"} => q.doc = d
  /\ q.phase = "loaded" /\ q.kind = "save" /\ q.seen = d => row.doc = d
  /\ q.phase = "loaded" /\ q.kind # "save" /\ q.seen = d => row.graded = d
  /\ q.phase = "loaded" /\ row.status # "in_progress" => row.doc = d /\ row.graded = d
  /\ q.phase = "done" => row.doc = d
  /\ q.phase = "done" /\ q.kind # "save" => row.graded = d

\* What such a request may make of the row.
RowStep(row, new, d) ==
  /\ new.doc \in {row.doc, d}
  /\ new.graded \in {row.graded, d}
  /\ new.status # "in_progress" => new.doc = d /\ new.graded = d

\* The start request q in slot r, of a page p that waits for slot s.
StartOK(q, r, p, s, old, rows) ==
  /\ q.then = "nothing" /\ q.to \in {"page", "nobody"}
  /\ q.to = "page" => p = "opening" /\ s = r
  /\ q.to = "nobody" => q.phase \in {"sent", "loaded"}
  /\ q.phase = "loaded" => q.attempt # 0
  /\ q.phase = "done" =>
       /\ q.attempt \in DOMAIN rows /\ q.doc \in Docs
       /\ p = "opening" /\ ~old => rows[q.attempt].doc = q.doc

\* What a request q in slot r has to be like: a page p waits for slot s, shows
\* the attempt k, was opened on an old copy or not, and saves of cr have crossed.
SlotOK(q, r, p, s, k, old, cr, rows) ==
  q # Idle =>
    /\ q.kind = "start" => StartOK(q, r, p, s, old, rows)
    /\ q.kind # "start" =>
         /\ RequestOK(q, rows)
         /\ q.to = "page" => p = "open" /\ q.attempt = k
         /\ q.phase # "failed" /\ q.attempt \notin cr => WorkOK(q, q.meant, rows[q.attempt])

RequestsOK ==
  \A r \in Slots :
    SlotOK(requests[r], r, page, pending["start"], shown, stale, crossed, attempts)

Agree ==
  \A r, s \in Slots :
    Out(r) /\ Out(s) /\ requests[r].attempt = requests[s].attempt
      /\ requests[r].attempt \notin crossed
    => requests[r].meant = requests[s].meant

\* Nothing out will change what the server holds of the document on screen.
Settled ==
  /\ attempts[shown].doc = doc
  /\ \A q \in Slots : Out(q) /\ requests[q].attempt = shown => requests[q].meant = doc

ScreenOK ==
  /\ page # "open" => shown = 0
  /\ page = "opening" /\ ~stale => \A q \in Slots : ~Out(q)
  /\ page = "open" /\ ~dirty /\ ~stale /\ shown \notin crossed => Settled

ClosedKept ==
  \A k \in DOMAIN attempts \ crossed :
    attempts[k].status # "in_progress" => attempts[k].graded = attempts[k].doc

LabInv ==
  TypeOK /\ RequestsOK /\ Agree /\ ScreenOK /\ ClosedKept /\ AnnouncedIsRecorded

-----------------------------------------------------------------------------
(* Requests and rows *)

LEMMA IdleIsNoRequest == Idle \notin Request
BY DEF Idle, Request, Kinds

LEMMA MessageType ==
  ASSUME NEW kind \in Kinds, NEW k \in 0..MaxAttempts, NEW d \in Docs \cup {None},
         NEW then \in Wishes, NEW to \in Addressees, NEW meant \in Docs
  PROVE  /\ Message(kind, k, d, then, to, meant) \in Request
         /\ Message(kind, k, d, then, to, meant).kind = kind
         /\ Message(kind, k, d, then, to, meant).attempt = k
         /\ Message(kind, k, d, then, to, meant).doc = d
         /\ Message(kind, k, d, then, to, meant).then = then
         /\ Message(kind, k, d, then, to, meant).to = to
         /\ Message(kind, k, d, then, to, meant).meant = meant
         /\ Message(kind, k, d, then, to, meant).phase = "sent"
BY DEF Message, Request, Phases

LEMMA StartIsMessage ==
  /\ StartMessage \in Request /\ StartMessage.kind = "start"
  /\ StartMessage.phase = "sent" /\ StartMessage.to = "page" /\ StartMessage.then = "nothing"
<1>1. 0 \in 0..MaxAttempts /\ Blank \in Docs
  BY DocAssumption, BoundAssumption
<1> QED BY <1>1 DEF StartMessage, Message, Request, Phases, Kinds, Wishes, Addressees

LEMMA WorkLasts ==
  ASSUME NEW q \in Request, q.kind # "start", NEW d \in Docs,
         NEW row \in Attempt, NEW new \in Attempt,
         WorkOK(q, d, row), RowStep(row, new, d)
  PROVE  WorkOK(q, d, new)
BY DEF WorkOK, RowStep, Request, Kinds

LEMMA RowReplaced ==
  ASSUME NEW rows \in Seq(Attempt), NEW k \in DOMAIN rows, NEW new \in Attempt
  PROVE  /\ [rows EXCEPT ![k] = new] \in Seq(Attempt)
         /\ Len([rows EXCEPT ![k] = new]) = Len(rows)
         /\ DOMAIN [rows EXCEPT ![k] = new] = DOMAIN rows
         /\ [rows EXCEPT ![k] = new][k] = new
         /\ \A j \in DOMAIN rows \ {k} : [rows EXCEPT ![k] = new][j] = rows[j]
OBVIOUS

LEMMA RowAdded ==
  ASSUME NEW rows \in Seq(Attempt), NEW new \in Attempt
  PROVE  /\ Append(rows, new) \in Seq(Attempt)
         /\ Len(Append(rows, new)) = Len(rows) + 1
         /\ DOMAIN Append(rows, new) = DOMAIN rows \cup {Len(rows) + 1}
         /\ Append(rows, new)[Len(rows) + 1] = new
         /\ \A j \in DOMAIN rows : Append(rows, new)[j] = rows[j]
OBVIOUS

\* Forgetting a request leaves its work as it is.
LEMMA UnheardIs ==
  ASSUME NEW q \in Request \cup {Idle}
  PROVE  /\ Unheard(q) \in Request \cup {Idle}
         /\ Unheard(q) # Idle =>
              /\ q \in Request /\ q # Idle /\ Unheard(q) \in Request
              /\ q.phase \in {"sent", "loaded"}
              /\ Unheard(q).to = "nobody" /\ Unheard(q).then = "nothing"
              /\ Unheard(q).kind = q.kind /\ Unheard(q).phase = q.phase
              /\ Unheard(q).attempt = q.attempt /\ Unheard(q).doc = q.doc
              /\ Unheard(q).seen = q.seen /\ Unheard(q).meant = q.meant
<1>1. CASE q # Idle /\ q.phase \in {"sent", "loaded"}
  <2>1. q \in Request /\ Unheard(q) = [q EXCEPT !.to = "nobody", !.then = "nothing"]
    BY <1>1 DEF Unheard
  <2>2. Unheard(q) \in Request
    BY <2>1 DEF Request, Addressees, Wishes
  <2> QED BY <1>1, <2>1, <2>2 DEF Request
<1>2. CASE ~(q # Idle /\ q.phase \in {"sent", "loaded"})
  BY <1>2 DEF Unheard
<1> QED BY <1>1, <1>2

\* The end of a handler, as its caller hears of it.
LEMMA EndedIs ==
  ASSUME NEW q \in Request, NEW outcome \in Phases
  PROVE  /\ Ended(q, outcome) \in Request \cup {Idle}
         /\ Ended(q, outcome) # Idle =>
              /\ Ended(q, outcome) \in Request
              /\ Ended(q, outcome).to = q.to /\ q.to # "nobody"
              /\ Ended(q, outcome).then = q.then /\ Ended(q, outcome).kind = q.kind
              /\ Ended(q, outcome).phase = outcome
              /\ Ended(q, outcome).attempt = q.attempt /\ Ended(q, outcome).doc = q.doc
              /\ Ended(q, outcome).meant = q.meant
<1>1. CASE q.to = "nobody"
  BY <1>1 DEF Ended
<1>2. CASE q.to # "nobody"
  <2>1. Ended(q, outcome) = [q EXCEPT !.phase = outcome, !.seen = None]
    BY <1>2 DEF Ended
  <2> QED BY <1>2, <2>1 DEF Request
<1> QED BY <1>1, <1>2

-----------------------------------------------------------------------------
(* The steps *)

\* q is out, in a slot that held old, only if old was: the same work.
SameWork(old, q) ==
  q # Idle /\ q.kind # "start" /\ q.phase # "failed" =>
    /\ old # Idle /\ old.kind # "start" /\ old.phase # "failed"
    /\ q.attempt = old.attempt /\ q.meant = old.meant

LEMMA NoNewWork ==
  ASSUME Agree, \A s \in Slots : SameWork(requests[s], requests'[s]),
         crossed' = crossed
  PROVE  /\ Agree'
         /\ \A s \in Slots : Out(s)' =>
              Out(s) /\ requests'[s].attempt = requests[s].attempt
                     /\ requests'[s].meant = requests[s].meant
<1>1. \A s \in Slots : Out(s)' =>
        Out(s) /\ requests'[s].attempt = requests[s].attempt
               /\ requests'[s].meant = requests[s].meant
  BY DEF Out, SameWork
<1>2. Agree'
  BY <1>1 DEF Agree
<1> QED BY <1>1, <1>2

LEMMA SlotsMove ==
  ASSUME LabInv, NEW r \in Slots, NEW q, requests' = [requests EXCEPT ![r] = q],
         SameWork(requests[r], q)
  PROVE  /\ \A s \in Slots : SameWork(requests[s], requests'[s])
         /\ requests'[r] = q /\ \A s \in Slots \ {r} : requests'[s] = requests[s]
BY DEF LabInv, TypeOK, SameWork

\* A request moves on, and at most the states an answer sets change with it.
LEMMA AnswerMoves ==
  ASSUME LabInv, NEW r \in Slots, NEW q \in Request \cup {Idle},
         requests' = [requests EXCEPT ![r] = q], SameWork(requests[r], q),
         UNCHANGED <<attempts, page, shown, doc, cached, crossed>>,
         pending' \in [Kinds -> Slots \cup {None}],
         \A s \in Slots \ {r} : pending["start"] = s => pending'["start"] = s,
         dirty' \in BOOLEAN, stale' \in BOOLEAN, page # "open" => stale' = stale,
         SlotOK(q, r, page, pending'["start"], shown, stale', crossed, attempts),
         page = "open" /\ ~dirty' /\ ~stale' /\ shown \notin crossed => Settled,
         grade' \in Docs \cup {None},
         AnnouncedIsRecorded'
  PROVE  LabInv'
<1>1. TypeOK'
  BY DEF LabInv, TypeOK
<1>2. /\ \A s \in Slots : SameWork(requests[s], requests'[s])
      /\ requests'[r] = q /\ \A s \in Slots \ {r} : requests'[s] = requests[s]
  BY SlotsMove
<1>3. /\ Agree'
      /\ \A s \in Slots : Out(s)' =>
           Out(s) /\ requests'[s].attempt = requests[s].attempt
                  /\ requests'[s].meant = requests[s].meant
  BY <1>2, NoNewWork DEF LabInv
<1>4. RequestsOK'
  <2> SUFFICES ASSUME NEW s \in Slots
               PROVE  SlotOK(requests'[s], s, page, pending'["start"], shown, stale',
                             crossed, attempts)
    BY DEF RequestsOK
  <2>1. CASE s = r
    BY <1>2, <2>1
  <2>2. CASE s # r
    BY <1>2, <2>2 DEF LabInv, RequestsOK, StartOK, SlotOK
  <2> QED BY <2>1, <2>2
<1>5. ScreenOK'
  <2>1. Settled => Settled'
    BY <1>3 DEF Settled
  <2> QED BY <1>3, <2>1 DEF LabInv, ScreenOK
<1>6. ClosedKept'
  BY DEF LabInv, ClosedKept
<1> QED BY <1>1, <1>3, <1>4, <1>5, <1>6 DEF LabInv

LEMMA RequestMoves ==
  ASSUME LabInv, NEW r \in Slots, NEW q \in Request \cup {Idle},
         requests' = [requests EXCEPT ![r] = q], SameWork(requests[r], q),
         UNCHANGED <<attempts, page, shown, doc, dirty, grade, cached, stale, crossed>>,
         pending' \in [Kinds -> Slots \cup {None}],
         \A s \in Slots \ {r} : pending["start"] = s => pending'["start"] = s,
         SlotOK(q, r, page, pending'["start"], shown, stale, crossed, attempts)
  PROVE  LabInv'
<1>1. /\ dirty' \in BOOLEAN /\ stale' \in BOOLEAN
      /\ grade' \in Docs \cup {None}
  BY DEF LabInv, TypeOK
<1>2. page = "open" /\ ~dirty' /\ ~stale' /\ shown \notin crossed => Settled
  BY DEF LabInv, ScreenOK
<1>3. AnnouncedIsRecorded'
  BY DEF LabInv, AnnouncedIsRecorded
<1> QED BY <1>1, <1>2, <1>3, AnswerMoves

\* What is known of a request that is out.
LEMMA OutIsOK ==
  ASSUME LabInv, NEW r \in Slots, requests[r] # Idle
  PROVE  /\ requests[r] \in Request
         /\ SlotOK(requests[r], r, page, pending["start"], shown, stale, crossed, attempts)
         /\ requests[r].kind # "start" =>
              /\ requests[r].attempt \in DOMAIN attempts
              /\ attempts[requests[r].attempt] \in Attempt
              /\ RequestOK(requests[r], attempts)
<1>1. requests[r] \in Request
  BY DEF LabInv, TypeOK
<1>2. SlotOK(requests[r], r, page, pending["start"], shown, stale, crossed, attempts)
  BY DEF LabInv, RequestsOK
<1>3. \A k \in DOMAIN attempts : attempts[k] \in Attempt
  BY DEF LabInv, TypeOK
<1> QED BY <1>1, <1>2, <1>3 DEF SlotOK, RequestOK

LEMMA ForgottenStart ==
  ASSUME TypeOK, NEW r \in Slots
  PROVE  /\ Forgotten(r) \in [Kinds -> Slots \cup {None}]
         /\ \A s \in Slots \ {r} : pending["start"] = s => Forgotten(r)["start"] = s
BY DEF TypeOK, Forgotten, Kinds

LEMMA ShownIsRow ==
  ASSUME TypeOK, page = "open"
  PROVE  shown \in DOMAIN attempts /\ attempts[shown] \in Attempt
BY DEF TypeOK

-----------------------------------------------------------------------------
(* The learner *)

LEMMA OpenLabKeeps == ASSUME LabInv, NEW r \in Slots, OpenLab(r) PROVE LabInv'
<1>1. /\ StartMessage \in Request /\ StartMessage.kind = "start"
      /\ StartMessage.phase = "sent" /\ StartMessage.to = "page"
      /\ StartMessage.then = "nothing"
  BY StartIsMessage
<1>2. PICK b \in BOOLEAN : b = \E q \in Slots : Out(q)
  OBVIOUS
<1>3. /\ page = "library" /\ page' = "opening" /\ requests[r] = Idle
      /\ requests' = [requests EXCEPT ![r] = StartMessage]
      /\ pending' = [pending EXCEPT !["start"] = r] /\ stale' = b
      /\ UNCHANGED <<attempts, shown, doc, dirty, grade, cached, crossed>>
  BY <1>2 DEF OpenLab, FreeSlot
<1>4. SameWork(requests[r], StartMessage)
  BY <1>1 DEF SameWork
<1>5. /\ \A s \in Slots : SameWork(requests[s], requests'[s])
      /\ requests'[r] = StartMessage /\ \A s \in Slots \ {r} : requests'[s] = requests[s]
  BY <1>3, <1>4, SlotsMove
<1>6. Agree' /\ \A s \in Slots : Out(s)' => Out(s)
  BY <1>3, <1>5, NoNewWork DEF LabInv
<1>7. TypeOK'
  BY <1>1, <1>3 DEF LabInv, TypeOK, Kinds
<1>8. RequestsOK'
  <2> SUFFICES ASSUME NEW s \in Slots
               PROVE  SlotOK(requests'[s], s, page', pending'["start"], shown, stale',
                             crossed, attempts)
    BY <1>3 DEF RequestsOK
  <2>1. CASE s = r
    <3>1. pending'["start"] = r
      BY <1>3 DEF LabInv, TypeOK, Kinds
    <3> QED BY <1>1, <1>3, <1>5, <2>1, <3>1 DEF StartOK, SlotOK
  <2>2. CASE s # r
    BY <1>3, <1>5, <2>2 DEF LabInv, RequestsOK, StartOK, SlotOK
  <2> QED BY <2>1, <2>2
<1>9. ScreenOK' /\ ClosedKept' /\ AnnouncedIsRecorded'
  BY <1>2, <1>3, <1>6 DEF LabInv, ScreenOK, ClosedKept, AnnouncedIsRecorded
<1> QED BY <1>6, <1>7, <1>8, <1>9 DEF LabInv

LEMMA RetryStartKeeps == ASSUME LabInv, NEW r \in Slots, RetryStart(r) PROVE LabInv'
<1>1. /\ StartMessage \in Request /\ StartMessage.kind = "start"
      /\ StartMessage.phase = "sent" /\ StartMessage.to = "page"
      /\ StartMessage.then = "nothing"
  BY StartIsMessage
<1>2. /\ pending' \in [Kinds -> Slots \cup {None}] /\ pending'["start"] = r
      /\ pending["start"] \notin Slots
  BY NoneAssumption DEF RetryStart, LabInv, TypeOK, Kinds
<1>3. SlotOK(StartMessage, r, page, pending'["start"], shown, stale, crossed, attempts)
  BY <1>1, <1>2 DEF RetryStart, SlotOK, StartOK
<1>4. SameWork(requests[r], StartMessage)
  BY <1>1 DEF SameWork
<1> QED BY <1>1, <1>2, <1>3, <1>4, RequestMoves DEF RetryStart

LEMMA ReopenKeeps == ASSUME LabInv, Reopen PROVE LabInv'
<1>1. /\ page = "library" /\ page' = "open" /\ dirty' = FALSE /\ grade' = None
      /\ shown' = cached.attempt /\ doc' = cached.doc /\ stale' = TRUE
      /\ cached \in [attempt : 1..Len(attempts), doc : Docs]
      /\ UNCHANGED <<attempts, requests, pending, cached, crossed>>
  BY DEF Reopen, Mount, LabInv, TypeOK
<1>2. TypeOK'
  <2>1. shown' \in 0..Len(attempts) /\ shown' # 0 /\ doc' \in Docs
    BY <1>1 DEF LabInv, TypeOK
  <2> QED BY <1>1, <2>1 DEF LabInv, TypeOK
<1>3. RequestsOK'
  BY <1>1 DEF LabInv, RequestsOK, StartOK, SlotOK
<1>4. Agree' /\ ScreenOK' /\ ClosedKept' /\ AnnouncedIsRecorded'
  BY <1>1 DEF LabInv, Agree, Out, ScreenOK, ClosedKept, AnnouncedIsRecorded
<1> QED BY <1>2, <1>3, <1>4 DEF LabInv

LEMMA EditKeeps == ASSUME LabInv, NEW d \in Docs, Edit(d) PROVE LabInv'
<1>1. TypeOK'
  BY DEF Edit, LabInv, TypeOK
<1>2. RequestsOK' /\ Agree'
  BY DEF Edit, LabInv, RequestsOK, Agree, Out
<1>3. ScreenOK' /\ ClosedKept' /\ AnnouncedIsRecorded'
  BY DEF Edit, LabInv, ScreenOK, ClosedKept, AnnouncedIsRecorded
<1> QED BY <1>1, <1>2, <1>3 DEF LabInv

LEMMA SaveKeeps ==
  ASSUME LabInv, NEW r \in Slots, NEW then \in Wishes, page = "open", Save(r, then),
         UNCHANGED <<attempts, page, shown, doc, dirty, grade, cached, stale>>
  PROVE  LabInv'
<1> DEFINE q == Message("save", shown, doc, then, "page", doc)
<1>1. shown \in 0..MaxAttempts /\ doc \in Docs /\ shown \in DOMAIN attempts
      /\ shown \in 1..MaxAttempts
  BY BoundAssumption DEF LabInv, TypeOK
<1>2. /\ q \in Request /\ q # Idle /\ q.kind = "save" /\ q.phase = "sent" /\ q.to = "page"
      /\ q.attempt = shown /\ q.doc = doc /\ q.meant = doc
  BY <1>1, MessageType, IdleIsNoRequest DEF Kinds, Addressees
<1>3. requests' = [requests EXCEPT ![r] = q] /\ requests[r] = Idle
  BY DEF Save, FreeSlot
<1> HIDE DEF q
<1>4. /\ pending' \in [Kinds -> Slots \cup {None}] /\ pending'["start"] = pending["start"]
      /\ crossed \subseteq crossed' /\ crossed' \subseteq crossed \cup {shown}
      /\ Crosses => shown \in crossed'
  BY DEF Save, LabInv, TypeOK, Kinds
<1>5. requests'[r] = q /\ \A s \in Slots \ {r} : requests'[s] = requests[s]
  BY <1>3 DEF LabInv, TypeOK
<1>6. \A s \in Slots \ {r} :
        Out(s)' /\ requests'[s].attempt = shown /\ shown \notin crossed'
          => requests'[s].meant = doc
  BY <1>4, <1>5 DEF Crosses, Out
<1>7. TypeOK'
  BY <1>1, <1>2, <1>3, <1>4 DEF LabInv, TypeOK
<1>8. RequestsOK'
  <2> SUFFICES ASSUME NEW s \in Slots
               PROVE  SlotOK(requests'[s], s, page, pending'["start"], shown, stale,
                             crossed', attempts)
    BY DEF RequestsOK
  <2>1. CASE s = r
    BY <1>1, <1>2, <1>5, <2>1 DEF SlotOK, RequestOK, WorkOK
  <2>2. CASE s # r
    BY <1>4, <1>5, <2>2 DEF LabInv, RequestsOK, SlotOK
  <2> QED BY <2>1, <2>2
<1>9. Agree'
  <2> SUFFICES ASSUME NEW s \in Slots, NEW t \in Slots, Out(s)', Out(t)',
                      requests'[s].attempt = requests'[t].attempt,
                      requests'[s].attempt \notin crossed'
               PROVE  requests'[s].meant = requests'[t].meant
    BY DEF Agree
  <2>1. CASE s = r \/ t = r
    BY <1>2, <1>5, <1>6, <2>1
  <2>2. CASE s # r /\ t # r
    BY <1>4, <1>5, <2>2 DEF LabInv, Agree, Out
  <2> QED BY <2>1, <2>2
<1>10. ScreenOK'
  BY <1>2, <1>4, <1>5, <1>6 DEF LabInv, ScreenOK, Settled
<1>11. ClosedKept' /\ AnnouncedIsRecorded'
  BY <1>4 DEF LabInv, ClosedKept, AnnouncedIsRecorded
<1> QED BY <1>7, <1>8, <1>9, <1>10, <1>11 DEF LabInv

\* The page is left or reloaded: a request goes on for a gradeNow, or unheard.
LEMMA GoneKeeps ==
  ASSUME LabInv, Unmount, UNCHANGED <<attempts, crossed>>, cached' \in {cached, None},
         requests' \in [Slots -> Request \cup {Idle}],
         \A s \in Slots :
           \/ requests'[s] = Unheard(requests[s])
           \/ /\ requests[s] # Idle /\ requests[s].then # "nothing"
              /\ requests'[s] = [requests[s] EXCEPT !.to = "app"]
  PROVE  LabInv'
<1>1. /\ page' = "library" /\ shown' = 0 /\ doc' = Blank /\ dirty' = FALSE
      /\ pending' \in [Kinds -> Slots \cup {None}] /\ grade' = None /\ stale' = FALSE
  BY DEF Unmount
<1>2. ASSUME NEW s \in Slots, requests'[s] # Idle
      PROVE  /\ requests[s] # Idle /\ requests[s] \in Request
             /\ requests'[s].kind = requests[s].kind /\ requests'[s].phase = requests[s].phase
             /\ requests'[s].attempt = requests[s].attempt /\ requests'[s].doc = requests[s].doc
             /\ requests'[s].seen = requests[s].seen /\ requests'[s].meant = requests[s].meant
             /\ \/ /\ requests'[s].to = "nobody" /\ requests'[s].then = "nothing"
                   /\ requests[s].phase \in {"sent", "loaded"}
                \/ /\ requests'[s].to = "app" /\ requests'[s].then = requests[s].then
                   /\ requests[s].then # "nothing"
  <2>1. requests[s] \in Request \cup {Idle}
    BY DEF LabInv, TypeOK
  <2>2. CASE requests'[s] = Unheard(requests[s])
    BY <1>2, <2>1, <2>2, UnheardIs
  <2>3. CASE /\ requests[s] # Idle /\ requests[s].then # "nothing"
             /\ requests'[s] = [requests[s] EXCEPT !.to = "app"]
    BY <2>1, <2>3 DEF Request
  <2> QED BY <2>2, <2>3
<1>3. TypeOK'
  <2>1. shown' \in 0..Len(attempts')
    BY <1>1 DEF LabInv, TypeOK
  <2> QED BY <1>1, <2>1, DocAssumption DEF LabInv, TypeOK
<1>4. RequestsOK'
  <2> SUFFICES ASSUME NEW s \in Slots, requests'[s] # Idle
               PROVE  SlotOK(requests'[s], s, page', pending'["start"], shown', stale',
                             crossed, attempts)
    BY DEF RequestsOK, SlotOK
  <2>1. SlotOK(requests[s], s, page, pending["start"], shown, stale, crossed, attempts)
    BY <1>2, OutIsOK
  <2>2. CASE requests[s].kind = "start"
    BY <1>1, <1>2, <2>1, <2>2 DEF SlotOK, StartOK
  <2>3. CASE requests[s].kind # "start"
    <3>1. RequestOK(requests[s], attempts)
      BY <1>2, <2>1, <2>3 DEF SlotOK
    <3>2. RequestOK(requests'[s], attempts)
      BY <1>2, <3>1 DEF RequestOK
    <3>3. requests[s].phase # "failed" /\ requests[s].attempt \notin crossed
            => WorkOK(requests'[s], requests'[s].meant, attempts[requests'[s].attempt])
      BY <1>2, <2>1, <2>3 DEF SlotOK, WorkOK
    <3> QED BY <1>2, <2>3, <3>2, <3>3 DEF SlotOK
  <2> QED BY <2>2, <2>3
<1>5. Agree'
  <2>1. \A s \in Slots : SameWork(requests[s], requests'[s])
    BY <1>2 DEF SameWork
  <2> QED BY <2>1, NoNewWork DEF LabInv
<1>6. ScreenOK' /\ ClosedKept' /\ AnnouncedIsRecorded'
  BY <1>1 DEF LabInv, ScreenOK, ClosedKept, AnnouncedIsRecorded
<1> QED BY <1>3, <1>4, <1>5, <1>6 DEF LabInv

LEMMA LeaveKeeps == ASSUME LabInv, Leave PROVE LabInv'
<1>1. ASSUME NEW s \in Slots
      PROVE  /\ requests'[s] \in Request \cup {Idle}
             /\ \/ requests'[s] = Unheard(requests[s])
                \/ /\ requests[s] # Idle /\ requests[s].then # "nothing"
                   /\ requests'[s] = [requests[s] EXCEPT !.to = "app"]
  <2>1. requests[s] \in Request \cup {Idle}
    BY DEF LabInv, TypeOK
  <2>2. CASE requests[s] # Idle /\ requests[s].then # "nothing"
    <3>1. requests'[s] = [requests[s] EXCEPT !.to = "app"]
      BY <2>2 DEF Leave
    <3> QED BY <2>1, <2>2, <3>1 DEF Request, Addressees
  <2>3. CASE ~(requests[s] # Idle /\ requests[s].then # "nothing")
    <3>1. requests'[s] = Unheard(requests[s])
      BY <2>3 DEF Leave
    <3> QED BY <2>1, <3>1, UnheardIs
  <2> QED BY <2>2, <2>3
<1>2. DOMAIN requests' = Slots /\ requests' = [s \in Slots |-> requests'[s]]
  BY DEF Leave
<1>3. requests' \in [Slots -> Request \cup {Idle}]
  BY <1>1, <1>2
<1> QED BY <1>1, <1>3, GoneKeeps DEF Leave

LEMMA ReloadKeeps == ASSUME LabInv, Reload PROVE LabInv'
<1>1. \A s \in Slots : requests'[s] = Unheard(requests[s])
  BY DEF Reload
<1>2. \A s \in Slots : requests'[s] \in Request \cup {Idle}
  BY <1>1, UnheardIs DEF LabInv, TypeOK
<1>3. requests' \in [Slots -> Request \cup {Idle}]
  BY <1>2 DEF Reload
<1> QED BY <1>1, <1>3, GoneKeeps DEF Reload

LEMMA EvictKeeps == ASSUME LabInv, Evict PROVE LabInv'
<1>1. TypeOK'
  BY DEF Evict, LabInv, TypeOK
<1>2. RequestsOK' /\ Agree'
  BY DEF Evict, LabInv, RequestsOK, Agree, Out
<1>3. ScreenOK' /\ ClosedKept' /\ AnnouncedIsRecorded'
  BY DEF Evict, LabInv, ScreenOK, Settled, Out, ClosedKept, AnnouncedIsRecorded
<1> QED BY <1>1, <1>2, <1>3 DEF LabInv

-----------------------------------------------------------------------------
(* The server *)

LEMMA LoadStartKeeps == ASSUME LabInv, NEW r \in Slots, LoadStart(r) PROVE LabInv'
<1>1. /\ requests[r] \in Request /\ requests[r].kind = "start" /\ requests[r] # Idle
      /\ requests[r].phase = "sent"
      /\ SlotOK(requests[r], r, page, pending["start"], shown, stale, crossed, attempts)
  BY OutIsOK DEF LoadStart, Busy
<1>2. pending \in [Kinds -> Slots \cup {None}]
  BY DEF LabInv, TypeOK
<1>3. UNCHANGED <<attempts, screenVars>>
  BY DEF LoadStart
<1>4. ASSUME NEW k \in DOMAIN attempts,
             requests' = [requests EXCEPT ![r] =
               Ended([@ EXCEPT !.attempt = k, !.doc = attempts[k].doc], "done")]
      PROVE  LabInv'
  <2> DEFINE p == [requests[r] EXCEPT !.attempt = k, !.doc = attempts[k].doc]
             q == Ended(p, "done")
  <2>1. attempts[k].doc \in Docs /\ k \in 0..MaxAttempts
    <3>1. attempts[k] \in Attempt /\ k \in 1..Len(attempts) /\ Len(attempts) <= MaxAttempts
      BY DEF LabInv, TypeOK
    <3>2. Len(attempts) \in Nat
      BY DEF LabInv, TypeOK
    <3> QED BY <3>1, <3>2, BoundAssumption DEF Attempt
  <2>2. /\ p \in Request /\ p.kind = "start" /\ p.to = requests[r].to
        /\ p.attempt = k /\ p.doc = attempts[k].doc /\ p.then = requests[r].then
    BY <1>1, <2>1 DEF Request
  <2>3. requests' = [requests EXCEPT ![r] = q]
    BY <1>4 DEF LabInv, TypeOK
  <2> HIDE DEF p
  <2>4. /\ q \in Request \cup {Idle}
        /\ q # Idle => /\ q.kind = "start" /\ q.to = requests[r].to /\ q.to # "nobody"
                       /\ q.then = requests[r].then /\ q.phase = "done"
                       /\ q.attempt = k /\ q.doc = attempts[k].doc
    BY <2>2, EndedIs DEF Phases
  <2> HIDE DEF q
  <2>5. SlotOK(q, r, page, pending["start"], shown, stale, crossed, attempts)
    BY <1>1, <2>1, <2>4 DEF SlotOK, StartOK
  <2>6. SameWork(requests[r], q)
    BY <2>4 DEF SameWork
  <2> QED BY <1>2, <1>3, <2>3, <2>4, <2>5, <2>6, RequestMoves DEF screenVars
<1>5. ASSUME Len(attempts) < MaxAttempts,
             requests' = [requests EXCEPT ![r].phase = "loaded",
                                         ![r].attempt = Len(attempts) + 1]
      PROVE  LabInv'
  <2> DEFINE q == [requests[r] EXCEPT !.phase = "loaded", !.attempt = Len(attempts) + 1]
  <2>1. Len(attempts) + 1 \in 0..MaxAttempts /\ Len(attempts) + 1 # 0
    BY <1>5, BoundAssumption DEF LabInv, TypeOK
  <2>2. /\ q \in Request /\ q # Idle /\ q.kind = "start" /\ q.to = requests[r].to
        /\ q.phase = "loaded" /\ q.attempt # 0 /\ q.then = requests[r].then
    BY <1>1, <2>1, IdleIsNoRequest DEF Request, Phases
  <2>3. requests' = [requests EXCEPT ![r] = q]
    BY <1>5 DEF LabInv, TypeOK
  <2> HIDE DEF q
  <2>4. SlotOK(q, r, page, pending["start"], shown, stale, crossed, attempts)
    BY <1>1, <2>1, <2>2 DEF SlotOK, StartOK
  <2>5. SameWork(requests[r], q)
    BY <2>2 DEF SameWork
  <2> QED BY <1>2, <1>3, <2>2, <2>3, <2>4, <2>5, RequestMoves DEF screenVars
<1> QED BY <1>4, <1>5 DEF LoadStart

LEMMA CommitStartKeeps == ASSUME LabInv, NEW r \in Slots, CommitStart(r) PROVE LabInv'
<1> DEFINE n   == Len(attempts) + 1
           row == [number |-> requests[r].attempt, status |-> "in_progress",
                   doc |-> Blank, graded |-> None]
           p   == [requests[r] EXCEPT !.attempt = n, !.doc = Blank]
           q   == Ended(p, "done")
<1>1. /\ requests[r] \in Request /\ requests[r].kind = "start" /\ requests[r] # Idle
      /\ SlotOK(requests[r], r, page, pending["start"], shown, stale, crossed, attempts)
      /\ requests[r].phase = "loaded"
  BY OutIsOK DEF CommitStart, Busy
<1>2. requests[r].attempt \in 1..MaxAttempts
  BY <1>1, BoundAssumption DEF SlotOK, StartOK, Request
<1>3. row \in Attempt /\ row.status = "in_progress" /\ row.doc = Blank
  BY <1>2, DocAssumption DEF Attempt, Statuses
<1>4. n \in 0..MaxAttempts /\ n # 0 /\ attempts \in Seq(Attempt)
  BY BoundAssumption DEF CommitStart, LabInv, TypeOK
<1>5. /\ p \in Request /\ p.kind = "start" /\ p.to = requests[r].to
      /\ p.attempt = n /\ p.doc = Blank /\ p.then = requests[r].then
  BY <1>1, <1>4, DocAssumption DEF Request
<1>6. /\ attempts' = Append(attempts, row) /\ requests' = [requests EXCEPT ![r] = q]
      /\ UNCHANGED screenVars
  BY <1>4 DEF CommitStart, LabInv, TypeOK
<1> HIDE DEF row, p
<1>7. /\ q \in Request \cup {Idle}
      /\ q # Idle => /\ q.kind = "start" /\ q.to = requests[r].to /\ q.to # "nobody"
                     /\ q.then = requests[r].then /\ q.phase = "done"
                     /\ q.attempt = n /\ q.doc = Blank
  BY <1>5, EndedIs DEF Phases
<1> HIDE DEF q
<1>8. /\ attempts' \in Seq(Attempt) /\ Len(attempts') = n
      /\ DOMAIN attempts' = DOMAIN attempts \cup {n} /\ attempts'[n] = row
      /\ \A j \in DOMAIN attempts : attempts'[j] = attempts[j]
  BY <1>3, <1>4, <1>6, RowAdded
<1>9. /\ \A s \in Slots : SameWork(requests[s], requests'[s])
      /\ requests'[r] = q /\ \A s \in Slots \ {r} : requests'[s] = requests[s]
  <2>1. SameWork(requests[r], q)
    BY <1>7 DEF SameWork
  <2> QED BY <1>6, <2>1, SlotsMove
<1>10. TypeOK'
  <2>1. Len(attempts') <= MaxAttempts /\ Len(attempts) \in Nat /\ Len(attempts') = Len(attempts) + 1
    BY <1>4, <1>8, BoundAssumption
  <2>2. /\ shown \in 0..Len(attempts')
        /\ cached \in [attempt : 1..Len(attempts'), doc : Docs] \cup {None}
    BY <2>1 DEF LabInv, TypeOK
  <2>3. requests' \in [Slots -> Request \cup {Idle}]
    BY <1>6, <1>7 DEF LabInv, TypeOK
  <2> QED BY <1>6, <1>8, <2>1, <2>2, <2>3 DEF LabInv, TypeOK, screenVars
<1> HIDE DEF n
<1>11. page = "open" => shown \in DOMAIN attempts /\ attempts'[shown] = attempts[shown]
  BY <1>8, ShownIsRow DEF LabInv
<1>12. RequestsOK'
  <2> SUFFICES ASSUME NEW s \in Slots
               PROVE  SlotOK(requests'[s], s, page, pending["start"], shown, stale,
                             crossed, attempts')
    BY <1>6 DEF RequestsOK, screenVars
  <2>1. CASE s = r
    BY <1>1, <1>3, <1>7, <1>8, <1>9, <2>1, DocAssumption DEF SlotOK, StartOK
  <2>2. CASE s # r
    <3>1. requests'[s] = requests[s]
      BY <1>9, <2>2
    <3>2. SlotOK(requests[s], s, page, pending["start"], shown, stale, crossed, attempts)
      BY DEF LabInv, RequestsOK
    <3> QED BY <1>8, <3>1, <3>2 DEF SlotOK, StartOK, RequestOK
  <2> QED BY <2>1, <2>2
<1>13. /\ Agree'
       /\ \A s \in Slots : Out(s)' =>
            Out(s) /\ requests'[s].attempt = requests[s].attempt
                   /\ requests'[s].meant = requests[s].meant
  BY <1>6, <1>9, NoNewWork DEF LabInv, screenVars
<1>14. ScreenOK'
  BY <1>6, <1>11, <1>13 DEF LabInv, ScreenOK, Settled, screenVars
<1>15. ClosedKept' /\ AnnouncedIsRecorded'
  BY <1>3, <1>6, <1>8, <1>11 DEF LabInv, ClosedKept, AnnouncedIsRecorded, screenVars
<1> QED BY <1>10, <1>12, <1>13, <1>14, <1>15 DEF LabInv

\* A handler that ends without having written anything.
LEMMA FinishKeeps ==
  ASSUME LabInv, NEW r \in Slots, requests[r] # Idle, Finish(r, "failed"),
         UNCHANGED <<attempts, screenVars>>
  PROVE  LabInv'
<1> DEFINE q == Ended(requests[r], "failed")
<1>1. /\ requests[r] \in Request
      /\ SlotOK(requests[r], r, page, pending["start"], shown, stale, crossed, attempts)
  BY OutIsOK
<1>2. /\ q \in Request \cup {Idle}
      /\ q # Idle => /\ q.kind = requests[r].kind /\ q.to = requests[r].to /\ q.to # "nobody"
                     /\ q.phase = "failed" /\ q.attempt = requests[r].attempt
                     /\ q.then = requests[r].then
                     /\ q.doc = requests[r].doc /\ q.meant = requests[r].meant
  BY <1>1, EndedIs DEF Phases
<1>3. requests' = [requests EXCEPT ![r] = q]
  BY DEF Finish, LabInv, TypeOK
<1>4. pending \in [Kinds -> Slots \cup {None}]
  BY DEF LabInv, TypeOK
<1> HIDE DEF q
<1>5. SlotOK(q, r, page, pending["start"], shown, stale, crossed, attempts)
  BY <1>1, <1>2 DEF SlotOK, StartOK, RequestOK
<1>6. SameWork(requests[r], q)
  BY <1>2 DEF SameWork
<1> QED BY <1>2, <1>3, <1>4, <1>5, <1>6, RequestMoves DEF screenVars

LEMMA LoadAttemptKeeps == ASSUME LabInv, NEW r \in Slots, LoadAttempt(r) PROVE LabInv'
<1> DEFINE row == attempts[requests[r].attempt]
           q   == [requests[r] EXCEPT !.phase = "loaded",
                     !.doc  = IF @ = None THEN row.doc ELSE @,
                     !.seen = IF requests[r].kind = "save" THEN row.doc ELSE row.graded]
<1>1. /\ requests[r] # Idle /\ requests[r].kind \in {"save", "check", "submit"}
      /\ requests[r].phase = "sent" /\ requests[r] \in Request
      /\ SlotOK(requests[r], r, page, pending["start"], shown, stale, crossed, attempts)
      /\ RequestOK(requests[r], attempts) /\ row \in Attempt
  BY OutIsOK DEF LoadAttempt, Busy
<1>2. CASE row.status = "in_progress" /\ requests' = [requests EXCEPT
             ![r].phase = "loaded",
             ![r].doc  = IF @ = None THEN row.doc ELSE @,
             ![r].seen = IF requests[r].kind = "save" THEN row.doc ELSE row.graded]
  <2>1. /\ q \in Request /\ q # Idle /\ q.kind = requests[r].kind /\ q.to = requests[r].to
        /\ q.phase = "loaded" /\ q.attempt = requests[r].attempt
        /\ q.meant = requests[r].meant /\ q.then = requests[r].then
        /\ q.doc = IF requests[r].doc = None THEN row.doc ELSE requests[r].doc
        /\ q.seen = IF requests[r].kind = "save" THEN row.doc ELSE row.graded
    <3>1. /\ row.doc \in Docs \cup {None} /\ row.graded \in Docs \cup {None}
      BY <1>1 DEF Attempt
    <3> HIDE DEF row
    <3>2. /\ q \in Request /\ q.kind = requests[r].kind /\ q.to = requests[r].to
          /\ q.phase = "loaded" /\ q.attempt = requests[r].attempt
          /\ q.meant = requests[r].meant /\ q.then = requests[r].then
          /\ q.doc = IF requests[r].doc = None THEN row.doc ELSE requests[r].doc
          /\ q.seen = IF requests[r].kind = "save" THEN row.doc ELSE row.graded
      BY <1>1, <3>1 DEF Request, Phases
    <3> QED BY <3>2, IdleIsNoRequest
  <2>2. requests' = [requests EXCEPT ![r] = q]
    BY <1>2 DEF LabInv, TypeOK
  <2>3. pending \in [Kinds -> Slots \cup {None}] /\ requests[r].meant \in Docs
    BY <1>1 DEF LabInv, TypeOK, Request
  <2>4. UNCHANGED <<attempts, screenVars>>
    BY DEF LoadAttempt
  <2>5. row.doc \in Docs /\ row.status = "in_progress"
    BY <1>1, <1>2 DEF Attempt
  <2> HIDE DEF q
  <2>6. RequestOK(q, attempts)
    BY <1>1, <2>1, <2>3, <2>5, NoneAssumption DEF RequestOK
  <2>7. q.attempt \notin crossed => WorkOK(q, q.meant, attempts[q.attempt])
    BY <1>1, <2>1, <2>3, <2>5, NoneAssumption DEF SlotOK, RequestOK, WorkOK
  <2>8. SlotOK(q, r, page, pending["start"], shown, stale, crossed, attempts)
    BY <1>1, <2>1, <2>6, <2>7 DEF SlotOK
  <2>9. SameWork(requests[r], q)
    BY <1>1, <2>1 DEF SameWork
  <2> QED BY <2>1, <2>2, <2>3, <2>4, <2>8, <2>9, RequestMoves DEF screenVars
<1>3. CASE Finish(r, "failed")
  BY <1>1, <1>3, FinishKeeps DEF LoadAttempt
<1> QED BY <1>2, <1>3 DEF LoadAttempt

\* A save, check or submission writes the row, as it may, and is done.
LEMMA RowWritten ==
  ASSUME LabInv, NEW r \in Slots, requests[r] # Idle,
         requests[r].kind # "start", requests[r].phase = "loaded",
         NEW k, k = requests[r].attempt, NEW d, d = requests[r].meant,
         NEW new \in Attempt,
         attempts' = [attempts EXCEPT ![k] = new], Finish(r, "done"),
         attempts[k].status # "in_progress" \/ requests[r].kind = "submit"
           => new.status # "in_progress",
         k \notin crossed =>
           /\ RowStep(attempts[k], new, d) /\ requests[r].doc = d /\ new.doc = d
           /\ requests[r].kind # "save" => new.graded = d,
         UNCHANGED screenVars
  PROVE  LabInv'
<1> DEFINE q == Ended(requests[r], "done")
<1>1. /\ requests[r] \in Request /\ k \in DOMAIN attempts /\ attempts[k] \in Attempt
      /\ RequestOK(requests[r], attempts) /\ Out(r)
      /\ SlotOK(requests[r], r, page, pending["start"], shown, stale, crossed, attempts)
      /\ k \notin crossed => WorkOK(requests[r], d, attempts[k])
  BY OutIsOK DEF SlotOK, Out
<1>2. /\ q \in Request \cup {Idle}
      /\ q # Idle => /\ q \in Request
                     /\ q.kind = requests[r].kind /\ q.to = requests[r].to /\ q.to # "nobody"
                     /\ q.then = requests[r].then /\ q.phase = "done" /\ q.attempt = k
                     /\ q.doc = requests[r].doc /\ q.meant = d
  BY <1>1, EndedIs DEF Phases
<1>3. requests' = [requests EXCEPT ![r] = q]
  BY DEF Finish, LabInv, TypeOK
<1> HIDE DEF q
<1>4. /\ attempts' \in Seq(Attempt) /\ Len(attempts') = Len(attempts)
      /\ DOMAIN attempts' = DOMAIN attempts /\ attempts'[k] = new
      /\ \A j \in DOMAIN attempts \ {k} : attempts'[j] = attempts[j]
  BY <1>1, RowReplaced DEF LabInv, TypeOK
<1>5. TypeOK'
  BY <1>2, <1>3, <1>4 DEF LabInv, TypeOK, screenVars
<1>6. /\ \A s \in Slots : SameWork(requests[s], requests'[s])
      /\ requests'[r] = q /\ \A s \in Slots \ {r} : requests'[s] = requests[s]
  <2>1. SameWork(requests[r], q)
    BY <1>2 DEF SameWork
  <2> QED BY <1>3, <2>1, SlotsMove
<1>7. /\ Agree'
      /\ \A s \in Slots : Out(s)' =>
           Out(s) /\ requests'[s].attempt = requests[s].attempt
                  /\ requests'[s].meant = requests[s].meant
  BY <1>6, NoNewWork DEF LabInv, screenVars
<1>8. page # "opening" \/ stale
  BY <1>1 DEF LabInv, ScreenOK
<1>9. RequestsOK'
  <2> SUFFICES ASSUME NEW s \in Slots
               PROVE  SlotOK(requests'[s], s, page, pending["start"], shown, stale,
                             crossed, attempts')
    BY DEF RequestsOK, screenVars
  <2>1. CASE s = r
    <3>1. q # Idle => RequestOK(q, attempts')
      BY <1>1, <1>2, <1>4 DEF RequestOK
    <3>2. q # Idle /\ k \notin crossed => WorkOK(q, q.meant, new)
      BY <1>1, <1>2 DEF WorkOK
    <3> QED BY <1>1, <1>2, <1>4, <1>6, <2>1, <3>1, <3>2 DEF SlotOK
  <2>2. CASE s # r /\ requests[s] # Idle /\ requests[s].kind # "start"
    <3>1. requests'[s] = requests[s]
      BY <1>6, <2>2
    <3>2. /\ requests[s] \in Request /\ RequestOK(requests[s], attempts)
          /\ SlotOK(requests[s], s, page, pending["start"], shown, stale, crossed, attempts)
      BY <2>2, OutIsOK
    <3>3. RequestOK(requests[s], attempts')
      BY <1>4, <3>2 DEF RequestOK
    <3>4. ASSUME requests[s].phase # "failed", requests[s].attempt \notin crossed
          PROVE  WorkOK(requests[s], requests[s].meant, attempts'[requests[s].attempt])
      <4>1. WorkOK(requests[s], requests[s].meant, attempts[requests[s].attempt])
        BY <2>2, <3>2, <3>4 DEF SlotOK
      <4>2. CASE requests[s].attempt = k
        <5>1. requests[s].meant = d
          BY <1>1, <2>2, <3>4, <4>2 DEF LabInv, Agree, Out
        <5>2. WorkOK(requests[s], d, new) /\ d \in Docs
          BY <1>1, <2>2, <3>2, <3>4, <4>1, <4>2, <5>1, WorkLasts DEF Request
        <5> QED BY <1>4, <4>2, <5>1, <5>2
      <4>3. CASE requests[s].attempt # k
        BY <1>4, <3>2, <4>1, <4>3 DEF RequestOK
      <4> QED BY <4>2, <4>3
    <3> QED BY <2>2, <3>1, <3>2, <3>3, <3>4 DEF SlotOK
  <2>3. CASE s # r /\ (requests[s] # Idle => requests[s].kind = "start")
    <3>1. requests'[s] = requests[s]
      BY <1>6, <2>3
    <3>2. SlotOK(requests[s], s, page, pending["start"], shown, stale, crossed, attempts)
      BY DEF LabInv, RequestsOK
    <3> QED BY <1>4, <1>8, <2>3, <3>1, <3>2 DEF SlotOK, StartOK
  <2> QED BY <2>1, <2>2, <2>3
<1>10. ScreenOK'
  <2>1. page = "open" /\ ~dirty /\ ~stale /\ shown \notin crossed => Settled'
    <3> SUFFICES ASSUME page = "open", ~dirty, ~stale, shown \notin crossed PROVE Settled'
      OBVIOUS
    <3>1. Settled /\ shown \in DOMAIN attempts
      BY ShownIsRow DEF LabInv, ScreenOK
    <3>2. attempts'[shown].doc = doc
      <4>1. CASE shown = k
        BY <1>1, <1>4, <3>1, <4>1 DEF Settled
      <4>2. CASE shown # k
        BY <1>4, <3>1, <4>2 DEF Settled
      <4> QED BY <4>1, <4>2
    <3> QED BY <1>7, <3>1, <3>2 DEF Settled, screenVars
  <2> QED BY <1>8, <2>1 DEF LabInv, ScreenOK, screenVars
<1>11. ClosedKept'
  BY <1>4 DEF LabInv, ClosedKept, RowStep, screenVars
<1>12. AnnouncedIsRecorded'
  <2> SUFFICES ASSUME page = "open", grade # None
               PROVE  /\ attempts'[shown].status # "in_progress"
                      /\ shown \notin crossed => attempts'[shown].graded = grade
    BY DEF AnnouncedIsRecorded, screenVars
  <2>1. /\ attempts[shown].status # "in_progress" /\ shown \in DOMAIN attempts
        /\ shown \notin crossed => attempts[shown].graded = grade
    BY ShownIsRow DEF LabInv, AnnouncedIsRecorded
  <2>2. CASE shown = k
    <3>1. k \notin crossed => attempts[k].graded = d /\ new.graded = d
      BY <1>1, <2>1, <2>2 DEF WorkOK, RowStep
    <3> QED BY <1>4, <2>1, <2>2, <3>1
  <2>3. CASE shown # k
    BY <1>4, <2>1, <2>3
  <2> QED BY <2>2, <2>3
<1> QED BY <1>5, <1>7, <1>9, <1>10, <1>11, <1>12 DEF LabInv

LEMMA CommitSaveKeeps == ASSUME LabInv, NEW r \in Slots, CommitSave(r) PROVE LabInv'
<1> DEFINE k   == requests[r].attempt
           row == attempts[k]
           new == [row EXCEPT !.doc = Written(r, @)]
<1>1. /\ requests[r] # Idle /\ requests[r].kind = "save" /\ requests[r].phase = "loaded"
      /\ requests[r] \in Request /\ row \in Attempt /\ k \in DOMAIN attempts
      /\ RequestOK(requests[r], attempts)
      /\ k \notin crossed => WorkOK(requests[r], requests[r].meant, row)
  BY OutIsOK DEF CommitSave, Busy, SlotOK
<1>2. requests[r].doc = requests[r].meant /\ requests[r].meant \in Docs
  BY <1>1 DEF RequestOK, Request
<1>3. Written(r, row.doc) \in Docs
  BY <1>1, <1>2 DEF Written, Attempt
<1>4. k \notin crossed => Written(r, row.doc) = requests[r].meant
  BY <1>1, <1>2 DEF Written, WorkOK
<1>5. /\ attempts' = [attempts EXCEPT ![k] = new] /\ Finish(r, "done")
      /\ UNCHANGED screenVars
  BY <1>1 DEF CommitSave, LabInv, TypeOK
<1> HIDE DEF row
<1>6. /\ new \in Attempt /\ new.doc = Written(r, row.doc)
      /\ new.graded = row.graded /\ new.status = row.status
  BY <1>1, <1>3 DEF Attempt
<1>7. k \notin crossed => RowStep(row, new, requests[r].meant)
  BY <1>1, <1>4, <1>6 DEF RowStep, WorkOK
<1> HIDE DEF new
<1>8. PICK n \in Attempt : n = new
  BY <1>6
<1> QED BY <1>1, <1>2, <1>4, <1>5, <1>6, <1>7, <1>8, RowWritten DEF row

LEMMA CommitGradeKeeps == ASSUME LabInv, NEW r \in Slots, CommitGrade(r) PROVE LabInv'
<1> DEFINE k      == requests[r].attempt
           row    == attempts[k]
           status == CASE requests[r].kind = "check"  -> row.status
                       [] requests[r].kind = "submit" ->
                            IF requests[r].doc \in Solved THEN "passed" ELSE "failed"
           new    == [row EXCEPT !.graded = Written(r, @), !.status = status]
<1>1. /\ requests[r] # Idle /\ requests[r].kind \in {"check", "submit"}
      /\ requests[r].phase = "loaded"
      /\ requests[r] \in Request /\ row \in Attempt /\ k \in DOMAIN attempts
      /\ RequestOK(requests[r], attempts)
      /\ k \notin crossed => WorkOK(requests[r], requests[r].meant, row)
  BY OutIsOK DEF CommitGrade, Busy, SlotOK
<1>2. requests[r].doc \in Docs
  BY <1>1 DEF RequestOK
<1>3. Written(r, row.graded) \in Docs \cup {None}
  BY <1>1, <1>2 DEF Written, Attempt
<1>4. k \notin crossed =>
        /\ requests[r].doc = requests[r].meant
        /\ Written(r, row.graded) = requests[r].meant /\ row.doc = requests[r].meant
  BY <1>1 DEF Written, WorkOK
<1>5. /\ requests[r].kind = "check" => status = row.status
      /\ requests[r].kind = "submit" => status \in {"passed", "failed"}
  OBVIOUS
<1>6. /\ attempts' = [attempts EXCEPT ![k] = new] /\ Finish(r, "done")
      /\ UNCHANGED screenVars
  BY <1>1 DEF CommitGrade, LabInv, TypeOK
<1>7. row.status \in Statuses /\ status \in Statuses
  BY <1>1, <1>5 DEF Attempt, Statuses
<1> HIDE DEF status, row
<1>8. /\ new \in Attempt /\ new.doc = row.doc /\ new.graded = Written(r, row.graded)
      /\ new.status = status
  BY <1>1, <1>3, <1>7 DEF Attempt
<1>9. k \notin crossed => RowStep(row, new, requests[r].meant)
  BY <1>1, <1>4, <1>5, <1>8 DEF RowStep, WorkOK
<1>10. row.status # "in_progress" \/ requests[r].kind = "submit" => new.status # "in_progress"
  BY <1>1, <1>5, <1>8
<1> HIDE DEF new
<1>11. PICK n \in Attempt : n = new
  BY <1>8
<1> QED BY <1>1, <1>4, <1>6, <1>8, <1>9, <1>10, <1>11, RowWritten DEF row

-----------------------------------------------------------------------------
(* The answers *)

\* The browser forgets the request in slot r: it goes on unheard, or is over.
LEMMA ForgetKeeps ==
  ASSUME LabInv, NEW r \in Slots, requests[r] # Idle, NEW q, q \in {Unheard(requests[r]), Idle},
         requests' = [requests EXCEPT ![r] = q], pending' = Forgotten(r),
         UNCHANGED <<attempts, page, shown, doc, dirty, grade, cached, stale, crossed>>
  PROVE  LabInv'
<1>1. /\ requests[r] \in Request
      /\ SlotOK(requests[r], r, page, pending["start"], shown, stale, crossed, attempts)
  BY OutIsOK
<1>2. /\ q \in Request \cup {Idle}
      /\ q # Idle => /\ q.kind = requests[r].kind /\ q.phase = requests[r].phase
                     /\ q.phase \in {"sent", "loaded"}
                     /\ q.to = "nobody" /\ q.attempt = requests[r].attempt
                     /\ q.then = "nothing"
                     /\ q.doc = requests[r].doc /\ q.seen = requests[r].seen
                     /\ q.meant = requests[r].meant
  BY <1>1, UnheardIs
<1>3. /\ pending' \in [Kinds -> Slots \cup {None}]
      /\ \A s \in Slots \ {r} : pending["start"] = s => pending'["start"] = s
  BY ForgottenStart DEF LabInv
<1>4. SlotOK(q, r, page, pending'["start"], shown, stale, crossed, attempts)
  <2>1. CASE q = Idle
    BY <2>1 DEF SlotOK
  <2>2. CASE q # Idle /\ q.kind = "start"
    BY <1>1, <1>2, <2>2 DEF SlotOK, StartOK
  <2>3. CASE q # Idle /\ q.kind # "start"
    <3>1. RequestOK(q, attempts)
      BY <1>1, <1>2, <2>3 DEF SlotOK, RequestOK
    <3>2. q.attempt \notin crossed => WorkOK(q, q.meant, attempts[q.attempt])
      BY <1>1, <1>2, <2>3 DEF SlotOK, WorkOK
    <3> QED BY <1>2, <2>3, <3>1, <3>2 DEF SlotOK
  <2> QED BY <2>1, <2>2, <2>3
<1>5. SameWork(requests[r], q)
  BY <1>2 DEF SameWork
<1> QED BY <1>2, <1>3, <1>4, <1>5, RequestMoves

LEMMA ConnectionLostKeeps ==
  ASSUME LabInv, NEW r \in Slots, ConnectionLost(r) PROVE LabInv'
<1>1. requests' = [requests EXCEPT ![r] = Unheard(requests[r])]
  BY DEF ConnectionLost, LabInv, TypeOK
<1> QED BY <1>1, ForgetKeeps DEF ConnectionLost

LEMMA RefusedKeeps == ASSUME LabInv, NEW r \in Slots, Refused(r) PROVE LabInv'
BY ForgetKeeps DEF Refused

LEMMA OpenedKeeps == ASSUME LabInv, NEW r \in Slots, Opened(r) PROVE LabInv'
<1>1. /\ requests[r] # Idle /\ requests[r] \in Request /\ requests[r].kind = "start"
      /\ requests[r].to = "page" /\ page = "opening" /\ pending["start"] = r
      /\ requests[r].attempt \in DOMAIN attempts /\ requests[r].doc \in Docs
      /\ ~stale => attempts[requests[r].attempt].doc = requests[r].doc
  BY OutIsOK DEF Opened, Answered, Busy, SlotOK, StartOK
<1>2. /\ requests' = [requests EXCEPT ![r] = Idle] /\ pending' = Forgotten(r)
      /\ page' = "open" /\ shown' = requests[r].attempt /\ doc' = requests[r].doc
      /\ dirty' = FALSE /\ grade' = None /\ UNCHANGED <<attempts, stale, crossed>>
      /\ cached' = [attempt |-> requests[r].attempt, doc |-> requests[r].doc]
  BY DEF Opened, Mount
<1>3. TypeOK'
  <2>1. /\ shown' \in 0..Len(attempts) /\ shown' # 0
        /\ cached' \in [attempt : 1..Len(attempts), doc : Docs]
    BY <1>1, <1>2 DEF LabInv, TypeOK
  <2> QED BY <1>1, <1>2, <2>1, ForgottenStart DEF LabInv, TypeOK
<1>4. /\ \A s \in Slots : SameWork(requests[s], requests'[s])
      /\ requests'[r] = Idle /\ \A s \in Slots \ {r} : requests'[s] = requests[s]
  <2>1. SameWork(requests[r], Idle)
    BY DEF SameWork
  <2> QED BY <1>2, <2>1, SlotsMove
<1>5. Agree' /\ \A s \in Slots : Out(s)' => Out(s)
  BY <1>2, <1>4, NoNewWork DEF LabInv
<1>6. RequestsOK'
  <2> SUFFICES ASSUME NEW s \in Slots
               PROVE  SlotOK(requests'[s], s, page', pending'["start"], shown', stale,
                             crossed, attempts)
    BY <1>2 DEF RequestsOK
  <2>1. CASE s = r
    BY <1>4, <2>1 DEF SlotOK
  <2>2. CASE s # r
    <3>1. requests'[s] = requests[s]
      BY <1>4, <2>2
    <3>2. SlotOK(requests[s], s, page, pending["start"], shown, stale, crossed, attempts)
      BY DEF LabInv, RequestsOK
    <3> QED BY <1>1, <1>2, <2>2, <3>1, <3>2 DEF SlotOK, StartOK
  <2> QED BY <2>1, <2>2
<1>7. ScreenOK'
  BY <1>1, <1>2, <1>5 DEF LabInv, ScreenOK, Settled
<1>8. ClosedKept' /\ AnnouncedIsRecorded'
  BY <1>2 DEF LabInv, ClosedKept, AnnouncedIsRecorded
<1> QED BY <1>3, <1>5, <1>6, <1>7, <1>8 DEF LabInv

LEMMA SavedKeeps == ASSUME LabInv, NEW r \in Slots, Saved(r) PROVE LabInv'
<1> DEFINE old == requests[r]
           to  == IF old.to = "page" THEN "page" ELSE "nobody"
           new == Message(old.then, old.attempt, None, "nothing", to, old.meant)
           q   == IF old.then = "nothing" THEN Idle ELSE new
<1>1. /\ old # Idle /\ old \in Request /\ old.kind = "save" /\ old.phase = "done"
      /\ RequestOK(old, attempts)
      /\ old.to = "page" => page = "open" /\ old.attempt = shown
      /\ old.attempt \notin crossed => WorkOK(old, old.meant, attempts[old.attempt])
      /\ Out(r)
  BY OutIsOK DEF Saved, Answered, Busy, SlotOK, Out
<1>2. ASSUME old.then # "nothing"
      PROVE  /\ new \in Request /\ new.kind = old.then /\ new.kind \in {"check", "submit"}
             /\ new.attempt = old.attempt /\ new.doc = None /\ new.to = to
             /\ new.then = "nothing"
             /\ new.meant = old.meant /\ new.phase = "sent"
  <2>1. /\ old.then \in {"check", "submit"} /\ old.attempt \in 0..MaxAttempts
        /\ to \in Addressees /\ old.meant \in Docs
    BY <1>1, <1>2 DEF Request, Wishes, Addressees
  <2>2. old.then \in Kinds /\ "nothing" \in Wishes /\ None \in Docs \cup {None}
    BY <2>1 DEF Kinds, Wishes
  <2> HIDE DEF old, to
  <2>3. PICK kind \in Kinds, k \in 0..MaxAttempts, a \in Addressees, meant \in Docs :
          kind = old.then /\ k = old.attempt /\ a = to /\ meant = old.meant
    BY <2>1, <2>2
  <2>4. new = Message(kind, k, None, "nothing", a, meant)
    BY <2>3
  <2> HIDE DEF new
  <2>5. /\ new \in Request /\ new.kind = kind /\ new.attempt = k /\ new.doc = None
        /\ new.then = "nothing"
        /\ new.to = a /\ new.meant = meant /\ new.phase = "sent"
    BY <2>2, <2>4, MessageType
  <2> QED BY <2>1, <2>3, <2>5
<1>3. /\ requests' = [requests EXCEPT ![r] = q] /\ q \in Request \cup {Idle}
      /\ UNCHANGED <<attempts, page, shown, doc, grade, cached, crossed>>
      /\ dirty' = (dirty /\ old.to # "page")
      /\ stale' = IF old.to = "page" THEN doc # old.doc ELSE stale
  BY <1>2 DEF Saved
<1>4. /\ pending' \in [Kinds -> Slots \cup {None}]
      /\ \A s \in Slots \ {r} : pending["start"] = s => pending'["start"] = s
  <2>1. \/ pending' = Forgotten(r)
        \/ old.then \in {"check", "submit"} /\ pending' = [Forgotten(r) EXCEPT ![old.then] = r]
    BY <1>1 DEF Saved, Request, Wishes
  <2>2. /\ Forgotten(r) \in [Kinds -> Slots \cup {None}]
        /\ \A s \in Slots \ {r} : pending["start"] = s => Forgotten(r)["start"] = s
    BY ForgottenStart DEF LabInv
  <2> HIDE DEF old
  <2> QED BY <2>1, <2>2 DEF Kinds
<1>5. q # Idle => /\ q.kind \in {"check", "submit"} /\ q.phase = "sent" /\ q.to = to
                  /\ q.attempt = old.attempt /\ q.meant = old.meant
                  /\ q.doc = None /\ q.then = "nothing"
  BY <1>2
<1>6. to \in {"page", "nobody"} /\ (to = "page" => old.to = "page")
  OBVIOUS
<1> HIDE DEF q, new, to
<1>7. SlotOK(q, r, page, pending'["start"], shown, stale', crossed, attempts)
  <2>1. q # Idle => RequestOK(q, attempts)
    BY <1>1, <1>5, <1>6 DEF RequestOK
  <2>2. q # Idle /\ q.attempt \notin crossed => WorkOK(q, q.meant, attempts[q.attempt])
    BY <1>1, <1>5 DEF WorkOK
  <2> QED BY <1>1, <1>5, <1>6, <2>1, <2>2 DEF SlotOK
<1>8. SameWork(requests[r], q)
  BY <1>1, <1>5 DEF SameWork
<1>9. PICK b \in BOOLEAN : b = (doc # old.doc)
  OBVIOUS
<1>10. PICK c \in BOOLEAN : c = (dirty /\ old.to # "page")
  OBVIOUS
<1>11. dirty' \in BOOLEAN /\ stale' \in BOOLEAN /\ (page # "open" => stale' = stale)
  BY <1>1, <1>3, <1>9, <1>10 DEF LabInv, TypeOK
<1>12. page = "open" /\ ~dirty' /\ ~stale' /\ shown \notin crossed => Settled
  <2>1. CASE old.to = "page"
    <3> SUFFICES ASSUME ~stale', shown \notin crossed PROVE Settled
      OBVIOUS
    <3>1. old.doc = doc /\ old.meant = doc /\ old.attempt = shown
      BY <1>1, <1>3, <2>1 DEF RequestOK
    <3>2. attempts[shown].doc = doc
      BY <1>1, <3>1 DEF WorkOK
    <3>3. \A s \in Slots : Out(s) /\ requests[s].attempt = shown => requests[s].meant = doc
      BY <1>1, <3>1 DEF LabInv, Agree
    <3> QED BY <3>2, <3>3 DEF Settled
  <2>2. CASE old.to # "page"
    <3>1. stale' = stale /\ dirty' = c
      BY <1>3, <1>10, <2>2
    <3>2. c => dirty
      BY <1>10
    <3>3. dirty /\ old.to # "page" => c
      BY <1>10
    <3> QED BY <2>2, <3>1, <3>2, <3>3 DEF LabInv, ScreenOK
  <2> QED BY <2>1, <2>2
<1> HIDE DEF old
<1>13. /\ AnnouncedIsRecorded'
       /\ grade' \in Docs \cup {None}
  BY <1>3 DEF LabInv, TypeOK, AnnouncedIsRecorded
<1> QED BY <1>3, <1>4, <1>7, <1>8, <1>11, <1>12, <1>13, AnswerMoves

LEMMA GradedKeeps == ASSUME LabInv, NEW r \in Slots, Graded(r) PROVE LabInv'
<1> DEFINE old == requests[r]
<1>1. /\ old # Idle /\ old \in Request /\ old.kind \in {"check", "submit"}
      /\ old.phase = "done" /\ page = "open" /\ old.attempt = shown
      /\ RequestOK(old, attempts) /\ old.doc \in Docs
      /\ shown \notin crossed => WorkOK(old, old.meant, attempts[shown])
  BY OutIsOK DEF Graded, Answered, Busy, SlotOK, RequestOK, Request, Addressees
<1>2. /\ requests' = [requests EXCEPT ![r] = Idle] /\ pending' = Forgotten(r)
      /\ UNCHANGED <<attempts, page, shown, doc, dirty, cached, stale, crossed>>
      /\ grade' = IF old.kind = "submit" THEN old.doc ELSE None
  BY DEF Graded
<1>3. AnnouncedIsRecorded'
  <2> SUFFICES ASSUME old.kind = "submit"
               PROVE  /\ attempts[shown].status # "in_progress"
                      /\ shown \notin crossed => attempts[shown].graded = old.doc
    BY <1>2 DEF AnnouncedIsRecorded
  <2> QED BY <1>1 DEF RequestOK, WorkOK
<1>4. /\ dirty' \in BOOLEAN /\ stale' \in BOOLEAN
      /\ page = "open" /\ ~dirty' /\ ~stale' /\ shown \notin crossed => Settled
      /\ grade' \in Docs \cup {None}
  BY <1>1, <1>2 DEF LabInv, TypeOK, ScreenOK
<1>5. /\ Idle \in Request \cup {Idle} /\ SameWork(requests[r], Idle)
      /\ SlotOK(Idle, r, page, pending'["start"], shown, stale', crossed, attempts)
  BY DEF SlotOK, SameWork
<1>6. /\ pending' \in [Kinds -> Slots \cup {None}]
      /\ \A s \in Slots \ {r} : pending["start"] = s => pending'["start"] = s
  BY <1>2, ForgottenStart DEF LabInv
<1> HIDE DEF old
<1> QED BY <1>2, <1>3, <1>4, <1>5, <1>6, AnswerMoves

-----------------------------------------------------------------------------
LEMMA LabStarts == Init => LabInv
<1> SUFFICES ASSUME Init PROVE LabInv
  OBVIOUS
<1>1. TypeOK
  <2>1. attempts = <<>> /\ <<>> \in Seq(Attempt) /\ Len(<<>>) = 0
    BY DEF Init
  <2>2. shown \in 0..Len(attempts) /\ Len(attempts) <= MaxAttempts
    BY <2>1, BoundAssumption DEF Init
  <2> QED BY <2>1, <2>2, DocAssumption DEF Init, TypeOK
<1>2. RequestsOK /\ Agree /\ ScreenOK /\ ClosedKept /\ AnnouncedIsRecorded
  BY DEF Init, RequestsOK, SlotOK, Agree, Out, ScreenOK, ClosedKept, AnnouncedIsRecorded
<1> QED BY <1>1, <1>2 DEF LabInv

LEMMA LabStep == LabInv /\ [Next]_vars => LabInv'
<1> SUFFICES ASSUME LabInv, [Next]_vars PROVE LabInv'
  OBVIOUS
<1>1. CASE Reopen \/ Leave \/ Reload \/ Evict
  BY <1>1, ReopenKeeps, LeaveKeeps, ReloadKeeps, EvictKeeps
<1>2. ASSUME NEW d \in Docs, Edit(d) PROVE LabInv'
  BY <1>2, EditKeeps
<1>3. ASSUME NEW r \in Slots, OpenLab(r) \/ RetryStart(r) PROVE LabInv'
  BY <1>3, OpenLabKeeps, RetryStartKeeps
<1>4. ASSUME NEW r \in Slots, Autosave(r) PROVE LabInv'
  BY <1>4, SaveKeeps DEF Autosave, Wishes
<1>5. ASSUME NEW r \in Slots, NEW wish \in {"check", "submit"}, GradeNow(r, wish)
      PROVE  LabInv'
  <2>1. wish \in Wishes
    BY DEF Wishes
  <2> QED BY <1>5, <2>1, SaveKeeps DEF GradeNow
<1>6. ASSUME NEW r \in Slots, Proceed(r) PROVE LabInv'
  <2>1. CASE LoadStart(r) \/ CommitStart(r)
    BY <2>1, LoadStartKeeps, CommitStartKeeps
  <2>2. CASE LoadAttempt(r) \/ CommitSave(r) \/ CommitGrade(r)
    BY <2>2, LoadAttemptKeeps, CommitSaveKeeps, CommitGradeKeeps
  <2>3. CASE HandlerFails(r)
    BY <2>3, FinishKeeps DEF HandlerFails
  <2>4. CASE Refused(r) \/ Opened(r) \/ Saved(r) \/ Graded(r)
    BY <2>4, RefusedKeeps, OpenedKeeps, SavedKeeps, GradedKeeps
  <2> QED BY <1>6, <2>1, <2>2, <2>3, <2>4 DEF Proceed
<1>7. ASSUME NEW r \in Slots, ConnectionLost(r) PROVE LabInv'
  BY <1>7, ConnectionLostKeeps
<1>8. CASE UNCHANGED vars
  BY <1>8 DEF vars, screenVars, LabInv, TypeOK, RequestsOK, Agree, Out, ScreenOK, Settled,
              ClosedKept, AnnouncedIsRecorded
<1> QED BY <1>1, <1>2, <1>3, <1>4, <1>5, <1>6, <1>7, <1>8 DEF Next

\* However requests overlap, fail and are repeated: until two saves of an attempt
\* cross, all that is out for it was sent for one document, and writes no other.
THEOREM LabInvariant == Spec => []LabInv
<1>1. Init => LabInv
  BY LabStarts
<1>2. LabInv /\ [Next]_vars => LabInv'
  BY LabStep
<1> QED BY <1>1, <1>2, PTL DEF Spec

\* Attempts, requests and the state of the page hold what their code admits.
THEOREM LabTypeCorrect == Spec => []TypeOK
<1>1. LabInv => TypeOK
  BY DEF LabInv
<1> QED BY <1>1, LabInvariant, PTL

\* When the page reads "Saved", the server holds what it shows, whatever the
\* learner does while requests are out and however they end, but for the races
\* SavedMeansSaved names (handleSave, markSaved).
THEOREM SavedIsSaved == Spec => []SavedMeansSaved
<1>1. LabInv => SavedMeansSaved
  BY DEF LabInv, ScreenOK, Settled, SavedMeansSaved, SavedIsStored
<1> QED BY <1>1, LabInvariant, PTL

\* A check or a submission grades what was on screen at the click, and a closed
\* attempt keeps its document and its grade, unless saves of different documents
\* were out at once (check_attempt, submit_attempt).
THEOREM ShownWorkIsGraded == Spec => []GradedIsShownWork
<1>1. LabInv => GradedIsShownWork
  BY OutIsOK DEF LabInv, ClosedKept, GradedIsShownWork, Busy, SlotOK, WorkOK
<1> QED BY <1>1, LabInvariant, PTL

\* A result is announced only for an attempt the server has closed and, unless
\* such saves crossed, with the grade it recorded (setGrade).
THEOREM AnnouncedIsTrue == Spec => []AnnouncedIsRecorded
<1>1. LabInv => AnnouncedIsRecorded
  BY DEF LabInv
<1> QED BY <1>1, LabInvariant, PTL
=============================================================================
