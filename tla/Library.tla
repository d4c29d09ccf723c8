------------------------------ MODULE Library -------------------------------
(***************************************************************************)
(* What one learner keeps: saved topologies (services/topology_service.py),*)
(* notes and bookmarks (services/notes_service.py), and several calls of   *)
(* theirs at once.  A call loads its row, and commits later: autoflush is  *)
(* off and expire_on_commit is off, so that the one statement at the       *)
(* commit is an INSERT, a DELETE by id, or an UPDATE of those columns that *)
(* differ from what the call has loaded (db/session.py).                   *)
(*                                                                         *)
(* A description goes with the name, the place of a note with its body.    *)
(* Names are their lengths.  No code makes a topology public or a          *)
(* template: a learner duplicates their own.                               *)
(***************************************************************************)
EXTENDS Integers, FiniteSets

CONSTANTS
  Topologies, Notes, Bookmarks,  \* ids of rows; a UUID is not given out again
  Documents, DevicesIn,          \* topology documents, and len(devices) of each
  Bodies, Lessons,
  MaxTopologies,                 \* MAX_TOPOLOGIES_PER_USER
  LongestName, Suffix,           \* String(200), and len(" (copy)")
  Calls,                         \* calls that can be in flight
  Gone                           \* no row

Papers == Topologies \cup Notes \cup Bookmarks

TopologyRow == [name : Nat, document : Documents, count : Nat]
NoteRow     == [body : Bodies, pinned : BOOLEAN]
BookmarkRow == [lesson : Lessons]

Rows(p) == IF p \in Topologies THEN TopologyRow
           ELSE IF p \in Notes THEN NoteRow ELSE BookmarkRow
AnyRow  == TopologyRow \cup NoteRow \cup BookmarkRow

PaperColumns == {"name", "document", "count", "body", "pinned", "lesson"}
Value == [name |-> Nat, document |-> Documents, count |-> Nat,
          body |-> Bodies, pinned |-> BOOLEAN, lesson |-> Lessons]

ASSUME PapersAssumption ==
  /\ Topologies \cap Notes = {} /\ Topologies \cap Bookmarks = {}
  /\ Notes \cap Bookmarks = {}
  /\ IsFiniteSet(Topologies) /\ Gone \notin AnyRow \cup Papers
ASSUME DocumentsAssumption == DevicesIn \in [Documents -> Nat]
ASSUME LimitsAssumption ==
  MaxTopologies \in Nat \ {0} /\ LongestName \in Nat /\ Suffix \in Nat
ASSUME CallsAssumption == IsFiniteSet(Calls) /\ Calls # {}

VARIABLES
  shelf,      \* the rows, or Gone
  calls,      \* where each call has got to
  mine,       \* the new row of each call, or the columns its payload gives
  given,      \* history: of each row, what a call last asked for per column ...
  contended   \* ... and the columns for which calls that overlapped asked

libVars == <<shelf, calls, mine, given, contended>>

\* at: idle, copy (a source was loaded), insert, patch, delete.  changed are the
\* columns of the payload that differ from the row as loaded, lone those that
\* no overlapping call gives.
Idle    == [at |-> "idle", paper |-> Gone, changed |-> {}, lone |-> {}]
Nothing == [c \in {} |-> Gone]

LibTypeOK ==
  /\ shelf \in [Papers -> AnyRow \cup {Gone}]
  /\ given \in [Papers -> AnyRow \cup {Gone}]
  /\ \A p \in Papers : /\ shelf[p] \in Rows(p) \cup {Gone}
                       /\ given[p] \in Rows(p) \cup {Gone}
  /\ contended \in [Papers -> SUBSET PaperColumns]
  /\ calls \in [Calls -> [at : {"idle", "copy", "insert", "patch", "delete"},
                          paper : Papers \cup {Gone},
                          changed : SUBSET PaperColumns, lone : SUBSET PaperColumns]]
  /\ DOMAIN mine = Calls
  /\ \A k \in Calls : /\ DOMAIN mine[k] \subseteq PaperColumns
                      /\ \A c \in DOMAIN mine[k] : mine[k][c] \in Value[c]

LibInit ==
  /\ shelf = [p \in Papers |-> Gone]
  /\ calls = [k \in Calls |-> Idle]
  /\ mine = [k \in Calls |-> Nothing]
  /\ given = [p \in Papers |-> Gone]
  /\ contended = [p \in Papers |-> {}]

-----------------------------------------------------------------------------
(* New rows *)

Answer(k) ==
  calls' = [calls EXCEPT ![k] = Idle] /\ mine' = [mine EXCEPT ![k] = Nothing]

\* What a valid payload can hold; device_count is len(document.devices).
Asked(p) ==
  IF p \in Topologies
  THEN {[name |-> n, document |-> d, count |-> DevicesIn[d]] :
          n \in 1..LongestName, d \in Documents}
  ELSE Rows(p)

Owned      == {p \in Topologies : shelf[p] # Gone}
BelowLimit == Cardinality(Owned) < MaxTopologies

\* The unique constraint on a learner's bookmarks.
Starred(lesson) == \E p \in Bookmarks : shelf[p] # Gone /\ shelf[p].lesson = lesson

\* create and import_document count the topologies, toggle_bookmark looks for
\* the star; a note is just written.
Create(k, p, row) ==
  /\ calls[k].at = "idle"
  /\ p \in Topologies => BelowLimit
  /\ p \in Bookmarks => ~Starred(row.lesson)
  /\ calls' = [calls EXCEPT ![k] = [Idle EXCEPT !.at = "insert", !.lone = DOMAIN row]]
  /\ mine' = [mine EXCEPT ![k] = row]
  /\ UNCHANGED <<shelf, given, contended>>

\* duplicate: the source first, then the count.
Copy(k, p) ==
  /\ calls[k].at = "idle"
  /\ shelf[p] # Gone
  /\ calls' = [calls EXCEPT ![k] = [Idle EXCEPT !.at = "copy",
                                                !.lone = DOMAIN shelf[p] \ contended[p]]]
  /\ mine' = [mine EXCEPT ![k] = [shelf[p] EXCEPT !.name = @ + Suffix]]
  /\ UNCHANGED <<shelf, given, contended>>

CountForCopy(k) ==
  /\ calls[k].at = "copy"
  /\ BelowLimit
  /\ calls' = [calls EXCEPT ![k].at = "insert"]
  /\ UNCHANGED <<shelf, mine, given, contended>>

\* The row gets an id nobody knows.  The name may be too long for its column,
\* the lesson starred by now: then the INSERT fails (GiveUp).
Insert(k, p) ==
  LET row == mine[k]
  IN  /\ calls[k].at = "insert"
      /\ row \in Rows(p) /\ shelf[p] = Gone
      /\ \A q \in Calls : calls[q].paper # p
      /\ p \in Topologies => row.name <= LongestName
      /\ p \in Bookmarks => ~Starred(row.lesson)
      /\ shelf' = [shelf EXCEPT ![p] = row]
      /\ given' = [given EXCEPT ![p] = row]
      /\ contended' = [contended EXCEPT ![p] = DOMAIN row \ calls[k].lone]
      /\ Answer(k)

-----------------------------------------------------------------------------
(* Changed rows *)

\* The columns that update can be given, of a topology or a note: a document
\* comes with its device count.
PayloadsAsSent(p) ==     \* mutant: the count is the client's
  IF shelf[p] = Gone THEN {} ELSE SUBSET DOMAIN shelf[p]

Payloads(p) ==
  IF shelf[p] = Gone THEN {}
  ELSE {C \in SUBSET DOMAIN shelf[p] : "document" \in C <=> "count" \in C}

Patches(q, p) == calls[q].at = "patch" /\ calls[q].paper = p

\* The columns that the UPDATE will name.
ChangedColumns(p, new, C) == {c \in C : new[c] # shelf[p][c]}

\* The row is loaded and gets the columns C of the payload.
PatchRow(k, p, new, C) ==
  /\ calls[k].at = "idle"
  /\ calls' = [q \in Calls |->
       IF q = k
       THEN [at |-> "patch", paper |-> p, changed |-> ChangedColumns(p, new, C),
             lone |-> {c \in C : \A r \in Calls : Patches(r, p) => c \notin DOMAIN mine[r]}]
       ELSE IF Patches(q, p) THEN [calls[q] EXCEPT !.lone = @ \ C] ELSE calls[q]]
  /\ mine' = [mine EXCEPT ![k] = [c \in C |-> new[c]]]
  /\ UNCHANGED <<shelf, given, contended>>

Overlaid(row, C, over) == [c \in DOMAIN row |-> IF c \in C THEN over[c] ELSE row[c]]

Update(k) ==
  LET p    == calls[k].paper
      edit == mine[k]
  IN  /\ calls[k].at = "patch" /\ shelf[p] # Gone
      /\ shelf' = [shelf EXCEPT ![p] = Overlaid(@, calls[k].changed, edit)]
      /\ given' = [given EXCEPT ![p] = Overlaid(@, DOMAIN edit, edit)]
      /\ contended' = [contended EXCEPT ![p] = (@ \cup DOMAIN edit) \ calls[k].lone]
      /\ Answer(k)

\* delete, and toggle_bookmark when there is a star.
Load(k, p) ==
  /\ calls[k].at = "idle" /\ shelf[p] # Gone
  /\ calls' = [calls EXCEPT ![k] = [Idle EXCEPT !.at = "delete", !.paper = p]]
  /\ UNCHANGED <<shelf, mine, given, contended>>

Delete(k) ==
  /\ calls[k].at = "delete"
  /\ shelf' = [shelf EXCEPT ![calls[k].paper] = Gone]
  /\ given' = [given EXCEPT ![calls[k].paper] = Gone]
  /\ contended' = [contended EXCEPT ![calls[k].paper] = {}]
  /\ Answer(k)

\* Nothing is written: the limit is reached, the row is gone (StaleDataError), a
\* constraint refuses, or the connection is lost.
GiveUp(k) ==
  /\ calls[k].at # "idle"
  /\ Answer(k)
  /\ UNCHANGED <<shelf, given, contended>>

\* A call about the papers P.
CallOn(P, k) ==
  \/ \E p \in P : \/ \E row \in Asked(p) : Create(k, p, row)
                  \/ Insert(k, p)
                  \/ Load(k, p)
  \/ \E p \in P \cap Topologies : Copy(k, p)
  \/ \E p \in P \ Bookmarks :
       \E C \in Payloads(p), new \in Asked(p) : PatchRow(k, p, new, C)
  \/ CountForCopy(k) \/ Update(k) \/ Delete(k) \/ GiveUp(k)

LibNext == \E k \in Calls : CallOn(Papers, k)

LibSpec == LibInit /\ [][LibNext]_libVars

-----------------------------------------------------------------------------
\* Calls that overlap each count before another's insert commits: the limit is
\* exceeded by no more than the calls there can be besides one.
WithinLimit == Cardinality(Owned) <= MaxTopologies + Cardinality(Calls) - 1

\* What a committed edit gave a column is what is stored, whatever was loaded by
\* whom in between: two calls that edit different columns of a row (the body of a
\* note, its pin; the name of a topology, its document) both count.
EditsKept ==
  \A p \in Papers : shelf[p] # Gone =>
    \A c \in DOMAIN shelf[p] \ contended[p] : shelf[p][c] = given[p][c]

\* "The two can never disagree" (update): the count shown on the card of a
\* topology is that of its document, unless saves of the document overlapped;
\* then the UPDATE of one may leave out a count that it did not change.
CountsItsDevices ==
  \A p \in Topologies : shelf[p] # Gone /\ "document" \notin contended[p] =>
    shelf[p].count = DevicesIn[shelf[p].document]

\* The star of a lesson is one row, whatever toggles overlap.
OneStar ==
  \A p, q \in Bookmarks :
    shelf[p] # Gone /\ shelf[q] # Gone /\ shelf[p].lesson = shelf[q].lesson => p = q

\* A learner's shelf is in order.
ShelfInOrder == WithinLimit /\ EditsKept /\ CountsItsDevices /\ OneStar
=============================================================================
