--------------------------- MODULE TopologyEditor ---------------------------
(***************************************************************************)
(* The network designer: the editor of one document with its undo history  *)
(* (features/topology/hooks/use-topology-editor.ts), the page around it    *)
(* (pages/simulator-page.tsx), the configuration window with its forms and *)
(* its console (device-config-window.tsx, cli-terminal.tsx), and the saved *)
(* topologies (services/topology_service.py, schemas/topology.py).         *)
(*                                                                         *)
(* Three requests leave the page with a copy of what it held then, and     *)
(* their answers come back after whatever the learner did in between: a    *)
(* save, the ports suggested for a new cable, and a console command.       *)
(* `late` remembers the kinds of answer, drag or window that were overtaken*)
(* in this way; every property says what holds when nothing was.           *)
(***************************************************************************)
EXTENDS Naturals, Sequences, FiniteSets

CONSTANTS
  Devices,       \* ids a device may get
  NPorts,        \* connectable ports of a device
  ConfigEdits,   \* changes that can be made to a configuration
  HistoryLimit,  \* HISTORY_LIMIT
  RowLimit,      \* MAX_TOPOLOGIES_PER_USER
  MaxEdits,      \* bound on the edits made
  MaxSaves,      \* bound on the saves in flight
  None

ASSUME EditorAssumption ==
  /\ IsFiniteSet(Devices) /\ None \notin Devices
  /\ {NPorts, HistoryLimit, RowLimit} \subseteq Nat \ {0}
  /\ MaxEdits \in Nat /\ MaxSaves \in Nat

VARIABLES
  doc, past, future, dirty,   \* the editor; future is a stack, its top last
  origin,    \* dragOrigin: the document before the drag, or None
  window,    \* the configuration window: its device and the state it works on
  command,   \* the console command in flight
  cables,    \* the cable suggestions in flight
  saves,     \* the saves in flight
  row,       \* the topology the page edits, 0 for a new one
  stored,    \* the learner's saved topologies
  late,      \* history: what was overtaken
  edits      \* how many edits were made, for the bound

editor == <<doc, past, future, dirty, origin>>
flight == <<command, cables, saves>>
vars   == <<editor, window, flight, row, stored, late, edits>>

Ports == 1..NPorts

\* A device: what it looks like (name, label, position), its configuration as
\* the changes it contains, and whether it belongs to the group.
DeviceState == [look : 0..1, config : SUBSET ConfigEdits, grouped : BOOLEAN]
Cable       == [id : Nat, ends : SUBSET (Devices \X Ports)]
DocumentsOver(D) == [devices : [D -> DeviceState], links : SUBSET Cable, group : BOOLEAN]
IsDocument(x) == \E D \in SUBSET Devices : x \in DocumentsOver(D)
ASSUME NoneIsNoDocument == ~IsDocument(None)

Fresh    == [look |-> 0, config |-> {}, grouped |-> FALSE]
EmptyDoc == [devices |-> <<>>, links |-> {}, group |-> FALSE]
Placed(x) == DOMAIN x.devices
Closed   == [dev |-> None, config |-> {}]
NoCommand == [dev |-> None, config |-> {}, mounted |-> FALSE]

\* A new topology, or a saved one.
Opened == [EmptyDoc EXCEPT !.devices = [d \in Devices |-> Fresh]]

Init ==
  /\ \/ row = 0 /\ stored = <<>> /\ doc = EmptyDoc
     \/ row = 1 /\ stored = <<Opened>> /\ doc = Opened
  /\ past = <<>> /\ future = <<>> /\ dirty = FALSE
  /\ origin = None
  /\ window = Closed
  /\ command = NoCommand /\ cables = {} /\ saves = <<>>
  /\ late = {} /\ edits = 0

Device(x, d, r)   == [x EXCEPT !.devices[d] = r]
Ends(x)           == UNION {l.ends : l \in x.links}
Occupied(x, e)    == e \in Ends(x)
FreePorts(x, d)   == {p \in Ports : ~Occupied(x, <<d, p>>)}
First(S)          == CHOOSE p \in S : \A q \in S : p <= q

\* TopologyDocument._validate_structure.
Valid(x) ==
  /\ \A d \in Placed(x) : x.devices[d].grouped => x.group
  /\ \A l \in x.links : \A e \in l.ends : e[1] \in Placed(x)
  /\ \A l, m \in x.links : l # m => l.ends \cap m.ends = {}

-----------------------------------------------------------------------------
(* The undo history *)

Keep(s, n) == IF Len(s) > n THEN SubSeq(s, Len(s) - n + 1, Len(s)) ELSE s
Pushed(x) == Append(Keep(past, HistoryLimit - 1), x)

Top(s) == s[Len(s)]
Pop(s) == SubSeq(s, 1, Len(s) - 1)

Budget == edits < MaxEdits /\ edits' = edits + 1

\* Something reaches the document while a drag is under way, or while a save is
\* in flight.
Overtakes ==
  (IF origin # None THEN {"drag"} ELSE {}) \cup (IF saves # <<>> THEN {"save"} ELSE {})

\* commit(): one edit, one entry.
Commit(x) ==
  /\ doc' = x
  /\ past' = Pushed(doc) /\ future' = <<>> /\ dirty' = TRUE
  /\ UNCHANGED <<origin, row, stored>>

\* An edit of the learner's: by mouse, so with no window in front and no drag
\* under way.
Edit(x) ==
  /\ Budget /\ window = Closed /\ origin = None
  /\ Commit(x)
  /\ late' = late \cup Overtakes
  /\ UNCHANGED <<window, flight>>

\* The open window does not look at the document again, nor does a command in
\* flight.
LeftBehind(x) ==
  (IF window.dev \in Placed(x) /\ x.devices[window.dev].config # window.config
   THEN {"window"} ELSE {})
  \cup (IF command.dev # None THEN {"command"} ELSE {})

\* A window whose device is gone is gone too.
WindowOn(x) == IF window.dev \in Placed(x) THEN window ELSE Closed
CommandOn(x) == IF window.dev \in Placed(x) THEN command
                                            ELSE [command EXCEPT !.mounted = FALSE]

\* undo and redo.
Undo ==
  /\ past # <<>> /\ Budget
  /\ doc' = Top(past) /\ past' = Pop(past)
  /\ future' = Append(future, doc)
  /\ dirty' = TRUE
  /\ window' = WindowOn(doc') /\ command' = CommandOn(doc')
  /\ late' = late \cup Overtakes \cup LeftBehind(doc')
  /\ UNCHANGED <<origin, cables, saves, row, stored>>

Redo ==
  /\ future # <<>> /\ Budget
  /\ doc' = Top(future) /\ future' = Pop(future)
  /\ past' = Append(past, doc)
  /\ dirty' = TRUE
  /\ window' = WindowOn(doc') /\ command' = CommandOn(doc')
  /\ late' = late \cup Overtakes \cup LeftBehind(doc')
  /\ UNCHANGED <<origin, cables, saves, row, stored>>

\* replaceDocument with an imported file.
Import ==
  /\ Budget /\ window = Closed /\ origin = None
  /\ doc' = EmptyDoc /\ past' = <<>> /\ future' = <<>> /\ dirty' = TRUE
  /\ late' = late \cup Overtakes
  /\ UNCHANGED <<origin, window, flight, row, stored>>

-----------------------------------------------------------------------------
(* Edits *)

AddDevice(d) ==
  /\ d \notin Placed(doc)
  /\ Edit([doc EXCEPT !.devices = [e \in Placed(doc) \cup {d} |->
             IF e = d THEN Fresh ELSE doc.devices[e]]])

\* renameDevice, labelDevice.
Describe(d) ==
  /\ d \in Placed(doc)
  /\ Edit(Device(doc, d, [doc.devices[d] EXCEPT !.look = 1 - @]))

WithoutDeviceOnly(d) ==     \* mutant: its cables stay
  [doc EXCEPT !.devices = [e \in Placed(doc) \ {d} |-> doc.devices[e]]]

\* removeDevice: its cables go with it.
WithoutDevice(d) ==
  [doc EXCEPT !.devices = [e \in Placed(doc) \ {d} |-> doc.devices[e]],
              !.links = {l \in @ : \A e \in l.ends : e[1] # d}]
RemoveDevice(d) ==
  /\ d \in Placed(doc)
  /\ Edit(WithoutDevice(d))

RemoveLink(l) == Edit([doc EXCEPT !.links = @ \ {l}])

\* updateLink, from the inspector: one end moves to a port that is free.
Rewire(l, e) ==
  /\ e[1] \in Placed(doc) /\ FreePorts(doc, e[1]) # {}
  /\ \E p \in FreePorts(doc, e[1]) :
       Edit([doc EXCEPT !.links = (@ \ {l}) \cup
               {[l EXCEPT !.ends = (@ \ {e}) \cup {<<e[1], p>>}]}])

\* addGroup, removeGroup (which clears the membership), assignToGroup.
AddGroup    == ~doc.group /\ Edit([doc EXCEPT !.group = TRUE])
RemoveGroup ==
  /\ doc.group
  /\ Edit([doc EXCEPT !.group = FALSE, !.devices = [d \in Placed(doc) |->
             [doc.devices[d] EXCEPT !.grouped = FALSE]]])
Assign(d) ==
  /\ d \in Placed(doc) /\ doc.group
  /\ Edit(Device(doc, d, [doc.devices[d] EXCEPT !.grouped = ~@]))

\* moveDevice, on every frame of the drag of one device: no entry in the history.
Drag(d) ==
  /\ d \in Placed(doc) /\ window = Closed /\ Budget
  /\ origin # None => \A e \in Placed(doc) \ {d} :
       e \in Placed(origin) /\ origin.devices[e].look = doc.devices[e].look
  /\ origin' = IF origin = None THEN doc ELSE origin
  /\ doc' = Device(doc, d, [doc.devices[d] EXCEPT !.look = 1 - @])
  /\ dirty' = TRUE
  /\ late' = late \cup (Overtakes \ {"drag"})
  /\ UNCHANGED <<past, future, window, flight, row, stored>>

DragLeavesNoEntry(x) == past     \* mutant

\* commitMove, when the pointer lets go.
DragPushes(x) == Pushed(x)
Drop ==
  /\ origin # None
  /\ past' = DragPushes(origin) /\ future' = <<>>
  /\ origin' = None
  /\ UNCHANGED <<doc, dirty, window, flight, row, stored, late, edits>>

-----------------------------------------------------------------------------
(* The configuration window *)

OpenWindow(d) ==
  /\ d \in Placed(doc) /\ window = Closed /\ origin = None
  /\ window' = [dev |-> d, config |-> doc.devices[d].config]
  /\ UNCHANGED <<editor, flight, row, stored, late, edits>>

CloseWindow ==
  /\ window # Closed
  /\ window' = Closed
  /\ command' = [command EXCEPT !.mounted = FALSE]
  /\ UNCHANGED <<editor, cables, saves, row, stored, late, edits>>

Configured(x, d, c) ==
  IF d \in Placed(x) THEN Device(x, d, [x.devices[d] EXCEPT !.config = c]) ELSE x

WindowForgets(c) == window     \* mutant: setConfig is not called

WindowHolds(c) == [window EXCEPT !.config = c]

\* A form: applyPatch works on the window's copy and writes it to the document.
Patch(e) ==
  /\ window # Closed /\ e \notin window.config /\ Budget
  /\ LET c == window.config \cup {e}
     IN  /\ Commit(Configured(doc, window.dev, c))
         /\ window' = WindowHolds(c)
  /\ late' = late \cup Overtakes \cup (IF command.dev = window.dev THEN {"command"} ELSE {})
  /\ UNCHANGED flight

\* A console line that changes the configuration: the answer holds the whole of
\* it, worked out on the server from the copy that was sent.
SendCommand(e) ==
  /\ window # Closed /\ command.dev = None /\ e \notin window.config
  /\ command' = [dev |-> window.dev, config |-> window.config \cup {e}, mounted |-> TRUE]
  /\ UNCHANGED <<editor, window, cables, saves, row, stored, late, edits>>

CommandAnswered ==
  /\ command.dev # None /\ Budget
  /\ Commit(Configured(doc, command.dev, command.config))
  /\ window' = IF command.mounted THEN WindowHolds(command.config) ELSE window
  /\ late' = late \cup Overtakes \cup
       (IF ~command.mounted /\ window.dev = command.dev THEN {"window"} ELSE {})
  /\ command' = NoCommand
  /\ UNCHANGED <<cables, saves>>

CommandFails ==
  /\ command.dev # None
  /\ command' = NoCommand
  /\ UNCHANGED <<editor, window, cables, saves, row, stored, late, edits>>

-----------------------------------------------------------------------------
(* Cables *)

\* onConnect asks suggest_link for the first free port of each device.
FirstFree(x, d) == First(FreePorts(x, d))
Connect(d, e) ==
  /\ {d, e} \subseteq Placed(doc) /\ d # e /\ window = Closed
  /\ FreePorts(doc, d) # {} /\ FreePorts(doc, e) # {}
  /\ Cardinality(cables) < 2
  /\ \E n \in 1..4 :
       /\ n \notin {l.id : l \in doc.links \cup cables}
       /\ \A m \in 1..n - 1 : m \in {l.id : l \in doc.links \cup cables}
       /\ cables' = cables \cup
            {[id |-> n, ends |-> {<<d, FirstFree(doc, d)>>, <<e, FirstFree(doc, e)>>}]}
  /\ UNCHANGED <<editor, window, command, saves, row, stored, late, edits>>

Plug(l) ==
  /\ Budget
  /\ Commit([doc EXCEPT !.links = @ \cup {l}])
  /\ late' = late \cup Overtakes \cup
       (IF \E e \in l.ends : e[1] \notin Placed(doc) \/ Occupied(doc, e)
        THEN {"cable"} ELSE {})
  /\ cables' = cables \ {l}
  /\ UNCHANGED <<window, command, saves>>

ConnectFails(l) ==
  /\ cables' = cables \ {l}
  /\ UNCHANGED <<editor, window, command, saves, row, stored, late, edits>>

-----------------------------------------------------------------------------
(* Saving *)

\* The button or Ctrl+S, which nothing holds back while a save is in flight.
Save ==
  /\ Len(saves) < MaxSaves
  /\ saves' = Append(saves, [doc |-> doc, row |-> row, page |-> row, at |-> "sent"])
  /\ late' = late \cup (IF saves # <<>> THEN {"save"} ELSE {})
  /\ UNCHANGED <<editor, window, command, cables, row, stored, edits>>

Accepted(x) == Valid(x)

\* create and update.
Serve(i) ==
  /\ i \in DOMAIN saves /\ saves[i].at = "sent"
  /\ LET s == saves[i]
     IN  IF ~Accepted(s.doc) \/ (s.row = 0 /\ Len(stored) >= RowLimit)
         THEN /\ saves' = [saves EXCEPT ![i].at = "refused"]
              /\ UNCHANGED stored
         ELSE IF s.row = 0
         THEN /\ stored' = Append(stored, s.doc)
              /\ saves' = [saves EXCEPT ![i].at = "ok", ![i].row = Len(stored) + 1]
         ELSE /\ stored' = [stored EXCEPT ![s.row] = s.doc]
              /\ saves' = [saves EXCEPT ![i].at = "ok"]
  /\ UNCHANGED <<editor, window, command, cables, row, late, edits>>

Without(s, i) == SubSeq(s, 1, i - 1) \o SubSeq(s, i + 1, Len(s))

SavedAnyAnswer(i) ==     \* mutant: a refused save marks the document clean
  /\ i \in DOMAIN saves /\ saves[i].at # "sent" /\ saves[i].page = row /\ row # 0
  /\ dirty' = FALSE
  /\ saves' = Without(saves, i)
  /\ UNCHANGED <<doc, past, future, origin, window, command, cables, row, stored, late, edits>>

\* The answer to a save of the document on the page: markSaved.
Saved(i) ==
  /\ i \in DOMAIN saves /\ saves[i].at = "ok" /\ saves[i].page = row /\ row # 0
  /\ dirty' = FALSE
  /\ saves' = Without(saves, i)
  /\ UNCHANGED <<doc, past, future, origin, window, command, cables, row, stored, late, edits>>

\* The answer to a creation: the page moves to the new topology's address and
\* starts again from what is stored there.
Created(i) ==
  /\ i \in DOMAIN saves /\ saves[i].at = "ok" /\ saves[i].page = 0
  /\ row' = saves[i].row
  /\ doc' = stored[row']
  /\ past' = <<>> /\ future' = <<>> /\ dirty' = FALSE /\ origin' = None
  /\ window' = Closed /\ command' = NoCommand /\ cables' = {}
  /\ saves' = Without(saves, i)
  /\ UNCHANGED <<stored, late, edits>>

\* Refused, lost, or about a page that is no longer shown.
SaveOver(i) ==
  /\ i \in DOMAIN saves
  /\ \/ saves[i].at # "ok"
     \/ saves[i].page # row /\ saves[i].page # 0
  /\ saves' = Without(saves, i)
  /\ UNCHANGED <<editor, window, command, cables, row, stored, late, edits>>

-----------------------------------------------------------------------------
Next ==
  \/ Undo \/ Redo \/ Import \/ AddGroup \/ RemoveGroup \/ Drop \/ CloseWindow
  \/ CommandAnswered \/ CommandFails \/ Save
  \/ \E d \in Devices : \/ AddDevice(d) \/ Describe(d) \/ RemoveDevice(d) \/ Assign(d)
                        \/ Drag(d) \/ OpenWindow(d)
                        \/ \E e \in Devices : Connect(d, e)
  \/ \E l \in doc.links : RemoveLink(l) \/ \E e \in l.ends : Rewire(l, e)
  \/ \E l \in cables : Plug(l) \/ ConnectFails(l)
  \/ \E e \in ConfigEdits : Patch(e) \/ SendCommand(e)
  \/ \E i \in 1..MaxSaves : Serve(i) \/ Saved(i) \/ Created(i) \/ SaveOver(i)

Spec == Init /\ [][Next]_vars

-----------------------------------------------------------------------------
(* Properties *)

Reverse(s) == [i \in DOMAIN s |-> s[Len(s) + 1 - i]]
Timeline   == past \o <<doc>> \o Reverse(future)

TypeOK ==
  /\ \A i \in DOMAIN Timeline : IsDocument(Timeline[i])
  /\ \A i \in DOMAIN stored : IsDocument(stored[i])
  /\ origin = None \/ IsDocument(origin)
  /\ cables \subseteq Cable
  /\ {window.dev, command.dev} \subseteq Devices \cup {None}
  /\ {window.config, command.config} \subseteq SUBSET ConfigEdits
  /\ dirty \in BOOLEAN /\ row \in 0..Len(stored) /\ edits \in 0..MaxEdits
  /\ late \subseteq {"drag", "save", "window", "command", "cable"}

\* Every document the learner can get to by editing, undoing and redoing passes
\* the server's validation: no cable to a device that is gone, no port with two
\* cables, no membership of a group that is gone (removeDevice, removeGroup) -
\* unless a cable was suggested for a document that had changed since.
DocumentsValid ==
  "cable" \notin late => \A i \in DOMAIN Timeline : Valid(Timeline[i])

\* One undo takes back one edit: neighbours in the history differ in one device,
\* one cable or the group.  A drag counts as one, unless something else reached
\* the document before the pointer let go.
SameBut(D, a, b) == \A d \in (Placed(a) \cup Placed(b)) \ D :
                      d \in Placed(a) \cap Placed(b) /\ a.devices[d] = b.devices[d]
Changed(a, b) == {f \in {"look", "config", "grouped"} : a[f] # b[f]}
OneEdit(a, b) ==
  \/ a = b
  \/ /\ a.devices = b.devices /\ a.group = b.group
     /\ Cardinality(a.links \ b.links) <= 1 /\ Cardinality(b.links \ a.links) <= 1
  \/ /\ a.links = b.links /\ a.group # b.group /\ Placed(a) = Placed(b)
     /\ \A d \in Placed(a) : Changed(a.devices[d], b.devices[d]) \subseteq {"grouped"}
  \/ \E d \in Devices :
       /\ SameBut({d}, a, b) /\ a.group = b.group
       /\ \A l \in (a.links \ b.links) \cup (b.links \ a.links) : \E e \in l.ends : e[1] = d
       /\ d \in Placed(a) \cap Placed(b) =>
            a.links = b.links /\ Cardinality(Changed(a.devices[d], b.devices[d])) = 1
OneUndoOneEdit ==
  origin = None /\ "drag" \notin late =>
    \A i \in 1..Len(Timeline) - 1 : OneEdit(Timeline[i], Timeline[i + 1])

\* A page that does not say "Unsaved changes" shows what is stored, unless
\* something reached the document, or another save was sent, during a save.
CleanMeansStored ==
  ~dirty /\ "save" \notin late =>
    doc = IF row = 0 THEN EmptyDoc ELSE stored[row]

\* A new edit, made or made again, never takes a configuration change back, unless
\* a drag was overtaken, or it was made while a console command was in flight or in
\* a window that was left behind.
ConfigSurvives ==
  [][past' # <<>> /\ Top(past') = doc /\ late' \cap {"drag", "window", "command"} = {} =>
       \A d \in Placed(doc) \cap Placed(doc') :
         doc.devices[d].config \subseteq doc'.devices[d].config]_vars
=============================================================================
