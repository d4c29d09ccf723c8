----------------------------- MODULE MCDesigner -----------------------------
(***************************************************************************)
(* The designer and the console of one of its devices, which do not touch  *)
(* each other's state and are tried one at a time.                         *)
(*                                                                         *)
(* The designer: two devices with two ports, two changes to a              *)
(* configuration, a history of two documents and three edits, at most two  *)
(* requests in flight, and no further than the first kind of answer that   *)
(* was overtaken.  The console: two interfaces, three subnets of which one *)
(* lies in another, two VLANs.                                             *)
(***************************************************************************)
EXTENDS TopologyEditor, DeviceConsole, TLC

CONSTANTS d1, d2, e1, e2, i1, i2, wide, narrow, other, n1

MCDevices     == {d1, d2}
MCConfigEdits == {e1, e2}
Alike         == Permutations(MCDevices) \cup Permutations(MCConfigEdits)
Bounded ==
  /\ Cardinality(late) <= 1
  /\ Len(saves) + Cardinality(cables) + Cardinality({command.dev} \ {None}) <= 2

MCInterfaces == {i1, i2}
MCSubnets    == {wide, narrow, other}
MCOverlaps   ==
  {<<sub, sub>> : sub \in MCSubnets} \cup {<<wide, narrow>>, <<narrow, wide>>}
MCNames      == {n1}

VARIABLE
  trial          \* what is tried in this behaviour

DesignerInit ==
  /\ trial \in {"designer", "console"}
  /\ Init /\ (trial = "console" => row = 0)
  /\ ConsoleInit

Design ==
  /\ trial = "designer" /\ Next
  /\ UNCHANGED <<consoleVars, trial>>

Type ==
  /\ trial = "console" /\ ConsoleNext
  /\ UNCHANGED <<vars, trial>>

DesignerNext == Design \/ Type

DesignerSpec == DesignerInit /\ [][DesignerNext]_<<vars, consoleVars, trial>>
=============================================================================
