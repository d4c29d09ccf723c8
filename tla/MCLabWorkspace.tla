-------------------------- MODULE MCLabWorkspace ---------------------------
(***************************************************************************)
(* A lab with two documents, the untouched one and one that solves it.     *)
(***************************************************************************)
EXTENDS LabWorkspace

CONSTANTS untouched, solution

BothDocs == {untouched, solution}

\* With one attempt every property but the first half of AnnouncedIsRecorded
\* holds by its own words once saves have crossed, and they stay crossed: what
\* follows the step in which they do has nothing more to show.
Uncrossed == crossed = {}
=============================================================================
