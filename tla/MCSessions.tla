----------------------------- MODULE MCSessions -----------------------------
(* One tab with two calls, or two tabs with one call each, over a network   *)
(* that delivers and over one that does not.                                *)
EXTENDS Sessions

MCSettings ==
  {[tabs |-> 1, calls |-> 2, lossy |-> FALSE], [tabs |-> 1, calls |-> 1, lossy |-> TRUE],
   [tabs |-> 2, calls |-> 1, lossy |-> FALSE], [tabs |-> 2, calls |-> 0, lossy |-> TRUE]}
=============================================================================
