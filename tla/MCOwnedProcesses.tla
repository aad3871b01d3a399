--------------------------- MODULE MCOwnedProcesses ---------------------------
(* More PIDs than processes ever start, so that one may be given out again *)
(* while the others still have theirs.                                     *)
EXTENDS OwnedProcesses
=============================================================================
