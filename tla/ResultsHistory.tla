--------------------------- MODULE ResultsHistory ---------------------------
(***************************************************************************)
(* What results/index.jsonl promises: an append-only history whose lines   *)
(* are numbered in the order in which they are there.  A write cut short   *)
(* leaves a torn last line, and then the history is closed.                *)
(***************************************************************************)
EXTENDS Naturals, Sequences

CONSTANT Runs

VARIABLES
    history,   \* a sequence of [run, occurrence]
    closed     \* whether the last line is torn

AddLine(r) ==
    /\ ~closed
    /\ history' = Append(history, [run |-> r, occurrence |-> Len(history) + 1])
    /\ UNCHANGED closed

Tear ==
    /\ ~closed /\ closed' = TRUE
    /\ UNCHANGED history

Init == history = <<>> /\ closed = FALSE

Next == Tear \/ \E r \in Runs : AddLine(r)

Spec == Init /\ [][Next]_<<history, closed>>
=============================================================================
