--------------------------- MODULE MCMockHarness ---------------------------
(***************************************************************************)
(* Two turns for TLC, whose calls write one file: both calls in a frame of *)
(* the first turn, or one in each.  The first is held before its effect,   *)
(* the second after it or not.                                             *)
(***************************************************************************)
EXTENDS MockHarness

CONSTANTS t1, t2, c1, c2, w1, w2

MCPlan == [t \in Turns |-> IF t = t1 THEN <<<<c1, c2>>>> ELSE <<>>]

HeldBoth == [c \in Calls |-> IF c = c1 THEN "before-effect" ELSE "after-commit"]

HeldOne == [c \in Calls |-> IF c = c1 THEN "before-effect" ELSE "none"]

OnePlan == [t \in Turns |-> IF t = t1 THEN <<<<c1>>>> ELSE <<<<c2>>>>]

MCPathOf == [c \in Calls |-> "a"]
=============================================================================
