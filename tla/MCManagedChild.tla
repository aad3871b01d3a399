--------------------------- MODULE MCManagedChild ---------------------------
(* A command and an invocation at the same time.                           *)
EXTENDS ManagedChild

CONSTANTS j1, j2

MCKind == [t \in Jobs |-> IF t = j1 THEN "command" ELSE "invocation"]
=============================================================================
