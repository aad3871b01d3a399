-------------------------- MODULE MCRunPersistence --------------------------
(***************************************************************************)
(* Runs for TLC: m of the matrix, p of a pillar, s of storage.             *)
(***************************************************************************)
EXTENDS RunPersistence

CONSTANTS m, p, s

MCKind == [r \in Runs |-> CASE r = m -> "matrix"
                            [] r = p -> "pillar"
                            [] r = s -> "storage"]
=============================================================================
