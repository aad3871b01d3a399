------------------------------ MODULE MCRowTiming ------------------------------
(* A recovering row at the top level, and a collection that times two rows *)
(* together with two clients, each with a driver of its own or on the same.*)
EXTENDS RowTiming, TLC

CONSTANTS recovering, shared1, shared2, sr, sc1, sc2, m1, m2, o1, o2, o3

MCCollections == {{shared1, shared2}}
MCWork == [s \in Sessions |-> IF s = sr THEN {recovering} ELSE {shared1, shared2}]

\* Drivers of a kind, and the clients and the rows of the collection, are
\* interchangeable.
MCSymmetry ==
    UNION {Permutations({m1, m2}), Permutations({o1, o2, o3}),
           Permutations({sc1, sc2}), Permutations({shared1, shared2})}
=============================================================================
