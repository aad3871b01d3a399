----------------------------- MODULE MCRowSchedule -----------------------------
(* One row of each kind, with the numbers they have in the matrix.  Row 69  *)
(* has two sessions.  Row 51 lacks its capability, so row 73, which is      *)
(* measured with it, is not measured either.                                *)
EXTENDS RowSchedule

MixedRows    == {16, 20, 31, 35, 36, 42, 50, 51, 69, 73}
MixedTop     == {16, 31, 35, 36, 69}
MixedSupport == MixedRows \ {51}
MixedActors  == [r \in MixedTop |-> IF r = 69 THEN 2 ELSE 1]
MixedCollections == {{42}, {50}, {51, 73}}
MixedLeader  == [c \in {{50}, {51, 73}} |-> IF c = {50} THEN 50 ELSE 51]
MixedLenient == {{50}, {51, 73}}

\* Two rows, one of which has two sessions.
LossRows   == {67, 69}
LossActors == [r \in LossRows |-> IF r = 67 THEN 2 ELSE 1]

NoLeaders  == [c \in {} |-> 0]
=============================================================================
