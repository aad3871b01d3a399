-------------------------- MODULE MCFakeModelEngine --------------------------
(* Small workflows for FakeModelEngine.  Race: two actors meet at a barrier *)
(* while requests repeat and contradict each other.  Context: one actor    *)
(* whose only response is a context-length fault, behind the storage gate. *)
EXTENDS FakeModelEngine, TLC

CONSTANTS a1, a2, x1, c1, c2, h1, h2, b1, r1, r2, r3

In(a, c, h, s) == [marker |-> [actor |-> a, checkpoint |-> c], hash |-> h, size |-> s]
Say(c, h, b, f) == [checkpoint |-> c, hash |-> h, barrier |-> b, fault |-> f]

RaceScript ==
    (a1 :> << Say(c1, AnyHash, b1, "none"), Say(c2, h1, NoBarrier, "transport") >>)
    @@ (a2 :> << Say(c1, AnyHash, b1, "none") >>)
RaceBarrierActors == b1 :> {a1, a2}
BarrierAtC1 == b1 :> c1
RaceInputs ==
    { In(a1, c1, h1, "big"), In(a1, c1, h2, "big"), In(a2, c1, h1, "big") }

ContextScript ==
    a1 :> << Say(c1, AnyHash, b1, "context-length"), Say(c2, h1, NoBarrier, "none") >>
ContextBarrierActors == b1 :> {a1}
ContextInputs ==
    { In(a1, c1, h1, "exact"), In(a1, c1, h2, "fits"), In(a1, c1, h2, "big"),
      In(a1, c2, h1, "fits"), In(a1, c2, h2, "fits"), In(x1, c1, h1, "fits") }

AllTasks == Requests \cup Barriers
RequestSymmetry == Permutations(Requests)
=============================================================================
