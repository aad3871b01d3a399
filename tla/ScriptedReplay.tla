---------------------------- MODULE ScriptedReplay ----------------------------
(***************************************************************************)
(* What the fake provider promises a benchmark, without requests, locks or *)
(* retries: each actor is given its scripted responses in order, a barrier *)
(* opens when all its actors have been given the response that names it,   *)
(* and a response behind a barrier is not sent before the barrier opens.   *)
(***************************************************************************)
EXTENDS Naturals, Sequences

CONSTANTS Actors, Barriers, NoBarrier, Script, BarrierActors

VARIABLES
    given,     \* how many responses each actor has been given
    open,      \* barriers the runner has opened
    sent       \* <<actor, index>> of responses that have left the provider

vars == <<given, open, sent>>

Init ==
    /\ given = [a \in Actors |-> 0]
    /\ open = {}
    /\ sent = {}

Give(a) ==
    /\ given[a] < Len(Script[a])
    /\ given' = [given EXCEPT ![a] = @ + 1]
    /\ UNCHANGED <<open, sent>>

Open(b) ==
    /\ \A a \in BarrierActors[b] :
          \E i \in 1 .. given[a] : Script[a][i].barrier = b
    /\ open' = open \cup {b}
    /\ UNCHANGED <<given, sent>>

Send(a, i) ==
    /\ i \in 1 .. given[a]
    /\ Script[a][i].barrier \in open \cup {NoBarrier}
    /\ sent' = sent \cup {<<a, i>>}
    /\ UNCHANGED <<given, open>>

Next ==
    \/ \E a \in Actors : Give(a) \/ \E i \in 1 .. given[a] : Send(a, i)
    \/ \E b \in Barriers : Open(b)

Spec == Init /\ [][Next]_vars
=============================================================================
