----------------------------- MODULE TurnLedger -----------------------------
(***************************************************************************)
(* What a session of the mock harness promises, whatever dies and however  *)
(* often it is resumed: a turn is accepted once, only the turn that is     *)
(* open has effects, and an effect is committed once.  The journal of      *)
(* MockHarness implements this ledger.                                     *)
(***************************************************************************)
EXTENDS Naturals

CONSTANTS Turns, Calls, NoTurn

VARIABLES
    accepted, open,
    effects      \* each with its turn, its call and its place among them

ledgerVars == <<accepted, open, effects>>

Init == accepted = {} /\ open = NoTurn /\ effects = {}

\* A turn that is still open when another is accepted has been given up.
Accept(t) ==
    /\ t \notin accepted
    /\ accepted' = accepted \cup {t} /\ open' = t
    /\ UNCHANGED effects

\* One more effect, after all others.
Commit(c) ==
    /\ open # NoTurn
    /\ \A e \in effects : e.call # c
    /\ \E new \in effects' :
         /\ new.turn = open /\ new.call = c
         /\ \A e \in effects : e.at < new.at
         /\ effects' = effects \cup {new}
    /\ UNCHANGED <<accepted, open>>

End ==
    /\ open # NoTurn
    /\ open' = NoTurn
    /\ UNCHANGED <<accepted, effects>>

Next == (\E t \in Turns : Accept(t)) \/ (\E c \in Calls : Commit(c)) \/ End

Spec == Init /\ [][Next]_ledgerVars
=============================================================================
