------------------------- MODULE BarrierCoordinator -------------------------
(***************************************************************************)
(* The named barriers of src/src/workflow.rs: requests register the actor  *)
(* they speak for, the runner waits until every actor of a barrier is      *)
(* registered and then releases it, and the held requests go on.           *)
(*                                                                         *)
(* reached and released sit behind one Mutex; the Notify beside it wakes   *)
(* with notify_waiters every Notified future created before the call.      *)
(* A task's future is modelled by notified[t]: FALSE from its creation,    *)
(* TRUE once a notify_waiters call has found it.                           *)
(***************************************************************************)
EXTENDS WorkflowMachine

CONSTANT Tasks     \* the tasks that wait on the coordinator

VARIABLES reached, released, notified

barrierVars == <<reached, released, notified>>

BarrierTypeOK ==
    /\ reached \in [Barriers -> SUBSET Actors]
    /\ released \in SUBSET Barriers
    /\ notified \in [Tasks -> BOOLEAN]

BarrierInit ==
    /\ reached = [b \in Barriers |-> {}]
    /\ released = {}
    /\ notified = [t \in Tasks |-> FALSE]

MayEnter(b, m) ==
    m.checkpoint = BarrierCheckpoint[b] /\ m.actor \in BarrierActors[b]

IsReady(b) == BarrierActors[b] \subseteq reached[b]

\* The locked half of arrive; the caller notifies only if this was news.
RegisterArrival(b, a) ==
    /\ reached' = [reached EXCEPT ![b] = @ \cup {a}]
    /\ UNCHANGED <<released, notified>>

\* Mutant: the checkpoint's name is inserted for the barrier's.
InsertReleased_Checkpoint(b) ==
    /\ released' = released \cup {BarrierCheckpoint[b]}
    /\ UNCHANGED <<reached, notified>>

\* The locked half of release, after its own is_ready check.
InsertReleased(b) ==
    /\ released' = released \cup {b}
    /\ UNCHANGED <<reached, notified>>

\* Mutant: notify_one.
NotifyWaiters_One ==
    /\ \E t \in Tasks : notified' = [notified EXCEPT ![t] = TRUE]
    /\ UNCHANGED <<reached, released>>

NotifyWaiters ==
    /\ notified' = [t \in Tasks |-> TRUE]
    /\ UNCHANGED <<reached, released>>

CreateNotified(t) ==
    /\ notified' = [notified EXCEPT ![t] = FALSE]
    /\ UNCHANGED <<reached, released>>
=============================================================================
