--------------------------- MODULE WorkflowMachine ---------------------------
(***************************************************************************)
(* The per-actor transition validator of src/src/workflow.rs: every actor  *)
(* of a workflow has an ordered script of responses, each answering one    *)
(* checkpoint.  The machine remembers how far each actor has come and the  *)
(* canonical hash each answered checkpoint was asked with.                 *)
(*                                                                         *)
(* The machine's state sits behind one tokio Mutex, so Recognize and       *)
(* Accept are each one atomic step of whoever calls them; what happens     *)
(* between the two belongs to the caller (module FakeModelEngine).         *)
(***************************************************************************)
EXTENDS Naturals, Sequences

CONSTANTS
    Actors,        \* the workflow's actors
    Strangers,     \* actor ids of markers that name no actor of the workflow,
                   \* or that carry another scenario
    Checkpoints,   \* checkpoint names a marker may carry
    Hashes,        \* canonical request hashes
    AnyHash,       \* an empty request_hash: bind the first canonical request
    NotSeen,       \* no hash yet for a checkpoint
    Barriers,      \* barrier names
    NoBarrier,     \* a response without a barrier
    Script,        \* actor -> its ordered scripted responses
    BarrierActors, \* barrier -> the actors that must reach it
    BarrierCheckpoint  \* barrier -> the checkpoint they reach it at

Faults == {"none", "transport", "context-length"}

ScriptedResponses ==
    [checkpoint : Checkpoints, hash : Hashes \cup {AnyHash},
     barrier : Barriers \cup {NoBarrier}, fault : Faults]

Markers == [actor : Actors \cup Strangers, checkpoint : Checkpoints]

ASSUME SentinelsAssumption ==
    /\ AnyHash \notin Hashes /\ NotSeen \notin Hashes
    /\ NoBarrier \notin Barriers
    /\ Actors \cap Strangers = {}

\* What Workflow::validate establishes before a machine is built.
Validate ==
    /\ Script \in [Actors -> Seq(ScriptedResponses)]
    /\ BarrierActors \in [Barriers -> SUBSET Actors]
    /\ BarrierCheckpoint \in [Barriers -> Checkpoints]
    /\ \A a \in Actors : \A i, j \in DOMAIN Script[a] :
          Script[a][i].checkpoint = Script[a][j].checkpoint => i = j
    /\ \A a \in Actors : \A i \in DOMAIN Script[a] :
          Script[a][i].barrier # NoBarrier =>
             /\ a \in BarrierActors[Script[a][i].barrier]
             /\ BarrierCheckpoint[Script[a][i].barrier] = Script[a][i].checkpoint
    /\ \A b \in Barriers :
          /\ BarrierActors[b] # {}
          /\ \A a \in BarrierActors[b] : \E i \in DOMAIN Script[a] :
                /\ Script[a][i].barrier = b
                /\ Script[a][i].checkpoint = BarrierCheckpoint[b]

ASSUME WorkflowValid == Validate

VARIABLES
    nextByActor,   \* how many of its responses each actor has been given
    seen           \* <<actor, checkpoint>> -> the hash it was accepted with

machineVars == <<nextByActor, seen>>

MachineTypeOK ==
    /\ nextByActor \in [Actors -> Nat]
    /\ seen \in [Actors \X Checkpoints -> Hashes \cup {NotSeen}]

MachineInit ==
    /\ nextByActor = [a \in Actors |-> 0]
    /\ seen = [k \in Actors \X Checkpoints |-> NotSeen]

Key(m) == <<m.actor, m.checkpoint>>

\* The actor's next scripted response exists and answers this checkpoint.
IsNext(m) ==
    /\ nextByActor[m.actor] < Len(Script[m.actor])
    /\ Script[m.actor][nextByActor[m.actor] + 1].checkpoint = m.checkpoint

Recognize(m) ==
    CASE m.actor \in Actors /\ seen[Key(m)] # NotSeen -> "Retry"
      [] m.actor \in Actors /\ seen[Key(m)] = NotSeen /\ IsNext(m) -> "Current"
      [] OTHER -> "NonPrimary"

\* The position in its actor's script of the response for a checkpoint.
IndexOf(m) ==
    CHOOSE i \in DOMAIN Script[m.actor] : Script[m.actor][i].checkpoint = m.checkpoint

ResponseForCheckpoint(m) == Script[m.actor][IndexOf(m)]

CanRetry(m, h) == m.actor \in Actors /\ seen[Key(m)] = h

\* Mutant: accept trusts the recognition made in the earlier critical section.
CanAdvance_TrustRecognition(m, h) ==
    /\ m.actor \in Actors
    /\ nextByActor[m.actor] < Len(Script[m.actor])
    /\ Script[m.actor][nextByActor[m.actor] + 1].hash \in {AnyHash, h}

CanAdvance(m, h) ==
    /\ m.actor \in Actors
    /\ seen[Key(m)] = NotSeen
    /\ IsNext(m)
    /\ Script[m.actor][nextByActor[m.actor] + 1].hash \in {AnyHash, h}

\* Mutant: the position is advanced by somebody else, later.
Advance_SeenOnly(m, h) ==
    /\ CanAdvance(m, h)
    /\ seen' = [seen EXCEPT ![Key(m)] = h]
    /\ UNCHANGED nextByActor

\* accept on the locked state: the first request for the actor's next
\* checkpoint advances it, an identical one returns the response again, and
\* everything else is refused without a trace.
Advance(m, h) ==
    /\ CanAdvance(m, h)
    /\ seen' = [seen EXCEPT ![Key(m)] = h]
    /\ nextByActor' = [nextByActor EXCEPT ![m.actor] = @ + 1]

\* Mutant: a retry rebinds its checkpoint to the hash it came with.
AcceptRetry_Rebind(m, h) ==
    /\ m.actor \in Actors /\ seen[Key(m)] # NotSeen
    /\ seen' = [seen EXCEPT ![Key(m)] = h]
    /\ UNCHANGED nextByActor

AcceptRetry(m, h)  == CanRetry(m, h) /\ UNCHANGED machineVars

Reject(m, h) ==
    ~CanRetry(m, h) /\ ~CanAdvance(m, h) /\ UNCHANGED machineVars

-----------------------------------------------------------------------------
(* An actor has seen exactly the checkpoints of the responses it was given: *)
(* the two maps of MachineState, updated side by side, always agree.        *)
SeenIsScriptPrefix ==
    \A a \in Actors : \A c \in Checkpoints :
        seen[<<a, c>>] # NotSeen <=>
            \E i \in DOMAIN Script[a] :
                i <= nextByActor[a] /\ Script[a][i].checkpoint = c

(* A step gives at most one actor its next response and never forgets or   *)
(* rebinds the hash a checkpoint was first accepted with.                  *)
ScriptOnlyAdvances ==
    [][ /\ \A a \in Actors : nextByActor'[a] \in nextByActor[a] .. nextByActor[a] + 1
        /\ \A k \in Actors \X Checkpoints : seen[k] # NotSeen => seen'[k] = seen[k]
      ]_machineVars
=============================================================================
