--------------------------- MODULE FakeModelEngine ---------------------------
(***************************************************************************)
(* The scripted fake provider of src/src/fake_model.rs.  Every HTTP        *)
(* request is a task of its own that runs FakeModelEngine::handle_observed *)
(* and then mark_response_status; each step below ends where the code      *)
(* takes another lock or awaits, so any two requests interleave there.     *)
(*                                                                         *)
(* A request that the harness abandons is dropped by the HTTP server at    *)
(* whatever await it has reached, and may be sent again: duplicates,       *)
(* retries and conflicting retries are other requests with the same marker.*)
(***************************************************************************)
EXTENDS BarrierCoordinator, FiniteSets

CONSTANTS
    Requests,      \* physical HTTP requests
    Inputs,        \* what a harness may send: [marker, hash, size]
    StorageGate,   \* whether enable_storage_context_gate was called
    MaxDrops,      \* bound: how many requests the harness may abandon
    NoRequest      \* the request of a task that has not started

Sizes == {"exact", "fits", "big"}
    \* exact: window+256 tokens and 8*window+1024 bytes; fits: within the
    \* window and 8*window bytes; big: neither

ASSUME EngineAssumption ==
    /\ Inputs \subseteq [marker : Markers, hash : Hashes, size : Sizes]
    /\ StorageGate \in BOOLEAN
    /\ Tasks = Requests \cup Barriers
    /\ Requests \cap Barriers = {}

VARIABLES
    pc,            \* where each request's task is
    req,           \* its input, and what its task has learnt so far
    attempts,      \* attempt_sequences: marker -> attempts counted
    records,       \* requests: [marker, hash] -> records in push order
    faulted,       \* context_faulted_routes
    gate,          \* the two Notify permits of the StorageContextGate
    collector,     \* the storage collector that watches the gate
    runner         \* per barrier, the runner code that waits and releases

engineVars == <<pc, req, attempts, records, faulted, gate, collector, runner>>
vars == <<machineVars, barrierVars, engineVars>>

Roles == {"unclassified", "primary", "side-channel"}

Held   == {"arrive", "announce", "listen", "check", "await"}
Gone   == {"idle", "answered", "failed", "dropped"}
Primaries == {"advance", "retry", "recovery"}

RequestStates == Held \cup Gone \cup
    {"count", "record", "recognize", "route", "recover", "accept", "mark",
     "respond", "gated", "leaving", "fault", "aside", "stamp"}

\* Where a task has a lock or a Notify to await; announce, listen and respond
\* run on to the next of these without one.
AwaitPoints == RequestStates \ (Gone \cup {"announce", "listen", "respond"})

RunnerStates ==
    {"listen", "check", "await", "ready", "release", "announce",
     "released", "gaveup", "failed"}

Record == [by : Requests, attempt : Nat, accepted : BOOLEAN, role : Roles,
           status : BOOLEAN]

RequestInfo ==
    [marker : Markers, hash : Hashes, size : Sizes, attempt : Nat,
     verdict : {"none", "aside"} \cup Primaries, fault : Faults]

TaskTypeOK ==
    /\ pc \in [Requests -> RequestStates]
    /\ req \in [Requests -> RequestInfo \cup {NoRequest}]
    /\ \A r \in Requests : pc[r] # "idle" => req[r] \in RequestInfo

EngineTypeOK ==
    /\ TaskTypeOK
    /\ attempts \in [Markers -> Nat]
    /\ records \in [Markers \X Hashes -> Seq(Record)]
    /\ faulted \subseteq Markers
    /\ gate \in [arrived : BOOLEAN, release : BOOLEAN]
    /\ collector \in {"watching", "settling", "done", "left"}
    /\ runner \in [Barriers -> RunnerStates]

TypeOK == MachineTypeOK /\ BarrierTypeOK /\ EngineTypeOK

Init ==
    /\ MachineInit /\ BarrierInit
    /\ pc = [r \in Requests |-> "idle"]
    /\ req = [r \in Requests |-> NoRequest]
    /\ attempts = [m \in Markers |-> 0]
    /\ records = [k \in Markers \X Hashes |-> << >>]
    /\ faulted = {}
    /\ gate = [arrived |-> FALSE, release |-> FALSE]
    /\ collector = "watching"
    /\ runner = [b \in Barriers |-> "listen"]

RecordKey(r) == <<req[r].marker, req[r].hash>>
Response(r)  == ResponseForCheckpoint(req[r].marker)
Goto(r, l)   == pc' = [pc EXCEPT ![r] = l]
Step(r, from, to) == pc[r] = from /\ Goto(r, to)

-----------------------------------------------------------------------------
\* A request arrives with its body read and its marker parsed.
Receive(r) ==
    /\ Step(r, "idle", "count")
    /\ \E i \in Inputs :
          req' = [req EXCEPT ![r] =
             [marker |-> i.marker, hash |-> i.hash, size |-> i.size,
              attempt |-> 0, verdict |-> "none", fault |-> "none"]]
    /\ UNCHANGED <<machineVars, barrierVars, attempts, records, faulted, gate,
                   collector, runner>>

\* Mutant: the attempt number is the length of the request's own record list.
Count_ByRecords(r) ==
    /\ Step(r, "count", "record")
    /\ attempts' = [attempts EXCEPT ![req[r].marker] = @ + 1]
    /\ req' = [req EXCEPT ![r].attempt = Len(records[RecordKey(r)]) + 1]
    /\ UNCHANGED <<machineVars, barrierVars, records, faulted, gate, collector,
                   runner>>

\* Number the physical attempt of the semantic request.
Count(r) ==
    /\ Step(r, "count", "record")
    /\ attempts' = [attempts EXCEPT ![req[r].marker] = @ + 1]
    /\ req' = [req EXCEPT ![r].attempt = attempts'[req[r].marker]]
    /\ UNCHANGED <<machineVars, barrierVars, records, faulted, gate, collector,
                   runner>>

\* Push the attempt's evidence before anything is decided about it.
PushRecord(r) ==
    /\ Step(r, "record", "recognize")
    /\ records' = [records EXCEPT ![RecordKey(r)] = Append(@,
          [by |-> r, attempt |-> req[r].attempt, accepted |-> FALSE,
           role |-> "unclassified", status |-> FALSE])]
    /\ UNCHANGED <<machineVars, barrierVars, req, attempts, faulted, gate,
                   collector, runner>>

RecognizeRequest(r) ==
    /\ pc[r] = "recognize"
    /\ \/ Recognize(req[r].marker) = "Retry"      /\ Goto(r, "route")
       \/ Recognize(req[r].marker) = "Current"    /\ Goto(r, "accept")
       \/ Recognize(req[r].marker) = "NonPrimary" /\ Goto(r, "aside")
    /\ UNCHANGED <<machineVars, barrierVars, req, attempts, records, faulted,
                   gate, collector, runner>>

\* Mutant: every retry counts as a recovery, faulted or not.
ConsultFaultedRoutes_Never(r) ==
    /\ Step(r, "route", "recover")
    /\ UNCHANGED <<machineVars, barrierVars, req, attempts, records, faulted,
                   gate, collector, runner>>

\* A retry of a checkpoint whose context error was sent takes the recovery path.
ConsultFaultedRoutes(r) ==
    /\ pc[r] = "route"
    /\ Goto(r, IF req[r].marker \in faulted THEN "recover" ELSE "accept")
    /\ UNCHANGED <<machineVars, barrierVars, req, attempts, records, faulted,
                   gate, collector, runner>>

\* mark_request_accepted: the newest record under the request's key.
MarkAccepted(r, role) ==
    LET k == RecordKey(r) IN
    records' = [records EXCEPT ![k][Len(records[k])].accepted = TRUE,
                               ![k][Len(records[k])].role = role]

Recover(r) ==
    /\ Step(r, "recover", "stamp")
    /\ MarkAccepted(r, "primary")
    /\ req' = [req EXCEPT ![r].verdict = "recovery",
                          ![r].fault = IF req[r].size = "fits" THEN "none"
                                                               ELSE "context-length"]
    /\ UNCHANGED <<machineVars, barrierVars, attempts, faulted, gate, collector,
                   runner>>

\* WorkflowMachine::accept, on the state as it is now.
AcceptRequest(r) ==
    /\ pc[r] = "accept"
    /\ \/ /\ Advance(req[r].marker, req[r].hash)
          /\ req' = [req EXCEPT ![r].verdict = "advance"]
          /\ Goto(r, "mark")
       \/ /\ AcceptRetry(req[r].marker, req[r].hash)
          /\ req' = [req EXCEPT ![r].verdict = "retry"]
          /\ Goto(r, "mark")
       \/ /\ Reject(req[r].marker, req[r].hash)
          /\ Goto(r, "failed")
          /\ UNCHANGED req
    /\ UNCHANGED <<barrierVars, attempts, records, faulted, gate, collector, runner>>

MarkPrimary(r) ==
    /\ pc[r] = "mark"
    /\ MarkAccepted(r, "primary")
    /\ Goto(r, IF Response(r).barrier = NoBarrier THEN "respond" ELSE "arrive")
    /\ UNCHANGED <<machineVars, barrierVars, req, attempts, faulted, gate,
                   collector, runner>>

-----------------------------------------------------------------------------
(* The request waits at its response's barrier.                            *)

Arrive(r) ==
    LET b == Response(r).barrier IN
    /\ pc[r] = "arrive"
    /\ IF MayEnter(b, req[r].marker)
       THEN /\ RegisterArrival(b, req[r].marker.actor)
            /\ Goto(r, IF req[r].marker.actor \in reached[b] THEN "listen"
                                                             ELSE "announce")
       ELSE Goto(r, "failed") /\ UNCHANGED barrierVars
    /\ UNCHANGED <<machineVars, req, attempts, records, faulted, gate, collector,
                   runner>>

AnnounceArrival(r) ==
    /\ Step(r, "announce", "listen")
    /\ NotifyWaiters
    /\ UNCHANGED <<machineVars, req, attempts, records, faulted, gate, collector,
                   runner>>

\* wait_for_release creates its Notified before it looks at the state.
Listen(r) ==
    /\ Step(r, "listen", "check")
    /\ CreateNotified(r)
    /\ UNCHANGED <<machineVars, req, attempts, records, faulted, gate, collector,
                   runner>>

\* Mutant: a full barrier lets its requests through without the runner.
CheckReleased_WhenReady(r) ==
    /\ pc[r] = "check"
    /\ Goto(r, IF IsReady(Response(r).barrier) THEN "respond" ELSE "await")
    /\ UNCHANGED <<machineVars, barrierVars, req, attempts, records, faulted,
                   gate, collector, runner>>

CheckReleased(r) ==
    /\ pc[r] = "check"
    /\ Goto(r, IF Response(r).barrier \in released THEN "respond" ELSE "await")
    /\ UNCHANGED <<machineVars, barrierVars, req, attempts, records, faulted,
                   gate, collector, runner>>

AwaitNotified(r) ==
    /\ Step(r, "await", "listen")
    /\ notified[r]
    /\ UNCHANGED <<machineVars, barrierVars, req, attempts, records, faulted,
                   gate, collector, runner>>

-----------------------------------------------------------------------------
(* Past the barrier: the scripted response, or the scripted context error. *)

Respond(r) ==
    /\ pc[r] = "respond"
    /\ IF Response(r).fault # "context-length"
       THEN /\ req' = [req EXCEPT ![r].fault = Response(r).fault]
            /\ Goto(r, "stamp")
            /\ UNCHANGED gate
       ELSE /\ UNCHANGED req
            /\ IF req[r].size # "exact"
               THEN Goto(r, "failed") /\ UNCHANGED gate
               ELSE IF StorageGate
                    THEN Goto(r, "gated") /\ gate' = [gate EXCEPT !.arrived = TRUE]
                    ELSE Goto(r, "fault") /\ UNCHANGED gate
    /\ UNCHANGED <<machineVars, barrierVars, attempts, records, faulted,
                   collector, runner>>

PassGate(r) ==
    /\ Step(r, "gated", "fault")
    /\ gate.release
    /\ gate' = [gate EXCEPT !.release = FALSE]
    /\ UNCHANGED <<machineVars, barrierVars, req, attempts, records, faulted,
                   collector, runner>>

\* Remember the route before its context error leaves.
FaultRoute(r) ==
    /\ Step(r, "fault", "stamp")
    /\ faulted' = faulted \cup {req[r].marker}
    /\ req' = [req EXCEPT ![r].fault = "context-length"]
    /\ UNCHANGED <<machineVars, barrierVars, attempts, records, gate, collector,
                   runner>>

\* Requests that are not the actor's script: a classified auxiliary kind or an
\* unknown one, marked and answered without touching the machine.
AnswerAside(r) ==
    /\ Step(r, "aside", "stamp")
    /\ MarkAccepted(r, "side-channel")
    /\ req' = [req EXCEPT ![r].verdict = "aside"]
    /\ UNCHANGED <<machineVars, barrierVars, attempts, faulted, gate, collector,
                   runner>>

\* mark_response_status: the record with the response's own attempt number.
StampStatus(r) ==
    LET k == RecordKey(r)
        mine == {i \in DOMAIN records[k] : records[k][i].attempt = req[r].attempt}
    IN
    /\ pc[r] = "stamp"
    /\ IF mine = {}
       THEN Goto(r, "failed") /\ UNCHANGED records
       ELSE /\ Goto(r, "answered")
            /\ records' = [records EXCEPT
                  ![k][CHOOSE i \in mine : \A j \in mine : i <= j].status = TRUE]
    /\ UNCHANGED <<machineVars, barrierVars, req, attempts, faulted, gate,
                   collector, runner>>

\* The harness closes the connection; the server drops the task where it awaits.
Disconnect(r) ==
    /\ pc[r] \in AwaitPoints
    /\ Cardinality({q \in Requests : pc[q] = "dropped"}) < MaxDrops
    /\ Goto(r, "dropped")
    /\ UNCHANGED <<machineVars, barrierVars, req, attempts, records, faulted,
                   gate, collector, runner>>

-----------------------------------------------------------------------------
(* The runner: wait_until_ready under a deadline, then release.            *)

RunnerGoto(b, from, to) == runner[b] = from /\ runner' = [runner EXCEPT ![b] = to]

RunnerListen(b) ==
    /\ RunnerGoto(b, "listen", "check")
    /\ CreateNotified(b)
    /\ UNCHANGED <<machineVars, pc, req, attempts, records, faulted, gate, collector>>

RunnerCheck(b) ==
    /\ RunnerGoto(b, "check", IF IsReady(b) THEN "ready" ELSE "await")
    /\ UNCHANGED <<machineVars, barrierVars, pc, req, attempts, records, faulted,
                   gate, collector>>

RunnerAwait(b) ==
    /\ RunnerGoto(b, "await", "listen")
    /\ notified[b]
    /\ UNCHANGED <<machineVars, barrierVars, pc, req, attempts, records, faulted,
                   gate, collector>>

RunnerTimeout(b) ==
    /\ runner[b] \in {"listen", "check", "await"}
    /\ runner' = [runner EXCEPT ![b] = "gaveup"]
    /\ UNCHANGED <<machineVars, barrierVars, pc, req, attempts, records, faulted,
                   gate, collector>>

\* Mutant: the runner's clean-up release is not refused.
ReleaseChecks_Forced(b) ==
    /\ runner[b] \in {"ready", "gaveup"}
    /\ runner' = [runner EXCEPT ![b] = "release"]
    /\ UNCHANGED <<machineVars, barrierVars, pc, req, attempts, records, faulted,
                   gate, collector>>

\* release: refused unless ready; a runner that gave up may still try it once
\* while it cleans up.
ReleaseChecks(b) ==
    /\ runner[b] \in {"ready", "gaveup"}
    /\ runner' = [runner EXCEPT ![b] = IF IsReady(b) THEN "release" ELSE "failed"]
    /\ UNCHANGED <<machineVars, barrierVars, pc, req, attempts, records, faulted,
                   gate, collector>>

ReleaseInserts(b) ==
    /\ RunnerGoto(b, "release", IF b \in released THEN "released" ELSE "announce")
    /\ InsertReleased(b)
    /\ UNCHANGED <<machineVars, pc, req, attempts, records, faulted, gate, collector>>

ReleaseAnnounces(b) ==
    /\ RunnerGoto(b, "announce", "released")
    /\ NotifyWaiters
    /\ UNCHANGED <<machineVars, pc, req, attempts, records, faulted, gate, collector>>

(* The storage collector: at the gate it settles the profile tree, then    *)
(* lets the context error go.  It watches only until the turn is terminal  *)
(* or its time is over.                                                    *)

CollectorSees ==
    /\ collector = "watching" /\ gate.arrived
    /\ collector' = "settling"
    /\ gate' = [gate EXCEPT !.arrived = FALSE]
    /\ UNCHANGED <<machineVars, barrierVars, pc, req, attempts, records, faulted,
                   runner>>

CollectorLeaves ==
    /\ StorageGate /\ collector = "watching"
    /\ collector' = "left"
    /\ UNCHANGED <<machineVars, barrierVars, pc, req, attempts, records, faulted,
                   gate, runner>>

\* Mutant: a failed snapshot returns before the gate is released.
CollectorReleases_UnlessFailed ==
    /\ collector = "settling"
    /\ collector' = "done"
    /\ \E settled \in BOOLEAN : gate' = [gate EXCEPT !.release = settled]
    /\ UNCHANGED <<machineVars, barrierVars, pc, req, attempts, records, faulted,
                   runner>>

CollectorReleases ==
    /\ collector = "settling"
    /\ collector' = "done"
    /\ gate' = [gate EXCEPT !.release = TRUE]
    /\ UNCHANGED <<machineVars, barrierVars, pc, req, attempts, records, faulted,
                   runner>>

-----------------------------------------------------------------------------
RequestStep(r) ==
    \/ Count(r) \/ PushRecord(r) \/ RecognizeRequest(r) \/ ConsultFaultedRoutes(r)
    \/ Recover(r) \/ AcceptRequest(r) \/ MarkPrimary(r)
    \/ Arrive(r) \/ AnnounceArrival(r) \/ Listen(r) \/ CheckReleased(r)
    \/ AwaitNotified(r) \/ Respond(r) \/ PassGate(r) \/ FaultRoute(r)
    \/ AnswerAside(r) \/ StampStatus(r)

RunnerStep(b) ==
    \/ RunnerListen(b) \/ RunnerCheck(b) \/ RunnerAwait(b)
    \/ ReleaseInserts(b) \/ ReleaseAnnounces(b)
    \/ (runner[b] = "ready" /\ ReleaseChecks(b))

CollectorWorks == CollectorSees \/ CollectorReleases
CollectorStep  == CollectorWorks \/ CollectorLeaves

Next ==
    \/ \E r \in Requests : Receive(r) \/ RequestStep(r) \/ Disconnect(r)
    \/ \E b \in Barriers : RunnerStep(b) \/ RunnerTimeout(b) \/ ReleaseChecks(b)
    \/ CollectorStep

Spec == Init /\ [][Next]_vars

\* Tokio polls every ready task again and again; nothing obliges a harness to
\* send, a client to disconnect or a deadline to fire.
FairSpec ==
    /\ Spec
    /\ \A r \in Requests : WF_vars(RequestStep(r))
    /\ \A b \in Barriers : WF_vars(RunnerStep(b))
    /\ WF_vars(CollectorWorks)

-----------------------------------------------------------------------------
(* No primary response escapes its barrier: a request beyond the wait has  *)
(* a released barrier behind it, a released barrier had every one of its   *)
(* actors registered, and an actor registers only after the machine gave   *)
(* it the barrier's checkpoint.  (BarrierCoordinator, handle_observed)     *)
PastBarrier(r) ==
    /\ pc[r] \in {"respond", "gated", "fault", "stamp", "answered"}
    /\ req[r].verdict \in {"advance", "retry"}

HeldUntilReleased ==
    /\ \A r \in Requests : PastBarrier(r) =>
          Response(r).barrier \in released \cup {NoBarrier}
    /\ \A b \in released : IsReady(b)
    /\ \A b \in Barriers : \A a \in reached[b] :
          a \in BarrierActors[b] /\ seen[<<a, BarrierCheckpoint[b]>>] # NotSeen

(* However many identical or conflicting requests race for a checkpoint,   *)
(* one advances the script, and every other one the engine treats as a     *)
(* retry carries the hash the first was accepted with - recognition and    *)
(* acceptance being two critical sections notwithstanding.                 *)
OneAdvancePerCheckpoint ==
    \A r, s \in Requests :
        /\ pc[r] # "idle" /\ pc[s] # "idle"
        /\ req[r].verdict = "advance" /\ req[r].marker = req[s].marker
        /\ r # s
        => /\ req[s].verdict # "advance"
           /\ req[s].verdict = "retry" => req[s].hash = req[r].hash

(* Attempt numbers identify records: two records of one semantic request   *)
(* never share a number, and none is above the counter, so the status of a *)
(* response lands on the record of the request it answers.                 *)
AttemptsAreUnique ==
    \A m \in Markers : \A g, h \in Hashes :
        \A i \in DOMAIN records[<<m, g>>], j \in DOMAIN records[<<m, h>>] :
            /\ records[<<m, g>>][i].attempt \in 1 .. attempts[m]
            /\ records[<<m, g>>][i].attempt = records[<<m, h>>][j].attempt
                  => g = h /\ i = j

(* A context-length checkpoint is answered normally only after the same    *)
(* route has been sent its context error: a request that already fits the  *)
(* window cannot skip the fault the row measures.                          *)
NoRecoveryBeforeFault ==
    \A r \in Requests :
        /\ pc[r] \in {"stamp", "answered"}
        /\ req[r].verdict \in Primaries
        /\ Response(r).fault = "context-length"
        => /\ req[r].marker \in faulted
           /\ req[r].fault = "none" => req[r].verdict = "recovery"

(* No wakeup is lost: once a barrier is released every request waiting at  *)
(* it leaves, and once all its actors are registered the runner releases   *)
(* it unless its deadline fired first.                                     *)
ReleasedWaitersLeave ==
    \A b \in Barriers : \A r \in Requests :
        (b \in released /\ pc[r] \in Held /\ Response(r).barrier = b)
            ~> pc[r] \notin Held

ReadyBarrierIsReleased ==
    \A b \in Barriers :
        IsReady(b) ~> (b \in released \/ runner[b] \in {"gaveup", "failed"})

(* The storage gate holds a context error only until the collector has     *)
(* taken its snapshot: the first error that reaches the gate gets through, *)
(* unless the collector's turn was over before it saw the error or a       *)
(* request is abandoned and takes the one permit with it.                  *)
GateLetsOneThrough ==
    (\E r \in Requests : pc[r] = "gated") ~>
        (faulted # {} \/ collector = "left" \/ \E r \in Requests : pc[r] = "dropped")

-----------------------------------------------------------------------------
(* The engine implements the scripted replay: given is the machine's       *)
(* next_by_actor, open the released barriers, and a response has been sent *)
(* when a request the engine treated as primary is answered with it.       *)
Answering == {r \in Requests : pc[r] = "answered" /\ req[r].verdict \in Primaries}

ReplyOf(r) == <<req[r].marker.actor, IndexOf(req[r].marker)>>

SentResponses == {ReplyOf(r) : r \in Answering}

Replay == INSTANCE ScriptedReplay WITH
              given <- nextByActor, open <- released, sent <- SentResponses

ReplaySpec == Replay!Spec
=============================================================================
