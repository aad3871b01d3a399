------------------------ MODULE FakeModelEngineProofs ------------------------
(***************************************************************************)
(* Theorems about FakeModelEngine, for every workflow, every set of        *)
(* requests and every input.  The inductive invariant IInv adds to the     *)
(* checked invariants what a task knows at each of its steps: that the     *)
(* machine has seen the checkpoint it answers, and that a faulted route    *)
(* lies behind its barrier.                                                *)
(***************************************************************************)
EXTENDS FakeModelEngine, TLAPS

\* What a task's place in handle_observed says about the machine.
TaskKnowsOf(r) ==
    /\ pc[r] \in Held \cup {"mark", "respond", "gated", "fault"} =>
          req[r].verdict \in {"advance", "retry"}
    /\ pc[r] \in Held => Response(r).barrier # NoBarrier
    /\ pc[r] # "idle" /\ req[r].verdict \in {"advance", "retry"} =>
          /\ req[r].marker.actor \in Actors
          /\ seen[Key(req[r].marker)] = req[r].hash
    /\ pc[r] = "recover" => req[r].marker \in faulted
    /\ pc[r] # "idle" /\ req[r].verdict = "recovery" => req[r].marker \in faulted

TaskKnows == \A r \in Requests : TaskKnowsOf(r)

FaultedIsBehindBarrier ==
    \A m \in faulted :
        /\ m.actor \in Actors
        /\ seen[Key(m)] # NotSeen
        /\ ResponseForCheckpoint(m).barrier \in released \cup {NoBarrier}

ReleaseIsReady == \A b \in Barriers : runner[b] = "release" => IsReady(b)

IInv ==
    /\ TypeOK /\ SeenIsScriptPrefix /\ HeldUntilReleased
    /\ \A a \in Actors : nextByActor[a] <= Len(Script[a])
    /\ TaskKnows /\ FaultedIsBehindBarrier /\ ReleaseIsReady

(* A function on 1..n is a sequence.                                       *)
LEMMA FunctionIsSeq ==
    ASSUME NEW S, NEW n \in Nat, NEW f \in [1 .. n -> S]
    PROVE  f \in Seq(S)
OBVIOUS

(* The evidence lists stay well typed when mark_request_accepted rewrites  *)
(* two fields of one record.                                               *)
LEMMA MarkAcceptedType ==
    ASSUME TypeOK, NEW r \in Requests, req[r] \in RequestInfo,
           NEW role \in Roles, MarkAccepted(r, role)
    PROVE  records' \in [Markers \X Hashes -> Seq(Record)]
<1> DEFINE k == RecordKey(r)
           n == Len(records[k])
           s == [records[k] EXCEPT ![n].accepted = TRUE, ![n].role = role]
<1>1. k \in Markers \X Hashes
  BY DEF RecordKey, RequestInfo
<1>2. records \in [Markers \X Hashes -> Seq(Record)] /\ records[k] \in Seq(Record)
  BY <1>1 DEF TypeOK, EngineTypeOK
<1>3. records' = [records EXCEPT ![k] = s]
  BY <1>1, <1>2 DEF MarkAccepted
<1>4. s \in Seq(Record)
  <2>1. records[k] \in [1 .. n -> Record] /\ n \in Nat
    BY <1>2
  <2>2. s \in [1 .. n -> Record]
    BY <2>1 DEF Record
  <2> HIDE DEF s, n
  <2> QED
    BY <2>1, <2>2, FunctionIsSeq
<1> QED
  BY <1>2, <1>3, <1>4

(* A task that moves on with its input untouched, or replaced by another,  *)
(* stays well typed.                                                       *)
LEMMA MoveTask ==
    ASSUME TaskTypeOK, NEW r \in Requests, pc[r] # "idle", UNCHANGED req,
           NEW l \in RequestStates, Goto(r, l)
    PROVE  TaskTypeOK'
BY DEF TaskTypeOK, Goto

LEMMA MoveAndUpdateTask ==
    ASSUME TaskTypeOK, NEW r \in Requests, NEW i \in RequestInfo,
           req' = [req EXCEPT ![r] = i], NEW l \in RequestStates, Goto(r, l)
    PROVE  TaskTypeOK'
BY DEF TaskTypeOK, Goto

LEMMA SetVerdict ==
    ASSUME NEW i \in RequestInfo, NEW v \in {"none", "aside"} \cup Primaries,
           NEW f \in Faults
    PROVE  /\ [i EXCEPT !.verdict = v] \in RequestInfo
           /\ [i EXCEPT !.fault = f] \in RequestInfo
           /\ [i EXCEPT !.verdict = v, !.fault = f] \in RequestInfo
BY DEF RequestInfo

(* Where a label is written out it is one of the task's.                   *)
LEMMA Labels ==
    {"count", "record", "recognize", "route", "recover", "accept", "mark",
     "arrive", "announce", "listen", "check", "await", "respond", "gated",
     "fault", "aside", "stamp", "answered", "failed", "dropped"}
        \subseteq RequestStates
BY DEF RequestStates, Held, Gone

LEMMA TaskStep ==
    ASSUME TypeOK, NEW r \in Requests,
           Receive(r) \/ RequestStep(r) \/ Disconnect(r),
           pc[r] = "respond" => Response(r).fault \in Faults
    PROVE  TaskTypeOK' /\ (pc[r] # "idle" => req[r] \in RequestInfo)
<1> USE DEF Goto, Step
<1>0. TaskTypeOK /\ (pc[r] # "idle" => req[r] \in RequestInfo)
  BY DEF TypeOK, EngineTypeOK, TaskTypeOK
<1>1. CASE Receive(r)
  <2>1. PICK i \in Inputs : req' = [req EXCEPT ![r] =
             [marker |-> i.marker, hash |-> i.hash, size |-> i.size,
              attempt |-> 0, verdict |-> "none", fault |-> "none"]]
    BY <1>1 DEF Receive
  <2>2. [marker |-> i.marker, hash |-> i.hash, size |-> i.size,
         attempt |-> 0, verdict |-> "none", fault |-> "none"] \in RequestInfo
    BY EngineAssumption DEF RequestInfo, Faults
  <2> QED
    BY <1>0, <1>1, <2>1, <2>2, Labels, MoveAndUpdateTask DEF Receive
<1>2. CASE Count(r)
  <2> DEFINE i == [req[r] EXCEPT !.attempt = attempts'[req[r].marker]]
  <2>1. attempts' \in [Markers -> Nat] /\ req[r] \in RequestInfo
    BY <1>0, <1>2 DEF Count, RequestInfo, TypeOK, EngineTypeOK
  <2>2. i \in RequestInfo
    BY <2>1 DEF RequestInfo
  <2>3. req' = [req EXCEPT ![r] = i]
    BY <1>0, <1>2 DEF Count, TaskTypeOK
  <2> QED
    BY <1>0, <1>2, <2>2, <2>3, Labels, MoveAndUpdateTask DEF Count
<1>3. CASE PushRecord(r)
  <2>1. pc[r] # "idle" /\ UNCHANGED req /\ \E l \in RequestStates : Goto(r, l)
    BY <1>3, Labels DEF PushRecord
  <2> QED
    BY <1>0, <2>1, MoveTask
<1>4. CASE RecognizeRequest(r)
  <2>1. pc[r] # "idle" /\ UNCHANGED req /\ \E l \in RequestStates : Goto(r, l)
    BY <1>4, Labels DEF RecognizeRequest
  <2> QED
    BY <1>0, <2>1, MoveTask
<1>5. CASE ConsultFaultedRoutes(r)
  <2>1. pc[r] # "idle" /\ UNCHANGED req /\ \E l \in RequestStates : Goto(r, l)
    BY <1>5, Labels DEF ConsultFaultedRoutes
  <2> QED
    BY <1>0, <2>1, MoveTask
<1>6. CASE MarkPrimary(r)
  <2>1. pc[r] # "idle" /\ UNCHANGED req /\ \E l \in RequestStates : Goto(r, l)
    BY <1>6, Labels DEF MarkPrimary
  <2> QED
    BY <1>0, <2>1, MoveTask
<1>7. CASE Arrive(r)
  <2>1. pc[r] # "idle" /\ UNCHANGED req /\ \E l \in RequestStates : Goto(r, l)
    BY <1>7, Labels DEF Arrive
  <2> QED
    BY <1>0, <2>1, MoveTask
<1>8. CASE AnnounceArrival(r)
  <2>1. pc[r] # "idle" /\ UNCHANGED req /\ \E l \in RequestStates : Goto(r, l)
    BY <1>8, Labels DEF AnnounceArrival
  <2> QED
    BY <1>0, <2>1, MoveTask
<1>9. CASE Listen(r)
  <2>1. pc[r] # "idle" /\ UNCHANGED req /\ \E l \in RequestStates : Goto(r, l)
    BY <1>9, Labels DEF Listen
  <2> QED
    BY <1>0, <2>1, MoveTask
<1>10. CASE CheckReleased(r)
  <2>1. pc[r] # "idle" /\ UNCHANGED req /\ \E l \in RequestStates : Goto(r, l)
    BY <1>10, Labels DEF CheckReleased
  <2> QED
    BY <1>0, <2>1, MoveTask
<1>11. CASE AwaitNotified(r)
  <2>1. pc[r] # "idle" /\ UNCHANGED req /\ \E l \in RequestStates : Goto(r, l)
    BY <1>11, Labels DEF AwaitNotified
  <2> QED
    BY <1>0, <2>1, MoveTask
<1>12. CASE PassGate(r)
  <2>1. pc[r] # "idle" /\ UNCHANGED req /\ \E l \in RequestStates : Goto(r, l)
    BY <1>12, Labels DEF PassGate
  <2> QED
    BY <1>0, <2>1, MoveTask
<1>13. CASE StampStatus(r)
  <2>1. pc[r] # "idle" /\ UNCHANGED req /\ \E l \in RequestStates : Goto(r, l)
    BY <1>13, Labels DEF StampStatus
  <2> QED
    BY <1>0, <2>1, MoveTask
<1>14. CASE Disconnect(r)
  <2>1. pc[r] # "idle" /\ UNCHANGED req /\ \E l \in RequestStates : Goto(r, l)
    BY <1>14, Labels DEF Disconnect, AwaitPoints, Gone
  <2> QED
    BY <1>0, <2>1, MoveTask
<1>15. CASE Recover(r)
  <2> DEFINE i == [req[r] EXCEPT !.verdict = "recovery", !.fault = IF req[r].size = "fits" THEN "none" ELSE "context-length"]
  <2>1. pc[r] # "idle" /\ req' = [req EXCEPT ![r] = i] /\ Goto(r, "stamp")
    BY <1>0, <1>15 DEF Recover, TaskTypeOK
  <2>2. i \in RequestInfo
    BY <1>0, <2>1, SetVerdict DEF Faults, Primaries
  <2> QED
    BY <1>0, <2>1, <2>2, Labels, MoveAndUpdateTask
<1>16. CASE FaultRoute(r)
  <2> DEFINE i == [req[r] EXCEPT !.fault = "context-length"]
  <2>1. pc[r] # "idle" /\ req' = [req EXCEPT ![r] = i] /\ Goto(r, "stamp")
    BY <1>0, <1>16 DEF FaultRoute, TaskTypeOK
  <2>2. i \in RequestInfo
    BY <1>0, <2>1, SetVerdict DEF Faults, Primaries
  <2> QED
    BY <1>0, <2>1, <2>2, Labels, MoveAndUpdateTask
<1>17. CASE AnswerAside(r)
  <2> DEFINE i == [req[r] EXCEPT !.verdict = "aside"]
  <2>1. pc[r] # "idle" /\ req' = [req EXCEPT ![r] = i] /\ Goto(r, "stamp")
    BY <1>0, <1>17 DEF AnswerAside, TaskTypeOK
  <2>2. i \in RequestInfo
    BY <1>0, <2>1, SetVerdict DEF Faults, Primaries
  <2> QED
    BY <1>0, <2>1, <2>2, Labels, MoveAndUpdateTask
<1>18. CASE AcceptRequest(r)
  <2>1. CASE UNCHANGED req /\ Goto(r, "failed")
    BY <1>0, <1>18, <2>1, Labels, MoveTask DEF AcceptRequest
  <2>2. ASSUME NEW v \in {"advance", "retry"}, Goto(r, "mark"),
               req' = [req EXCEPT ![r].verdict = v]
        PROVE  TaskTypeOK'
    BY <1>0, <1>18, <2>2, Labels, SetVerdict, MoveAndUpdateTask
       DEF AcceptRequest, Faults, Primaries
  <2> QED
    BY <1>0, <1>18, <2>1, <2>2 DEF AcceptRequest
<1>19. CASE Respond(r)
  <2>1. CASE UNCHANGED req
    BY <1>0, <1>19, <2>1, Labels, MoveTask DEF Respond
  <2>2. CASE req' = [req EXCEPT ![r].fault = Response(r).fault]
    BY <1>0, <1>19, <2>2, Labels, SetVerdict, MoveAndUpdateTask DEF Respond
  <2> QED
    BY <1>19, <2>1, <2>2 DEF Respond
<1> QED
  BY <1>0, <1>1, <1>2, <1>3, <1>4, <1>5, <1>6, <1>7, <1>8, <1>9, <1>10, <1>11, <1>12, <1>13, <1>14, <1>15, <1>16, <1>17, <1>18, <1>19 DEF RequestStep

-----------------------------------------------------------------------------
(* The scripted response of a checkpoint the machine has seen is one of    *)
(* those its actor was given, and it is the only one for that checkpoint.  *)
LEMMA SeenHasResponse ==
    ASSUME SeenIsScriptPrefix, NEW m \in Markers, m.actor \in Actors,
           seen[Key(m)] # NotSeen
    PROVE  /\ IndexOf(m) \in DOMAIN Script[m.actor]
           /\ IndexOf(m) <= nextByActor[m.actor]
           /\ ResponseForCheckpoint(m) \in ScriptedResponses
           /\ ResponseForCheckpoint(m).checkpoint = m.checkpoint
<1>1. m.checkpoint \in Checkpoints
  BY DEF Markers
<1>2. PICK i \in DOMAIN Script[m.actor] :
          i <= nextByActor[m.actor] /\ Script[m.actor][i].checkpoint = m.checkpoint
  BY <1>1 DEF SeenIsScriptPrefix, Key
<1>3. /\ IndexOf(m) \in DOMAIN Script[m.actor]
      /\ Script[m.actor][IndexOf(m)].checkpoint = m.checkpoint
  BY <1>2 DEF IndexOf
<1>4. IndexOf(m) = i
  BY <1>2, <1>3, WorkflowValid DEF Validate
<1>5. Script[m.actor] \in Seq(ScriptedResponses)
  BY WorkflowValid DEF Validate
<1> QED
  BY <1>2, <1>3, <1>4, <1>5 DEF ResponseForCheckpoint

(* What a task answers is a scripted response whenever it got that far.    *)
LEMMA ResponseIsScripted ==
    ASSUME IInv, NEW r \in Requests,
           pc[r] \in Held \cup {"mark", "respond", "gated", "fault"}
    PROVE  /\ req[r] \in RequestInfo
           /\ req[r].marker.actor \in Actors
           /\ seen[Key(req[r].marker)] = req[r].hash
           /\ seen[Key(req[r].marker)] # NotSeen
           /\ Response(r) \in ScriptedResponses
           /\ Response(r).checkpoint = req[r].marker.checkpoint
<1>1. pc[r] # "idle"
  BY DEF Held
<1>2. req[r] \in RequestInfo
  BY <1>1 DEF IInv, TypeOK, EngineTypeOK, TaskTypeOK
<1>3. req[r].marker.actor \in Actors /\ seen[Key(req[r].marker)] = req[r].hash
  BY <1>1 DEF IInv, TaskKnows, TaskKnowsOf
<1>4. req[r].marker \in Markers /\ req[r].hash \in Hashes
  BY <1>2 DEF RequestInfo
<1>5. seen[Key(req[r].marker)] # NotSeen
  BY <1>3, <1>4, SentinelsAssumption
<1> QED
  BY <1>2, <1>3, <1>4, <1>5, SeenHasResponse DEF IInv, Response

(* What accepting a request's next checkpoint does to the machine.         *)
LEMMA AcceptEffect ==
    ASSUME MachineTypeOK, SeenIsScriptPrefix, NEW m \in Markers, NEW h \in Hashes,
           Advance(m, h)
    PROVE  /\ m.actor \in Actors
           /\ MachineTypeOK'
           /\ SeenIsScriptPrefix'
           /\ nextByActor' = [nextByActor EXCEPT ![m.actor] = @ + 1]
           /\ nextByActor[m.actor] < Len(Script[m.actor])
           /\ seen'[Key(m)] = h
           /\ \A k \in Actors \X Checkpoints : seen[k] # NotSeen => seen'[k] = seen[k]
<1> DEFINE a == m.actor
           n == nextByActor[a]
<1>1. a \in Actors /\ m.checkpoint \in Checkpoints /\ n \in Nat
  BY DEF Advance, CanAdvance, Markers, MachineTypeOK
<1>2. /\ nextByActor' = [nextByActor EXCEPT ![a] = n + 1]
      /\ seen' = [seen EXCEPT ![<<a, m.checkpoint>>] = h]
      /\ n < Len(Script[a]) /\ Script[a][n + 1].checkpoint = m.checkpoint
      /\ seen[<<a, m.checkpoint>>] = NotSeen
  BY <1>1 DEF Advance, CanAdvance, IsNext, Key, MachineTypeOK
<1>3. MachineTypeOK'
  BY <1>1, <1>2 DEF MachineTypeOK
<1>4. SeenIsScriptPrefix'
  <2> SUFFICES ASSUME NEW d \in Actors, NEW c \in Checkpoints
               PROVE  seen'[<<d, c>>] # NotSeen <=>
                         \E i \in DOMAIN Script[d] :
                            i <= nextByActor'[d] /\ Script[d][i].checkpoint = c
    BY DEF SeenIsScriptPrefix
  <2>1. seen[<<d, c>>] # NotSeen <=>
           \E i \in DOMAIN Script[d] :
              i <= nextByActor[d] /\ Script[d][i].checkpoint = c
    BY DEF SeenIsScriptPrefix
  <2>2. CASE d # a
    BY <1>1, <1>2, <2>1, <2>2 DEF MachineTypeOK
  <2>3. CASE d = a
    <3>1. nextByActor'[d] = n + 1
      BY <1>1, <1>2, <2>3 DEF MachineTypeOK
    <3>2. Script[d] \in Seq(ScriptedResponses)
      BY WorkflowValid DEF Validate
    <3>3. n + 1 \in DOMAIN Script[d]
      BY <1>1, <1>2, <2>3, <3>2
    <3>4. CASE c = m.checkpoint
      <4>1. seen'[<<d, c>>] = h /\ h # NotSeen
        BY <1>1, <1>2, <2>3, <3>4, SentinelsAssumption DEF MachineTypeOK
      <4> QED
        BY <1>1, <1>2, <2>3, <3>1, <3>3, <3>4, <4>1
    <3>5. CASE c # m.checkpoint
      <4>1. seen'[<<d, c>>] = seen[<<d, c>>]
        BY <1>1, <1>2, <2>3, <3>5 DEF MachineTypeOK
      <4>2. \A i \in DOMAIN Script[d] : Script[d][i].checkpoint = c =>
               (i <= n <=> i <= n + 1)
        BY <1>1, <1>2, <2>3, <3>2, <3>5
      <4> QED
        BY <2>1, <2>3, <3>1, <4>1, <4>2
    <3> QED
      BY <3>4, <3>5
  <2> QED
    BY <2>2, <2>3
<1> QED
  BY <1>1, <1>2, <1>3, <1>4 DEF Key, MachineTypeOK

(* Every action keeps the types.                                           *)
LEMMA TypeStep == IInv /\ [Next]_vars => TypeOK'
<1> SUFFICES ASSUME IInv, [Next]_vars PROVE TypeOK'
  OBVIOUS
<1>1. ASSUME NEW r \in Requests, Receive(r) \/ RequestStep(r) \/ Disconnect(r)
      PROVE  TypeOK'
  <2>1. TypeOK
    BY DEF IInv
  <2>2. pc[r] = "respond" => Response(r).fault \in Faults
    BY ResponseIsScripted DEF ScriptedResponses
  <2>3. TaskTypeOK' /\ (pc[r] # "idle" => req[r] \in RequestInfo)
    BY <1>1, <2>1, <2>2, TaskStep
  <2> USE DEF TypeOK, MachineTypeOK, BarrierTypeOK, EngineTypeOK, machineVars,
              barrierVars, Step
  <2>4. CASE Receive(r)
    BY <2>1, <2>3, <2>4 DEF Receive
  <2>5. CASE RecognizeRequest(r)
    BY <2>1, <2>3, <2>5 DEF RecognizeRequest
  <2>6. CASE ConsultFaultedRoutes(r)
    BY <2>1, <2>3, <2>6 DEF ConsultFaultedRoutes
  <2>7. CASE Listen(r)
    BY <2>1, <2>3, <2>7 DEF Listen, CreateNotified
  <2>8. CASE AnnounceArrival(r)
    BY <2>1, <2>3, <2>8 DEF AnnounceArrival, NotifyWaiters
  <2>9. CASE CheckReleased(r)
    BY <2>1, <2>3, <2>9 DEF CheckReleased
  <2>10. CASE AwaitNotified(r)
    BY <2>1, <2>3, <2>10 DEF AwaitNotified
  <2>11. CASE Respond(r)
    BY <2>1, <2>3, <2>11 DEF Respond
  <2>12. CASE PassGate(r)
    BY <2>1, <2>3, <2>12 DEF PassGate
  <2>13. CASE Disconnect(r)
    BY <2>1, <2>3, <2>13 DEF Disconnect
  <2>14. CASE Count(r)
    BY <2>1, <2>3, <2>14 DEF Count, RequestInfo
  <2>15. CASE FaultRoute(r)
    BY <2>1, <2>3, <2>15 DEF FaultRoute, RequestInfo
  <2>16. CASE PushRecord(r)
    <3>1. [by |-> r, attempt |-> req[r].attempt, accepted |-> FALSE,
           role |-> "unclassified", status |-> FALSE] \in Record
      BY <2>3, <2>16 DEF PushRecord, RequestInfo, Record, Roles
    <3>2. RecordKey(r) \in Markers \X Hashes
      BY <2>3, <2>16 DEF PushRecord, RequestInfo, RecordKey
    <3> QED
      BY <2>1, <2>3, <2>16, <3>1, <3>2 DEF PushRecord
  <2>17. CASE Recover(r)
    <3>1. records' \in [Markers \X Hashes -> Seq(Record)]
      BY <2>1, <2>3, <2>17, MarkAcceptedType DEF Recover, Roles
    <3> QED
      BY <2>1, <2>3, <2>17, <3>1 DEF Recover
  <2>18. CASE MarkPrimary(r)
    <3>1. records' \in [Markers \X Hashes -> Seq(Record)]
      BY <2>1, <2>3, <2>18, MarkAcceptedType DEF MarkPrimary, Roles
    <3> QED
      BY <2>1, <2>3, <2>18, <3>1 DEF MarkPrimary
  <2>19. CASE AnswerAside(r)
    <3>1. records' \in [Markers \X Hashes -> Seq(Record)]
      BY <2>1, <2>3, <2>19, MarkAcceptedType DEF AnswerAside, Roles
    <3> QED
      BY <2>1, <2>3, <2>19, <3>1 DEF AnswerAside
  <2>20. CASE AcceptRequest(r)
    <3>1. req[r].marker \in Markers /\ req[r].hash \in Hashes
      BY <2>3, <2>20 DEF AcceptRequest, RequestInfo
    <3>2. MachineTypeOK'
      BY <2>1, <2>20, <3>1, AcceptEffect DEF AcceptRequest, AcceptRetry, Reject, IInv
    <3> QED
      BY <2>1, <2>3, <2>20, <3>2 DEF AcceptRequest
  <2>21. CASE Arrive(r)
    <3>1. Response(r).barrier \in Barriers /\ req[r].marker.actor \in Actors
      BY <2>21, ResponseIsScripted
         DEF Arrive, Held, IInv, TaskKnows, TaskKnowsOf, ScriptedResponses
    <3> DEFINE b == Response(r).barrier
    <3>2. reached' \in [Barriers -> SUBSET Actors] /\ UNCHANGED <<released, notified>>
      <4>1. CASE RegisterArrival(b, req[r].marker.actor)
        <5> HIDE DEF b
        <5> QED
          BY <2>1, <3>1, <4>1 DEF RegisterArrival
      <4>2. CASE UNCHANGED barrierVars
        BY <2>1, <4>2
      <4> QED
        BY <2>21, <4>1, <4>2 DEF Arrive
    <3> QED
      BY <2>1, <2>3, <2>21, <3>2 DEF Arrive
  <2>22. CASE StampStatus(r)
    <3> DEFINE k == RecordKey(r)
    <3>1. k \in Markers \X Hashes
      BY <2>3, <2>22 DEF StampStatus, RequestInfo, RecordKey
    <3>2. records \in [Markers \X Hashes -> Seq(Record)]
      BY <2>1
    <3>3. CASE UNCHANGED records
      BY <2>1, <2>3, <2>22, <3>3 DEF StampStatus
    <3>4. ASSUME NEW n, records' = [records EXCEPT ![k][n].status = TRUE]
          PROVE  TypeOK'
      <4> DEFINE s == [records[k] EXCEPT ![n].status = TRUE]
      <4>1. records[k] \in [1 .. Len(records[k]) -> Record] /\ Len(records[k]) \in Nat
        BY <3>1, <3>2
      <4>2. s \in [1 .. Len(records[k]) -> Record]
        BY <4>1 DEF Record
      <4>3. records' = [records EXCEPT ![k] = s]
        BY <3>1, <3>2, <3>4
      <4> HIDE DEF s
      <4>4. s \in Seq(Record)
        BY <4>1, <4>2, FunctionIsSeq
      <4> HIDE DEF k
      <4>5. records' \in [Markers \X Hashes -> Seq(Record)]
        BY <3>1, <3>2, <4>3, <4>4
      <4> QED
        BY <2>1, <2>3, <2>22, <4>5 DEF StampStatus
    <3> QED
      BY <2>22, <3>3, <3>4 DEF StampStatus
  <2> QED
    BY <1>1, <2>4, <2>5, <2>6, <2>7, <2>8, <2>9, <2>10, <2>11, <2>12, <2>13, <2>14, <2>15, <2>16, <2>17, <2>18, <2>19, <2>20, <2>21, <2>22 DEF RequestStep
<1>2. ASSUME NEW b \in Barriers, RunnerStep(b) \/ RunnerTimeout(b) \/ ReleaseChecks(b)
      PROVE  TypeOK'
  BY <1>2 DEF IInv, TypeOK, MachineTypeOK, BarrierTypeOK, EngineTypeOK, TaskTypeOK,
       RunnerStep, RunnerListen, RunnerCheck, RunnerAwait, RunnerTimeout, ReleaseChecks,
       ReleaseInserts, ReleaseAnnounces, RunnerGoto, RunnerStates, CreateNotified,
       NotifyWaiters, InsertReleased, machineVars, barrierVars
<1>3. CASE CollectorStep
  BY <1>3 DEF IInv, TypeOK, MachineTypeOK, BarrierTypeOK, EngineTypeOK, TaskTypeOK,
       CollectorStep, CollectorWorks, CollectorSees, CollectorLeaves,
      CollectorReleases, machineVars, barrierVars
<1>4. CASE UNCHANGED vars
  BY <1>4 DEF IInv, TypeOK, MachineTypeOK, BarrierTypeOK, EngineTypeOK, TaskTypeOK,
       vars, engineVars, machineVars, barrierVars
<1> QED
  BY <1>1, <1>2, <1>3, <1>4 DEF Next

(* Only AcceptRequest moves the machine.                                   *)
LEMMA MachineMoves ==
    ASSUME [Next]_vars
    PROVE  UNCHANGED machineVars \/ \E r \in Requests : AcceptRequest(r)
<1>1. ASSUME NEW r \in Requests, Receive(r) \/ RequestStep(r) \/ Disconnect(r),
             ~AcceptRequest(r)
      PROVE  UNCHANGED machineVars
  BY <1>1 DEF RequestStep, Receive, Count, PushRecord, RecognizeRequest, ConsultFaultedRoutes, Recover, MarkPrimary, Arrive, AnnounceArrival, Listen, CheckReleased, AwaitNotified, Respond, PassGate, FaultRoute, AnswerAside, StampStatus, Disconnect
<1>2. ASSUME NEW b \in Barriers, RunnerStep(b) \/ RunnerTimeout(b) \/ ReleaseChecks(b)
      PROVE  UNCHANGED machineVars
  BY <1>2 DEF RunnerStep, RunnerListen, RunnerCheck, RunnerAwait, RunnerTimeout, ReleaseChecks, ReleaseInserts, ReleaseAnnounces
<1>3. CASE CollectorStep
  BY <1>3 DEF CollectorStep, CollectorWorks, CollectorSees, CollectorLeaves,
      CollectorReleases
<1>4. CASE UNCHANGED vars
  BY <1>4 DEF vars
<1> QED
  BY <1>1, <1>2, <1>3, <1>4 DEF Next

LEMMA MachineStep ==
    ASSUME IInv, [Next]_vars
    PROVE  /\ SeenIsScriptPrefix'
           /\ \A a \in Actors : nextByActor'[a] <= Len(Script[a])
           /\ \A a \in Actors : nextByActor'[a] \in nextByActor[a] .. nextByActor[a] + 1
           /\ \A k \in Actors \X Checkpoints : seen[k] # NotSeen => seen'[k] = seen[k]
<1>1. MachineTypeOK /\ SeenIsScriptPrefix
      /\ \A a \in Actors : nextByActor[a] <= Len(Script[a])
  BY DEF IInv, TypeOK
<1>2. CASE UNCHANGED machineVars
  BY <1>1, <1>2 DEF machineVars, SeenIsScriptPrefix, MachineTypeOK
<1>3. ASSUME NEW r \in Requests, AcceptRequest(r), ~UNCHANGED machineVars
      PROVE  /\ SeenIsScriptPrefix'
             /\ \A a \in Actors : nextByActor'[a] <= Len(Script[a])
             /\ \A a \in Actors : nextByActor'[a] \in nextByActor[a] .. nextByActor[a] + 1
             /\ \A k \in Actors \X Checkpoints : seen[k] # NotSeen => seen'[k] = seen[k]
  <2> DEFINE m == req[r].marker
             h == req[r].hash
  <2>1. m \in Markers /\ h \in Hashes
    BY <1>3 DEF AcceptRequest, IInv, TypeOK, EngineTypeOK, TaskTypeOK, RequestInfo
  <2>2. Advance(m, h)
    BY <1>3 DEF AcceptRequest, AcceptRetry, Reject
  <2> HIDE DEF m, h
  <2>3. /\ m.actor \in Actors
        /\ SeenIsScriptPrefix'
        /\ nextByActor' = [nextByActor EXCEPT ![m.actor] = @ + 1]
        /\ nextByActor[m.actor] < Len(Script[m.actor])
        /\ \A k \in Actors \X Checkpoints : seen[k] # NotSeen => seen'[k] = seen[k]
    BY <1>1, <2>1, <2>2, AcceptEffect
  <2>4. \A a \in Actors : Len(Script[a]) \in Nat
    BY WorkflowValid DEF Validate
  <2> QED
    BY <1>1, <2>3, <2>4 DEF MachineTypeOK
<1> QED
  BY <1>2, <1>3, MachineMoves

(* Released barriers, faulted routes and registered actors only grow.      *)
LEMMA OnlyGrow ==
    ASSUME IInv, [Next]_vars
    PROVE  /\ released \subseteq released'
           /\ faulted \subseteq faulted'
           /\ \A b \in Barriers : reached[b] \subseteq reached'[b]
<1>1. reached \in [Barriers -> SUBSET Actors]
  BY DEF IInv, TypeOK, BarrierTypeOK
<1>2. ASSUME NEW r \in Requests, Arrive(r)
      PROVE  UNCHANGED <<released, faulted>> /\ \A b \in Barriers : reached[b] \subseteq reached'[b]
  BY <1>1, <1>2 DEF Arrive, RegisterArrival, barrierVars
<1>3. ASSUME NEW r \in Requests, Receive(r) \/ RequestStep(r) \/ Disconnect(r), ~Arrive(r)
      PROVE  released' = released /\ faulted \subseteq faulted' /\ reached' = reached
  BY <1>3 DEF RequestStep, barrierVars, CreateNotified, NotifyWaiters, Receive, Count, PushRecord, RecognizeRequest, ConsultFaultedRoutes, Recover, MarkPrimary, AnnounceArrival, Listen, CheckReleased, AwaitNotified, Respond, PassGate, FaultRoute, AnswerAside, StampStatus, Disconnect, AcceptRequest
<1>4. ASSUME NEW b \in Barriers, RunnerStep(b) \/ RunnerTimeout(b) \/ ReleaseChecks(b)
      PROVE  released \subseteq released' /\ faulted' = faulted /\ reached' = reached
  BY <1>4 DEF RunnerStep, barrierVars, CreateNotified, NotifyWaiters, InsertReleased,
       RunnerListen, RunnerCheck, RunnerAwait, RunnerTimeout, ReleaseChecks, ReleaseInserts, ReleaseAnnounces
<1>5. CASE CollectorStep
  BY <1>5 DEF CollectorStep, CollectorWorks, CollectorSees, CollectorLeaves,
      CollectorReleases, barrierVars
<1>6. CASE UNCHANGED vars
  BY <1>6 DEF vars, barrierVars, engineVars
<1> QED
  BY <1>2, <1>3, <1>4, <1>5, <1>6 DEF Next

(* A step of one task leaves the others where they are; the runner and the *)
(* collector leave every task where it is.                                 *)
LEMMA OneTaskMoves ==
    ASSUME IInv, [Next]_vars
    PROVE  \/ UNCHANGED <<pc, req>>
           \/ \E r \in Requests :
                 /\ Receive(r) \/ RequestStep(r) \/ Disconnect(r)
                 /\ \A q \in Requests \ {r} : pc'[q] = pc[q] /\ req'[q] = req[q]
<1>1. TaskTypeOK
  BY DEF IInv, TypeOK, EngineTypeOK
<1>2. ASSUME NEW r \in Requests, Receive(r) \/ RequestStep(r) \/ Disconnect(r)
      PROVE  \A q \in Requests \ {r} : pc'[q] = pc[q] /\ req'[q] = req[q]
  BY <1>1, <1>2 DEF TaskTypeOK, RequestStep, Goto, Step, Receive, Count, PushRecord, RecognizeRequest, ConsultFaultedRoutes, Recover, MarkPrimary, Arrive, AnnounceArrival, Listen, CheckReleased, AwaitNotified, Respond, PassGate, FaultRoute, AnswerAside, StampStatus, Disconnect, AcceptRequest
<1>3. ASSUME NEW b \in Barriers, RunnerStep(b) \/ RunnerTimeout(b) \/ ReleaseChecks(b)
      PROVE  UNCHANGED <<pc, req>>
  BY <1>3 DEF RunnerStep, RunnerListen, RunnerCheck, RunnerAwait, RunnerTimeout, ReleaseChecks, ReleaseInserts, ReleaseAnnounces
<1>4. CASE CollectorStep
  BY <1>4 DEF CollectorStep, CollectorWorks, CollectorSees, CollectorLeaves,
      CollectorReleases
<1>5. CASE UNCHANGED vars
  BY <1>5 DEF vars, engineVars
<1> QED
  BY <1>2, <1>3, <1>4, <1>5 DEF Next

(* What a task knows stays true while others move: the machine never       *)
(* forgets, and faulted routes stay faulted.                               *)
LEMMA KnowledgeStays ==
    ASSUME IInv, [Next]_vars, NEW q \in Requests, pc'[q] = pc[q], req'[q] = req[q]
    PROVE  TaskKnowsOf(q)'
<1>1. TaskKnowsOf(q) /\ (pc[q] # "idle" => req[q] \in RequestInfo)
  BY DEF IInv, TaskKnows, TypeOK, EngineTypeOK, TaskTypeOK
<1>2. faulted \subseteq faulted'
  BY OnlyGrow
<1>3. ASSUME pc[q] # "idle", req[q].verdict \in {"advance", "retry"}
      PROVE  /\ req[q].marker.actor \in Actors
             /\ seen'[Key(req[q].marker)] = req[q].hash
  <2>1. /\ req[q].marker.actor \in Actors
        /\ seen[Key(req[q].marker)] = req[q].hash
    BY <1>1, <1>3 DEF TaskKnowsOf
  <2>2. req[q].hash # NotSeen /\ Key(req[q].marker) \in Actors \X Checkpoints
    BY <1>1, <1>3, <2>1, SentinelsAssumption DEF RequestInfo, Markers, Key
  <2> QED
    BY <2>1, <2>2, MachineStep
<1> QED
  BY <1>1, <1>2, <1>3 DEF TaskKnowsOf, Response, Key

(* The task that moves learns what its new place says.                     *)
LEMMA MoverKnows ==
    ASSUME IInv, [Next]_vars, NEW r \in Requests,
           Receive(r) \/ RequestStep(r) \/ Disconnect(r)
    PROVE  TaskKnowsOf(r)'
<1>1. TaskTypeOK /\ TaskKnowsOf(r) /\ (pc[r] # "idle" => req[r] \in RequestInfo)
  BY DEF IInv, TaskKnows, TypeOK, EngineTypeOK, TaskTypeOK
<1>2. faulted \subseteq faulted'
  BY OnlyGrow
<1>3. ASSUME pc[r] # "idle", req[r].verdict \in {"advance", "retry"}
      PROVE  /\ req[r].marker.actor \in Actors
             /\ seen'[Key(req[r].marker)] = req[r].hash
  <2>1. /\ req[r].marker.actor \in Actors
        /\ seen[Key(req[r].marker)] = req[r].hash
    BY <1>1, <1>3 DEF TaskKnowsOf
  <2>2. req[r].hash # NotSeen /\ Key(req[r].marker) \in Actors \X Checkpoints
    BY <1>1, <1>3, <2>1, SentinelsAssumption DEF RequestInfo, Markers, Key
  <2> QED
    BY <2>1, <2>2, MachineStep
<1> USE DEF Goto, Step, TaskTypeOK
<1>4. CASE Receive(r)
  BY <1>1, <1>2, <1>3, <1>4 DEF Receive, TaskKnowsOf, Held
<1>5. CASE Count(r)
  BY <1>1, <1>2, <1>3, <1>5 DEF Count, TaskKnowsOf, Held, Response, Key
<1>6. CASE PushRecord(r)
  BY <1>1, <1>2, <1>3, <1>6 DEF PushRecord, TaskKnowsOf, Held, Response, Key
<1>7. CASE RecognizeRequest(r)
  BY <1>1, <1>2, <1>3, <1>7 DEF RecognizeRequest, TaskKnowsOf, Held, Response, Key
<1>8. CASE ConsultFaultedRoutes(r)
  BY <1>1, <1>2, <1>3, <1>8 DEF ConsultFaultedRoutes, TaskKnowsOf, Held, Response, Key
<1>9. CASE Recover(r)
  BY <1>1, <1>2, <1>3, <1>9 DEF Recover, TaskKnowsOf, Held, RequestInfo
<1>10. CASE AcceptRequest(r)
  <2> DEFINE m == req[r].marker
             h == req[r].hash
  <2>1. m \in Markers /\ h \in Hashes /\ req[r] \in RequestInfo
    BY <1>1, <1>10 DEF AcceptRequest, RequestInfo
  <2>2. CASE Advance(m, h)
    <3>1. m.actor \in Actors /\ seen'[Key(m)] = h
      BY <2>1, <2>2, AcceptEffect DEF IInv, TypeOK
    <3>2. /\ req'[r].marker = m /\ req'[r].hash = h
          /\ req'[r].verdict \in {"advance", "retry"} /\ pc'[r] = "mark"
      <4>1. ~CanRetry(m, h)
        BY <2>1, <2>2, SentinelsAssumption DEF Advance, CanAdvance, CanRetry
      <4> QED
        BY <1>1, <1>10, <2>1, <2>2, <4>1
           DEF AcceptRequest, AcceptRetry, Reject, Advance, RequestInfo
    <3> QED
      BY <3>1, <3>2 DEF TaskKnowsOf, Held
  <2>3. CASE AcceptRetry(m, h) /\ ~Advance(m, h)
    <3>1. m.actor \in Actors /\ seen'[Key(m)] = h
      BY <2>3 DEF AcceptRetry, CanRetry, machineVars
    <3>2. /\ req'[r].marker = m /\ req'[r].hash = h
          /\ req'[r].verdict \in {"advance", "retry"} /\ pc'[r] = "mark"
      BY <1>1, <1>10, <2>1, <2>3 DEF AcceptRequest, AcceptRetry, Reject, RequestInfo
    <3> QED
      BY <3>1, <3>2 DEF TaskKnowsOf, Held
  <2>4. CASE ~Advance(m, h) /\ ~AcceptRetry(m, h)
    BY <1>1, <1>2, <1>3, <1>10, <2>4 DEF AcceptRequest, TaskKnowsOf, Held, Response, Key
  <2> QED
    BY <2>2, <2>3, <2>4
<1>11. CASE MarkPrimary(r)
  BY <1>1, <1>2, <1>3, <1>11 DEF MarkPrimary, TaskKnowsOf, Held, Response, Key
<1>12. CASE Arrive(r)
  BY <1>1, <1>2, <1>3, <1>12 DEF Arrive, TaskKnowsOf, Held, Response, Key
<1>13. CASE AnnounceArrival(r)
  BY <1>1, <1>2, <1>3, <1>13 DEF AnnounceArrival, TaskKnowsOf, Held, Response, Key
<1>14. CASE Listen(r)
  BY <1>1, <1>2, <1>3, <1>14 DEF Listen, TaskKnowsOf, Held, Response, Key
<1>15. CASE CheckReleased(r)
  BY <1>1, <1>2, <1>3, <1>15 DEF CheckReleased, TaskKnowsOf, Held, Response, Key
<1>16. CASE AwaitNotified(r)
  BY <1>1, <1>2, <1>3, <1>16 DEF AwaitNotified, TaskKnowsOf, Held, Response, Key
<1>17. CASE Respond(r)
  BY <1>1, <1>2, <1>3, <1>17 DEF Respond, TaskKnowsOf, Held, Response, Key, RequestInfo
<1>18. CASE PassGate(r)
  BY <1>1, <1>2, <1>3, <1>18 DEF PassGate, TaskKnowsOf, Held, Response, Key
<1>19. CASE FaultRoute(r)
  BY <1>1, <1>2, <1>3, <1>19 DEF FaultRoute, TaskKnowsOf, Held, Response, Key, RequestInfo
<1>20. CASE AnswerAside(r)
  BY <1>1, <1>2, <1>3, <1>20 DEF AnswerAside, TaskKnowsOf, Held, RequestInfo
<1>21. CASE StampStatus(r)
  BY <1>1, <1>2, <1>3, <1>21 DEF StampStatus, TaskKnowsOf, Held, Response, Key
<1>22. CASE Disconnect(r)
  BY <1>1, <1>2, <1>3, <1>22 DEF Disconnect, TaskKnowsOf, Held, Response, Key, AwaitPoints, Gone
<1> QED
  BY <1>4, <1>5, <1>6, <1>7, <1>8, <1>9, <1>10, <1>11, <1>12, <1>13, <1>14, <1>15, <1>16, <1>17, <1>18, <1>19, <1>20, <1>21, <1>22 DEF RequestStep

LEMMA KnowledgeStep == IInv /\ [Next]_vars => TaskKnows'
<1> SUFFICES ASSUME IInv, [Next]_vars, NEW q \in Requests PROVE TaskKnowsOf(q)'
  BY DEF TaskKnows
<1> QED
  BY OneTaskMoves, KnowledgeStays, MoverKnows

(* Faulting a route is the only way into context_faulted_routes, and the   *)
(* task that does it is past its barrier.                                  *)
LEMMA FaultedStep == IInv /\ [Next]_vars => FaultedIsBehindBarrier'
<1> SUFFICES ASSUME IInv, [Next]_vars PROVE FaultedIsBehindBarrier'
  OBVIOUS
<1>1. \/ faulted' = faulted
      \/ \E r \in Requests : FaultRoute(r)
  <2>1. ASSUME NEW r \in Requests, Receive(r) \/ RequestStep(r) \/ Disconnect(r), ~FaultRoute(r)
        PROVE  faulted' = faulted
    BY <2>1 DEF RequestStep, Receive, Count, PushRecord, RecognizeRequest, ConsultFaultedRoutes, Recover, MarkPrimary, Arrive, AnnounceArrival, Listen, CheckReleased, AwaitNotified, Respond, PassGate, AnswerAside, StampStatus, Disconnect, AcceptRequest
  <2>2. ASSUME NEW b \in Barriers, RunnerStep(b) \/ RunnerTimeout(b) \/ ReleaseChecks(b)
        PROVE  faulted' = faulted
    BY <2>2 DEF RunnerStep, RunnerListen, RunnerCheck, RunnerAwait, RunnerTimeout, ReleaseChecks, ReleaseInserts, ReleaseAnnounces
  <2>3. CASE CollectorStep
    BY <2>3 DEF CollectorStep, CollectorWorks, CollectorSees, CollectorLeaves,
      CollectorReleases
  <2>4. CASE UNCHANGED vars
    BY <2>4 DEF vars, engineVars
  <2> QED
    BY <2>1, <2>2, <2>3, <2>4 DEF Next
<1>2. ASSUME NEW m \in faulted
      PROVE  /\ m.actor \in Actors /\ seen'[Key(m)] # NotSeen
             /\ ResponseForCheckpoint(m).barrier \in released' \cup {NoBarrier}
  <2>1. /\ m.actor \in Actors /\ seen[Key(m)] # NotSeen
        /\ ResponseForCheckpoint(m).barrier \in released \cup {NoBarrier}
    BY DEF IInv, FaultedIsBehindBarrier
  <2>2. Key(m) \in Actors \X Checkpoints
    BY <2>1 DEF IInv, TypeOK, EngineTypeOK, Markers, Key
  <2> QED
    BY <2>1, <2>2, MachineStep, OnlyGrow
<1>3. ASSUME NEW r \in Requests, FaultRoute(r)
      PROVE  /\ req[r].marker.actor \in Actors /\ seen'[Key(req[r].marker)] # NotSeen
             /\ ResponseForCheckpoint(req[r].marker).barrier \in released' \cup {NoBarrier}
  <2>1. /\ req[r].marker.actor \in Actors /\ seen[Key(req[r].marker)] # NotSeen
        /\ pc[r] = "fault" /\ seen' = seen
    BY <1>3, ResponseIsScripted DEF FaultRoute, Step, machineVars
  <2>2. PastBarrier(r)
    BY <2>1 DEF IInv, TaskKnows, TaskKnowsOf, PastBarrier
  <2> QED
    BY <2>1, <2>2, OnlyGrow DEF IInv, HeldUntilReleased, Response, Key
<1>4. ASSUME NEW m \in faulted'
      PROVE  /\ m.actor \in Actors /\ seen'[Key(m)] # NotSeen
             /\ ResponseForCheckpoint(m).barrier \in released' \cup {NoBarrier}
  <2>1. CASE m \in faulted
    BY <1>2, <2>1
  <2>2. ASSUME NEW r \in Requests, FaultRoute(r), m \notin faulted
        PROVE  m = req[r].marker
    BY <1>4, <2>2 DEF FaultRoute
  <2> QED
    BY <1>1, <1>3, <1>4, <2>1, <2>2
<1> QED
  BY <1>4 DEF FaultedIsBehindBarrier, Key, ResponseForCheckpoint, IndexOf

(* A runner that decided to release keeps being right, since reached only  *)
(* grows: the check and the insert need not be one critical section.       *)
LEMMA ReleaseIsReadyStep == IInv /\ [Next]_vars => ReleaseIsReady'
<1> SUFFICES ASSUME IInv, [Next]_vars, NEW c \in Barriers, runner'[c] = "release"
             PROVE  IsReady(c)'
  BY DEF ReleaseIsReady
<1>1. IsReady(c) => IsReady(c)'
  BY OnlyGrow DEF IsReady
<1>2. runner \in [Barriers -> RunnerStates]
  BY DEF IInv, TypeOK, EngineTypeOK
<1>3. CASE runner[c] = "release"
  BY <1>1, <1>3 DEF IInv, ReleaseIsReady
<1>4. CASE runner[c] # "release"
  <2>1. ASSUME NEW b \in Barriers, ReleaseChecks(b)
        PROVE  IsReady(c)
    BY <1>2, <1>4, <2>1 DEF ReleaseChecks
  <2>2. ASSUME NEW b \in Barriers, RunnerStep(b) \/ RunnerTimeout(b), ~ReleaseChecks(b)
        PROVE  FALSE
    BY <1>2, <1>4, <2>2 DEF RunnerStep, RunnerGoto, RunnerListen, RunnerCheck, RunnerAwait, RunnerTimeout, ReleaseInserts, ReleaseAnnounces
  <2>3. ASSUME NEW r \in Requests, Receive(r) \/ RequestStep(r) \/ Disconnect(r)
        PROVE  runner' = runner
    BY <2>3 DEF RequestStep, Receive, Count, PushRecord, RecognizeRequest, ConsultFaultedRoutes, Recover, MarkPrimary, Arrive, AnnounceArrival, Listen, CheckReleased, AwaitNotified, Respond, PassGate, FaultRoute, AnswerAside, StampStatus, Disconnect, AcceptRequest
  <2>4. CollectorStep => runner' = runner
    BY DEF CollectorStep, CollectorWorks, CollectorSees, CollectorLeaves,
      CollectorReleases
  <2>5. UNCHANGED vars => runner' = runner
    BY DEF vars, engineVars
  <2> QED
    BY <1>1, <1>4, <2>1, <2>2, <2>3, <2>4, <2>5 DEF Next
<1> QED
  BY <1>3, <1>4

(* No step lets a primary response past a barrier that is not released,    *)
(* releases one before its actors are registered, or registers an actor    *)
(* the machine has not moved to the barrier's checkpoint.                  *)
LEMMA HeldStep == IInv /\ [Next]_vars => HeldUntilReleased'
<1> SUFFICES ASSUME IInv, [Next]_vars PROVE HeldUntilReleased'
  OBVIOUS
<1>1. HeldUntilReleased /\ released \subseteq released'
      /\ \A b \in Barriers : reached[b] \subseteq reached'[b]
  BY OnlyGrow DEF IInv
<1>2. ASSUME NEW q \in Requests, PastBarrier(q)'
      PROVE  Response(q)'.barrier \in released' \cup {NoBarrier}
  <2>1. CASE pc'[q] = pc[q] /\ req'[q] = req[q]
    BY <1>1, <1>2, <2>1 DEF PastBarrier, Response, HeldUntilReleased
  <2>2. CASE Receive(q) \/ RequestStep(q) \/ Disconnect(q)
    <3>1. TaskTypeOK /\ (pc[q] # "idle" => req[q] \in RequestInfo)
      BY DEF IInv, TypeOK, EngineTypeOK, TaskTypeOK
    <3> USE DEF Goto, Step, TaskTypeOK
    <3>2. CASE MarkPrimary(q)
      BY <1>2, <3>1, <3>2 DEF MarkPrimary, PastBarrier, Response
    <3>3. CASE CheckReleased(q)
      BY <1>1, <1>2, <3>1, <3>3 DEF CheckReleased, PastBarrier, Response
    <3>4. CASE Respond(q) \/ PassGate(q) \/ FaultRoute(q) \/ StampStatus(q)
      <4>1. PastBarrier(q)
        BY <1>2, <3>1, <3>4 DEF Respond, PassGate, FaultRoute, StampStatus, PastBarrier, RequestInfo
      <4>2. req'[q].marker = req[q].marker
        BY <3>1, <3>4 DEF Respond, PassGate, FaultRoute, StampStatus, RequestInfo
      <4> QED
        BY <1>1, <4>1, <4>2 DEF HeldUntilReleased, Response
    <3>5. CASE Recover(q) \/ AnswerAside(q)
      BY <1>2, <3>1, <3>5 DEF Recover, AnswerAside, PastBarrier, RequestInfo
    <3>6. CASE Receive(q) \/ Count(q) \/ PushRecord(q) \/ RecognizeRequest(q)
               \/ ConsultFaultedRoutes(q) \/ AcceptRequest(q) \/ Arrive(q)
               \/ AnnounceArrival(q) \/ Listen(q) \/ AwaitNotified(q) \/ Disconnect(q)
      BY <1>2, <3>1, <3>6 DEF PastBarrier, Receive, Count, PushRecord, RecognizeRequest,
           ConsultFaultedRoutes, AcceptRequest, Arrive, AnnounceArrival, Listen,
           AwaitNotified, Disconnect
    <3> QED
      BY <2>2, <3>2, <3>3, <3>4, <3>5, <3>6 DEF RequestStep
  <2> QED
    BY <2>1, <2>2, OneTaskMoves
<1>3. ASSUME NEW b \in released'
      PROVE  IsReady(b)'
  <2>1. b \in Barriers
    BY TypeStep DEF TypeOK, BarrierTypeOK
  <2>2. IsReady(b) => IsReady(b)'
    BY <1>1, <2>1 DEF IsReady
  <2>3. CASE b \in released
    BY <1>1, <2>2, <2>3 DEF HeldUntilReleased
  <2>4. CASE b \notin released
    <3>1. ASSUME NEW c \in Barriers, ReleaseInserts(c)
          PROVE  IsReady(b)
      BY <2>4, <3>1 DEF ReleaseInserts, RunnerGoto, InsertReleased, IInv, ReleaseIsReady
    <3>2. ASSUME NEW c \in Barriers, RunnerStep(c) \/ RunnerTimeout(c) \/ ReleaseChecks(c),
                 ~ReleaseInserts(c)
          PROVE  released' = released
      BY <3>2 DEF RunnerStep, barrierVars, CreateNotified, NotifyWaiters, RunnerListen, RunnerCheck, RunnerAwait, RunnerTimeout, ReleaseChecks, ReleaseAnnounces
    <3>3. ASSUME NEW r \in Requests, Receive(r) \/ RequestStep(r) \/ Disconnect(r)
          PROVE  released' = released
      BY <3>3 DEF RequestStep, barrierVars, CreateNotified, NotifyWaiters, RegisterArrival,
           Receive, Count, PushRecord, RecognizeRequest, ConsultFaultedRoutes, Recover, MarkPrimary, Arrive, AnnounceArrival, Listen, CheckReleased, AwaitNotified, Respond, PassGate, FaultRoute, AnswerAside, StampStatus, Disconnect, AcceptRequest
    <3>4. CollectorStep => released' = released
      BY DEF CollectorStep, CollectorWorks, CollectorSees, CollectorLeaves,
      CollectorReleases, barrierVars
    <3>5. UNCHANGED vars => released' = released
      BY DEF vars, barrierVars
    <3> QED
      BY <2>2, <2>4, <3>1, <3>2, <3>3, <3>4, <3>5 DEF Next
  <2> QED
    BY <2>3, <2>4
<1>4. ASSUME NEW b \in Barriers, NEW a \in reached'[b]
      PROVE  a \in BarrierActors[b] /\ seen'[<<a, BarrierCheckpoint[b]>>] # NotSeen
  <2>1. CASE a \in reached[b]
    <3>1. a \in BarrierActors[b] /\ seen[<<a, BarrierCheckpoint[b]>>] # NotSeen
      BY <1>1, <2>1 DEF HeldUntilReleased
    <3>2. <<a, BarrierCheckpoint[b]>> \in Actors \X Checkpoints
      BY <2>1, WorkflowValid DEF Validate, IInv, TypeOK, BarrierTypeOK
    <3> QED
      BY <3>1, <3>2, MachineStep
  <2>2. CASE a \notin reached[b]
    <3>1. PICK r \in Requests : Arrive(r)
      <4>1. ASSUME NEW r \in Requests, Receive(r) \/ RequestStep(r) \/ Disconnect(r), ~Arrive(r)
            PROVE  reached' = reached
        BY <4>1 DEF RequestStep, barrierVars, CreateNotified, NotifyWaiters, Receive, Count, PushRecord, RecognizeRequest, ConsultFaultedRoutes, Recover, MarkPrimary, AnnounceArrival, Listen, CheckReleased, AwaitNotified, Respond, PassGate, FaultRoute, AnswerAside, StampStatus, Disconnect, AcceptRequest
      <4>2. ASSUME NEW c \in Barriers, RunnerStep(c) \/ RunnerTimeout(c) \/ ReleaseChecks(c)
            PROVE  reached' = reached
        BY <4>2 DEF RunnerStep, barrierVars, CreateNotified, NotifyWaiters, InsertReleased,
             RunnerListen, RunnerCheck, RunnerAwait, RunnerTimeout, ReleaseChecks, ReleaseInserts, ReleaseAnnounces
      <4>3. CollectorStep => reached' = reached
        BY DEF CollectorStep, CollectorWorks, CollectorSees, CollectorLeaves,
      CollectorReleases, barrierVars
      <4>4. UNCHANGED vars => reached' = reached
        BY DEF vars, barrierVars
      <4> QED
        BY <1>4, <2>2, <4>1, <4>2, <4>3, <4>4 DEF Next
    <3> DEFINE m == req[r].marker
               c == Response(r).barrier
    <3>2. reached \in [Barriers -> SUBSET Actors]
      BY DEF IInv, TypeOK, BarrierTypeOK
    <3>3. MayEnter(c, m) /\ RegisterArrival(c, m.actor) /\ seen' = seen
      BY <1>4, <2>2, <3>1 DEF Arrive, barrierVars, machineVars
    <3>4. m.actor \in Actors /\ seen[Key(m)] # NotSeen
      BY <3>1, ResponseIsScripted DEF Arrive, Held
    <3> HIDE DEF m, c
    <3>5. b = c /\ a = m.actor
      BY <1>4, <2>2, <3>2, <3>3 DEF RegisterArrival
    <3> QED
      BY <3>3, <3>4, <3>5 DEF MayEnter, Key
  <2> QED
    BY <2>1, <2>2
<1> QED
  BY <1>2, <1>3, <1>4 DEF HeldUntilReleased

-----------------------------------------------------------------------------
LEMMA InitIInv == Init => IInv
<1> SUFFICES ASSUME Init PROVE IInv
  OBVIOUS
<1> USE DEF Init, MachineInit, BarrierInit
<1>1. TypeOK
  BY DEF TypeOK, MachineTypeOK, BarrierTypeOK, EngineTypeOK, TaskTypeOK, RequestStates,
         Gone, RunnerStates
<1>2. SeenIsScriptPrefix /\ \A a \in Actors : nextByActor[a] <= Len(Script[a])
  BY WorkflowValid DEF Validate, SeenIsScriptPrefix
<1>3. HeldUntilReleased
  BY DEF HeldUntilReleased, PastBarrier
<1>4. TaskKnows /\ FaultedIsBehindBarrier /\ ReleaseIsReady
  BY DEF TaskKnows, TaskKnowsOf, FaultedIsBehindBarrier, ReleaseIsReady, Held
<1> QED
  BY <1>1, <1>2, <1>3, <1>4 DEF IInv

LEMMA IInvStep == IInv /\ [Next]_vars => IInv'
<1> SUFFICES ASSUME IInv, [Next]_vars PROVE IInv'
  OBVIOUS
<1>1. SeenIsScriptPrefix' /\ (\A a \in Actors : nextByActor[a] <= Len(Script[a]))'
  BY MachineStep
<1> QED
  BY <1>1, TypeStep, HeldStep, KnowledgeStep, FaultedStep, ReleaseIsReadyStep DEF IInv

(* IInv holds in every state of every behaviour.                           *)
THEOREM Invariance == Spec => []IInv
<1>1. Init => IInv
  BY InitIInv
<1>2. IInv /\ [Next]_vars => IInv'
  BY IInvStep
<1> QED
  BY <1>1, <1>2, PTL DEF Spec

(* The engine's state is always well typed, whatever requests arrive.      *)
THEOREM TypeCorrect == Spec => []TypeOK
<1>1. IInv => TypeOK
  BY DEF IInv
<1> QED
  BY <1>1, Invariance, PTL

(* For every workflow: an actor has seen exactly the checkpoints of the    *)
(* responses it was given (WorkflowMachine::accept's two maps agree).      *)
THEOREM SeenIsPrefix == Spec => []SeenIsScriptPrefix
<1>1. IInv => SeenIsScriptPrefix
  BY DEF IInv
<1> QED
  BY <1>1, Invariance, PTL

(* For every workflow and any number of concurrent requests: no primary    *)
(* response passes an unreleased barrier, and none is released before all  *)
(* its actors were moved to its checkpoint.                                *)
THEOREM BarriersHold == Spec => []HeldUntilReleased
<1>1. IInv => HeldUntilReleased
  BY DEF IInv
<1> QED
  BY <1>1, Invariance, PTL

(* For every workflow: a step gives at most one actor its next response,   *)
(* and no accepted hash is forgotten or rebound.                           *)
THEOREM OnlyAdvances == Spec => ScriptOnlyAdvances
<1>1. IInv /\ [Next]_vars =>
         [ /\ \A a \in Actors : nextByActor'[a] \in nextByActor[a] .. nextByActor[a] + 1
           /\ \A k \in Actors \X Checkpoints : seen[k] # NotSeen => seen'[k] = seen[k]
         ]_machineVars
  BY MachineStep
<1> QED
  BY <1>1, Invariance, PTL DEF Spec, ScriptOnlyAdvances

-----------------------------------------------------------------------------
(* The race for a checkpoint.  What a step does to one task's verdict:     *)
(* only accept gives "advance", to a checkpoint that was not seen.         *)
Advanced(r) == pc[r] # "idle" /\ req[r].verdict = "advance"

OneAdvances ==
    \A r, s \in Requests :
        Advanced(r) /\ Advanced(s) /\ req[r].marker = req[s].marker => r = s

Wins(r) ==
    /\ pc[r] # "idle" /\ req'[r].marker = req[r].marker
    /\ req[r].marker.actor \in Actors /\ seen[Key(req[r].marker)] = NotSeen

LEMMA VerdictOfMover ==
    ASSUME IInv, NEW r \in Requests, Receive(r) \/ RequestStep(r) \/ Disconnect(r),
           Advanced(r)'
    PROVE  Wins(r) \/ (Advanced(r) /\ req'[r].marker = req[r].marker)
<1>0. TaskTypeOK /\ (pc[r] # "idle" => req[r] \in RequestInfo)
  BY DEF IInv, TypeOK, EngineTypeOK, TaskTypeOK
<1> USE DEF Goto, Step, TaskTypeOK, Advanced
<1>1. CASE Receive(r)
  BY <1>0, <1>1 DEF Receive
<1>2. CASE Count(r) \/ Respond(r) \/ FaultRoute(r)
  BY <1>0, <1>2 DEF Count, Respond, FaultRoute, RequestInfo
<1>3. CASE Recover(r) \/ AnswerAside(r)
  BY <1>0, <1>3 DEF Recover, AnswerAside, RequestInfo
<1>4. CASE AcceptRequest(r)
  <2>1. CASE Advance(req[r].marker, req[r].hash) /\ req' = [req EXCEPT ![r].verdict = "advance"]
    BY <1>0, <1>4, <2>1 DEF AcceptRequest, Advance, CanAdvance, Wins, RequestInfo
  <2>2. CASE req' = [req EXCEPT ![r].verdict = "retry"]
    BY <1>0, <1>4, <2>2 DEF AcceptRequest, RequestInfo
  <2>3. CASE UNCHANGED req
    BY <1>0, <1>4, <2>3 DEF AcceptRequest
  <2> QED
    BY <1>4, <2>1, <2>2, <2>3 DEF AcceptRequest
<1>5. CASE \/ PushRecord(r) \/ RecognizeRequest(r) \/ ConsultFaultedRoutes(r)
           \/ MarkPrimary(r) \/ Arrive(r) \/ AnnounceArrival(r) \/ Listen(r)
           \/ CheckReleased(r) \/ AwaitNotified(r) \/ PassGate(r) \/ StampStatus(r)
           \/ Disconnect(r)
  <2>1. UNCHANGED req /\ pc[r] # "idle"
    BY <1>5 DEF PushRecord, RecognizeRequest, ConsultFaultedRoutes, MarkPrimary, Arrive,
         AnnounceArrival, Listen, CheckReleased, AwaitNotified, PassGate, StampStatus,
         Disconnect, AwaitPoints, Gone
  <2> QED
    BY <2>1
<1> QED
  BY <1>1, <1>2, <1>3, <1>4, <1>5 DEF RequestStep

(* Who wins finds nobody there: a task that advanced knows its checkpoint  *)
(* to be seen.                                                             *)
LEMMA WinnerIsFirst ==
    ASSUME IInv, NEW r \in Requests, Wins(r), NEW s \in Requests, Advanced(s)
    PROVE  req[s].marker # req[r].marker
<1>1. req[s] \in RequestInfo /\ seen[Key(req[s].marker)] = req[s].hash
  BY DEF Advanced, IInv, TaskKnows, TaskKnowsOf, TypeOK, EngineTypeOK, TaskTypeOK
<1>2. req[s].hash # NotSeen
  BY <1>1, SentinelsAssumption DEF RequestInfo
<1> QED
  BY <1>1, <1>2 DEF Wins

LEMMA OneAdvanceStep == IInv /\ OneAdvances /\ [Next]_vars => OneAdvances'
<1> SUFFICES ASSUME IInv, OneAdvances, [Next]_vars,
                    NEW r \in Requests, NEW s \in Requests, Advanced(r)', Advanced(s)',
                    req'[r].marker = req'[s].marker, r # s
             PROVE  FALSE
  BY DEF OneAdvances, Advanced
<1>1. CASE UNCHANGED <<pc, req>>
  BY <1>1 DEF OneAdvances, Advanced
<1>2. ASSUME NEW p \in Requests, Receive(p) \/ RequestStep(p) \/ Disconnect(p),
             \A q \in Requests \ {p} : pc'[q] = pc[q] /\ req'[q] = req[q]
      PROVE  FALSE
  <2>1. ASSUME NEW a \in Requests, Advanced(a)'
        PROVE  /\ req'[a].marker = req[a].marker
               /\ Advanced(a) \/ (a = p /\ Wins(a))
    BY <1>2, <2>1, VerdictOfMover DEF Advanced, Wins
  <2>2. req[r].marker = req[s].marker
    BY <2>1
  <2> QED
    BY <2>1, <2>2, WinnerIsFirst DEF OneAdvances
<1> QED
  BY <1>1, <1>2, OneTaskMoves

(* For every workflow and any number of racing requests: one request       *)
(* advances the script at a checkpoint, and those the engine treats as its *)
(* retries carry the hash it was accepted with.                            *)
THEOREM OneAdvance == Spec => []OneAdvancePerCheckpoint
<1>1. Init => OneAdvances
  BY DEF Init, OneAdvances, Advanced
<1>2. IInv /\ OneAdvances => OneAdvancePerCheckpoint
  <2> SUFFICES ASSUME IInv, OneAdvances, NEW r \in Requests, NEW s \in Requests,
                      Advanced(r), pc[s] # "idle", req[r].marker = req[s].marker, r # s
               PROVE  /\ req[s].verdict # "advance"
                      /\ req[s].verdict = "retry" => req[s].hash = req[r].hash
    BY DEF OneAdvancePerCheckpoint, Advanced
  <2>1. TaskKnowsOf(r) /\ TaskKnowsOf(s)
    BY DEF IInv, TaskKnows
  <2> QED
    BY <2>1 DEF OneAdvances, Advanced, TaskKnowsOf
<1> QED
  BY <1>1, <1>2, OneAdvanceStep, Invariance, PTL DEF Spec

-----------------------------------------------------------------------------
(* A context fault, and what is answered on its route.                     *)
FaultFirst(r) ==
    /\ pc[r] \in {"stamp", "answered"}
    /\ req[r].verdict \in Primaries
    /\ Response(r).fault = "context-length"
    => /\ req[r].marker \in faulted
       /\ req[r].fault = "none" => req[r].verdict = "recovery"

LEMMA FaultFirstStep ==
    ASSUME IInv, [Next]_vars, NEW r \in Requests, FaultFirst(r) PROVE FaultFirst(r)'
<1>1. faulted \subseteq faulted'
  BY OnlyGrow
<1>2. CASE pc'[r] = pc[r] /\ req'[r] = req[r]
  BY <1>1, <1>2 DEF FaultFirst, Response, ResponseForCheckpoint, IndexOf
<1>3. CASE Receive(r) \/ RequestStep(r) \/ Disconnect(r)
  <2>1. TaskTypeOK /\ TaskKnowsOf(r) /\ (pc[r] # "idle" => req[r] \in RequestInfo)
    BY DEF IInv, TaskKnows, TypeOK, EngineTypeOK, TaskTypeOK
  <2> USE DEF Goto, Step, TaskTypeOK
  <2>2. CASE Recover(r)
    BY <1>1, <2>1, <2>2 DEF Recover, FaultFirst, TaskKnowsOf, RequestInfo
  <2>3. CASE Respond(r)
    <3>1. CASE Response(r).fault = "context-length"
      BY <2>1, <2>3, <3>1 DEF Respond, FaultFirst
    <3>2. CASE Response(r).fault # "context-length"
      <4>1. req'[r].marker = req[r].marker
        BY <2>1, <2>3, <3>2 DEF Respond, RequestInfo
      <4> QED
        BY <3>2, <4>1 DEF FaultFirst, Response, ResponseForCheckpoint, IndexOf
    <3> QED
      BY <3>1, <3>2
  <2>4. CASE FaultRoute(r)
    BY <2>1, <2>4 DEF FaultRoute, FaultFirst, RequestInfo
  <2>5. CASE AnswerAside(r)
    BY <2>1, <2>5 DEF AnswerAside, FaultFirst, RequestInfo, Primaries
  <2>6. CASE StampStatus(r)
    BY <1>1, <2>1, <2>6
       DEF StampStatus, FaultFirst, Response, ResponseForCheckpoint, IndexOf
  <2>7. CASE \/ Receive(r) \/ Count(r) \/ PushRecord(r) \/ RecognizeRequest(r)
             \/ ConsultFaultedRoutes(r) \/ AcceptRequest(r) \/ MarkPrimary(r)
             \/ Arrive(r) \/ AnnounceArrival(r) \/ Listen(r) \/ CheckReleased(r)
             \/ AwaitNotified(r) \/ PassGate(r) \/ Disconnect(r)
    <3>1. pc'[r] \notin {"stamp", "answered"}
      BY <2>1, <2>7 DEF Receive, Count, PushRecord, RecognizeRequest,
           ConsultFaultedRoutes, AcceptRequest, MarkPrimary, Arrive, AnnounceArrival,
           Listen, CheckReleased, AwaitNotified, PassGate, Disconnect
    <3> QED
      BY <3>1 DEF FaultFirst
  <2> QED
    BY <1>3, <2>2, <2>3, <2>4, <2>5, <2>6, <2>7 DEF RequestStep
<1> QED
  BY <1>2, <1>3, OneTaskMoves

(* For every workflow: a context-length checkpoint is answered normally    *)
(* only after its route was sent the context error, whichever requests     *)
(* race and whoever goes away.                                             *)
THEOREM FaultComesFirst == Spec => []NoRecoveryBeforeFault
<1>1. Init => \A r \in Requests : FaultFirst(r)
  BY DEF Init, FaultFirst
<1>2. IInv /\ (\A r \in Requests : FaultFirst(r)) /\ [Next]_vars
        => (\A r \in Requests : FaultFirst(r))'
  BY FaultFirstStep
<1>3. (\A r \in Requests : FaultFirst(r)) => NoRecoveryBeforeFault
  BY DEF FaultFirst, NoRecoveryBeforeFault
<1> QED
  BY <1>1, <1>2, <1>3, Invariance, PTL DEF Spec

-----------------------------------------------------------------------------
(* Attempt numbers.  Counting and pushing are two critical sections; what  *)
(* keeps the numbers apart in between is that a task holds one that no     *)
(* record of its marker has and no other task holds.                       *)
Lists == Markers \X Hashes

Taken(m, n) == \E g \in Hashes : \E i \in DOMAIN records[<<m, g>>] :
                  records[<<m, g>>][i].attempt = n

Holds(r, m, n) == pc[r] = "record" /\ req[r].marker = m /\ req[r].attempt = n

NumbersDiffer ==
    \A m \in Markers : \A g, h \in Hashes :
        \A i \in DOMAIN records[<<m, g>>], j \in DOMAIN records[<<m, h>>] :
            records[<<m, g>>][i].attempt = records[<<m, h>>][j].attempt => g = h /\ i = j

AttemptInv ==
    /\ NumbersDiffer
    /\ \A m \in Markers : \A n \in Nat :
          Taken(m, n) \/ (\E r \in Requests : Holds(r, m, n)) => n \in 1 .. attempts[m]
    /\ \A r \in Requests : \A m \in Markers : \A n \in Nat :
          Holds(r, m, n) => ~Taken(m, n) /\ \A s \in Requests : Holds(s, m, n) => s = r

\* The record lists keep their numbers, whatever else is noted in them.
SameNumbers ==
    \A k \in Lists :
        /\ DOMAIN records'[k] = DOMAIN records[k]
        /\ \A i \in DOMAIN records[k] : records'[k][i].attempt = records[k][i].attempt

LEMMA DifferApplied ==
    ASSUME NumbersDiffer, NEW m \in Markers, NEW g \in Hashes, NEW h \in Hashes,
           NEW i \in DOMAIN records[<<m, g>>], NEW j \in DOMAIN records[<<m, h>>],
           records[<<m, g>>][i].attempt = records[<<m, h>>][j].attempt
    PROVE  g = h /\ i = j
BY DEF NumbersDiffer

LEMMA ListTyped ==
    ASSUME TypeOK, NEW k \in Lists
    PROVE  /\ records[k] \in Seq(Record) /\ Len(records[k]) \in Nat
           /\ DOMAIN records[k] = 1 .. Len(records[k])
           /\ \A i \in DOMAIN records[k] : records[k][i] \in Record
<1>1. records[k] \in Seq(Record)
  BY DEF TypeOK, EngineTypeOK, Lists
<1> QED
  BY <1>1

LEMMA MarkKeepsNumbers ==
    ASSUME TypeOK, NEW r \in Requests, req[r] \in RequestInfo, NEW role \in Roles,
           MarkAccepted(r, role)
    PROVE  SameNumbers
<1> DEFINE k == RecordKey(r)
           n == Len(records[k])
           s == [records[k] EXCEPT ![n].accepted = TRUE, ![n].role = role]
<1>1. k \in Lists /\ records \in [Lists -> Seq(Record)]
  BY DEF RecordKey, RequestInfo, TypeOK, EngineTypeOK, Lists
<1>2. records' = [records EXCEPT ![k] = s]
  BY <1>1 DEF MarkAccepted
<1>3. DOMAIN s = DOMAIN records[k]
  OBVIOUS
<1>4. ASSUME NEW i \in DOMAIN records[k] PROVE s[i].attempt = records[k][i].attempt
  <2>1. records[k][i] \in Record
    BY <1>1, ListTyped
  <2> QED
    BY <2>1 DEF Record
<1> HIDE DEF s, k
<1> QED
  BY <1>1, <1>2, <1>3, <1>4 DEF SameNumbers

LEMMA StampKeepsNumbers ==
    ASSUME TypeOK, NEW r \in Requests, req[r] \in RequestInfo, StampStatus(r)
    PROVE  SameNumbers
<1> DEFINE k == RecordKey(r)
<1>1. k \in Lists /\ records \in [Lists -> Seq(Record)]
  BY DEF RecordKey, RequestInfo, TypeOK, EngineTypeOK, Lists
<1>2. CASE UNCHANGED records
  BY <1>2 DEF SameNumbers
<1>3. ASSUME NEW n, records' = [records EXCEPT ![k][n].status = TRUE]
      PROVE  SameNumbers
  <2> DEFINE s == [records[k] EXCEPT ![n].status = TRUE]
  <2>1. records' = [records EXCEPT ![k] = s] /\ DOMAIN s = DOMAIN records[k]
    BY <1>1, <1>3
  <2>2. ASSUME NEW i \in DOMAIN records[k] PROVE s[i].attempt = records[k][i].attempt
    <3>1. records[k][i] \in Record
      BY <1>1, ListTyped
    <3> QED
      BY <3>1 DEF Record
  <2> HIDE DEF s, k
  <2> QED
    BY <1>1, <2>1, <2>2 DEF SameNumbers
<1> QED
  BY <1>2, <1>3 DEF StampStatus

(* Every step counts an attempt, pushes a record, or leaves the numbers.   *)
LEMMA NumbersStep ==
    ASSUME IInv, [Next]_vars,
           ~ \E r \in Requests : Count(r) \/ PushRecord(r)
    PROVE  /\ SameNumbers /\ UNCHANGED attempts
           /\ \A r \in Requests : pc'[r] = "record" => pc[r] = "record" /\ req'[r] = req[r]
<1>1. ASSUME NEW r \in Requests, Receive(r) \/ RequestStep(r) \/ Disconnect(r)
      PROVE  SameNumbers /\ UNCHANGED attempts /\ pc'[r] # "record"
  <2>0. TypeOK /\ TaskTypeOK /\ (pc[r] # "idle" => req[r] \in RequestInfo)
    BY DEF IInv, TypeOK, EngineTypeOK, TaskTypeOK
  <2>1. CASE Recover(r) \/ MarkPrimary(r) \/ AnswerAside(r)
    <3>1. pc[r] # "idle" /\ UNCHANGED attempts /\ pc'[r] # "record"
      BY <2>0, <2>1 DEF Recover, MarkPrimary, AnswerAside, Goto, Step, TaskTypeOK
    <3>2. \E role \in Roles : MarkAccepted(r, role)
      BY <2>1 DEF Recover, MarkPrimary, AnswerAside, Roles
    <3> QED
      BY <2>0, <3>1, <3>2, MarkKeepsNumbers
  <2>2. CASE StampStatus(r)
    <3>1. pc[r] # "idle" /\ UNCHANGED attempts /\ pc'[r] # "record"
      BY <2>0, <2>2 DEF StampStatus, Goto, TaskTypeOK
    <3> QED
      BY <2>0, <2>2, <3>1, StampKeepsNumbers
  <2>3. CASE \/ Receive(r) \/ RecognizeRequest(r) \/ ConsultFaultedRoutes(r)
             \/ AcceptRequest(r) \/ Arrive(r) \/ AnnounceArrival(r) \/ Listen(r)
             \/ CheckReleased(r) \/ AwaitNotified(r) \/ Respond(r) \/ PassGate(r)
             \/ FaultRoute(r) \/ Disconnect(r)
    BY <2>0, <2>3 DEF Receive, RecognizeRequest, ConsultFaultedRoutes, AcceptRequest,
         Arrive, AnnounceArrival, Listen, CheckReleased, AwaitNotified, Respond, PassGate,
         FaultRoute, Disconnect, Goto, Step, TaskTypeOK, SameNumbers
  <2> QED
    BY <1>1, <2>1, <2>2, <2>3 DEF RequestStep
<1>2. ASSUME NEW b \in Barriers, RunnerStep(b) \/ RunnerTimeout(b) \/ ReleaseChecks(b)
      PROVE  UNCHANGED <<records, attempts>>
  BY <1>2 DEF RunnerStep, RunnerListen, RunnerCheck, RunnerAwait, RunnerTimeout,
       ReleaseChecks, ReleaseInserts, ReleaseAnnounces
<1>3. CollectorStep => UNCHANGED <<records, attempts>>
  BY DEF CollectorStep, CollectorWorks, CollectorSees, CollectorLeaves, CollectorReleases
<1>4. UNCHANGED vars => UNCHANGED <<records, attempts>>
  BY DEF vars, engineVars
<1>5. SameNumbers /\ UNCHANGED attempts
  <2>1. UNCHANGED <<records, attempts>> => SameNumbers /\ UNCHANGED attempts
    BY DEF SameNumbers
  <2> QED
    BY <1>1, <1>2, <1>3, <1>4, <2>1 DEF Next
<1> QED
  BY <1>1, <1>5, OneTaskMoves

LEMMA NumbersStay ==
    ASSUME SameNumbers, AttemptInv, UNCHANGED attempts,
           \A r \in Requests : pc'[r] = "record" => pc[r] = "record" /\ req'[r] = req[r]
    PROVE  AttemptInv'
<1>1. \A m \in Markers, n \in Nat : Taken(m, n)' <=> Taken(m, n)
  BY DEF SameNumbers, Taken, Lists
<1>2. \A r \in Requests, m \in Markers, n \in Nat : Holds(r, m, n)' => Holds(r, m, n)
  BY DEF Holds
<1>3. NumbersDiffer'
  BY DEF AttemptInv, NumbersDiffer, SameNumbers, Lists
<1> QED
  BY <1>1, <1>2, <1>3 DEF AttemptInv

LEMMA CountKeeps ==
    ASSUME IInv, AttemptInv, NEW r \in Requests, Count(r)
    PROVE  AttemptInv'
<1> DEFINE M == req[r].marker
           N == attempts[M] + 1
<1>0. TaskTypeOK /\ req[r] \in RequestInfo /\ attempts \in [Markers -> Nat]
  BY DEF Count, Step, IInv, TypeOK, EngineTypeOK, TaskTypeOK
<1>1. /\ attempts' = [attempts EXCEPT ![M] = N] /\ M \in Markers /\ N \in Nat
      /\ UNCHANGED records
      /\ req'[r].marker = M /\ req'[r].attempt = N /\ pc'[r] = "record"
      /\ \A s \in Requests \ {r} : pc'[s] = pc[s] /\ req'[s] = req[s]
  BY <1>0 DEF Count, Step, Goto, TaskTypeOK, RequestInfo
<1>2. \A m \in Markers, n \in Nat : Taken(m, n)' <=> Taken(m, n)
  BY <1>1 DEF Taken
<1>3. ASSUME NEW s \in Requests, NEW m \in Markers, NEW n \in Nat, Holds(s, m, n)'
      PROVE  (s = r /\ m = M /\ n = N) \/ (s # r /\ Holds(s, m, n))
  BY <1>1, <1>3 DEF Holds
<1>4. NumbersDiffer'
  BY <1>1 DEF AttemptInv, NumbersDiffer
<1>5. ASSUME NEW m \in Markers, NEW n \in Nat, n \in 1 .. attempts[m]
      PROVE  n \in 1 .. attempts'[m] /\ (m = M => n # N)
  BY <1>0, <1>1, <1>5
<1>6. N \in 1 .. attempts'[M]
  BY <1>0, <1>1
<1> HIDE DEF M, N
<1>7. \A m \in Markers : \A n \in Nat :
         Taken(m, n)' \/ (\E s \in Requests : Holds(s, m, n)') => n \in 1 .. attempts'[m]
  BY <1>2, <1>3, <1>5, <1>6 DEF AttemptInv
<1>8. ASSUME NEW s \in Requests, NEW m \in Markers, NEW n \in Nat, Holds(s, m, n)'
      PROVE  ~Taken(m, n)' /\ \A q \in Requests : Holds(q, m, n)' => q = s
  <2>1. CASE s = r /\ m = M /\ n = N
    <3>1. ~Taken(m, n) /\ ~ \E q \in Requests : Holds(q, m, n)
      BY <1>5, <2>1 DEF AttemptInv
    <3> QED
      BY <1>2, <1>3, <2>1, <3>1
  <2>2. CASE s # r /\ Holds(s, m, n)
    <3>1. ~Taken(m, n) /\ \A q \in Requests : Holds(q, m, n) => q = s
      BY <2>2 DEF AttemptInv
    <3>2. ~(m = M /\ n = N)
      BY <1>5, <2>2 DEF AttemptInv
    <3> QED
      BY <1>2, <1>3, <3>1, <3>2
  <2> QED
    BY <1>3, <1>8, <2>1, <2>2
<1> QED
  BY <1>4, <1>7, <1>8 DEF AttemptInv

LEMMA PushKeeps ==
    ASSUME IInv, AttemptInv, NEW r \in Requests, PushRecord(r)
    PROVE  AttemptInv'
<1> DEFINE M == req[r].marker
           H == req[r].hash
           N == req[r].attempt
           x == [by |-> r, attempt |-> N, accepted |-> FALSE,
                 role |-> "unclassified", status |-> FALSE]
           L == Len(records[<<M, H>>]) + 1
<1>0. TaskTypeOK /\ req[r] \in RequestInfo /\ records \in [Lists -> Seq(Record)]
  BY DEF PushRecord, Step, IInv, TypeOK, EngineTypeOK, TaskTypeOK, Lists
<1>1. /\ M \in Markers /\ H \in Hashes /\ N \in Nat /\ Holds(r, M, N)
      /\ records' = [records EXCEPT ![<<M, H>>] = Append(@, x)]
      /\ UNCHANGED <<attempts, req>>
      /\ pc'[r] # "record"
      /\ \A s \in Requests \ {r} : pc'[s] = pc[s]
  BY <1>0 DEF PushRecord, Step, Goto, TaskTypeOK, RequestInfo, RecordKey, Holds
<1>2. <<M, H>> \in Lists /\ records[<<M, H>>] \in Seq(Record)
  BY <1>0, <1>1 DEF Lists
<1>3. /\ L \in Nat /\ L = Len(records[<<M, H>>]) + 1
      /\ DOMAIN records[<<M, H>>] = 1 .. (L - 1)
      /\ DOMAIN records'[<<M, H>>] = 1 .. L
      /\ records'[<<M, H>>][L].attempt = N
      /\ \A i \in 1 .. (L - 1) : records'[<<M, H>>][i] = records[<<M, H>>][i]
  <2>1. records'[<<M, H>>] = Append(records[<<M, H>>], x)
    BY <1>0, <1>1, <1>2
  <2>2. x \in Record
    BY <1>1 DEF Record, Roles
  <2>3. x.attempt = N
    OBVIOUS
  <2> HIDE DEF x
  <2> QED
    BY <1>2, <2>1, <2>2, <2>3
<1>4. \A k \in Lists \ {<<M, H>>} : records'[k] = records[k]
  BY <1>0, <1>1
<1> HIDE DEF M, H, N, x, L
<1>5. ASSUME NEW m \in Markers, NEW g \in Hashes, NEW i \in DOMAIN records'[<<m, g>>]
      PROVE  \/ m = M /\ g = H /\ i = L /\ records'[<<m, g>>][i].attempt = N
             \/ /\ i \in DOMAIN records[<<m, g>>]
                /\ records'[<<m, g>>][i].attempt = records[<<m, g>>][i].attempt
  <2>1. CASE m = M /\ g = H
    BY <1>3, <2>1
  <2>2. CASE ~(m = M /\ g = H)
    <3>1. <<m, g>> \in Lists \ {<<M, H>>}
      BY <2>2 DEF Lists
    <3> QED
      BY <1>4, <3>1
  <2> QED
    BY <2>1, <2>2
<1>6. ASSUME NEW m \in Markers, NEW n \in Nat, Taken(m, n)'
      PROVE  Taken(m, n) \/ (m = M /\ n = N)
  BY <1>5, <1>6 DEF Taken
<1>7. ASSUME NEW s \in Requests, NEW m \in Markers, NEW n \in Nat, Holds(s, m, n)'
      PROVE  s # r /\ Holds(s, m, n)
  BY <1>1, <1>7 DEF Holds
<1>8. ~Taken(M, N) /\ N \in 1 .. attempts[M] /\ \A s \in Requests : Holds(s, M, N) => s = r
  BY <1>1 DEF AttemptInv
<1>9. NumbersDiffer'
  <2> SUFFICES ASSUME NEW m \in Markers, NEW g \in Hashes, NEW h \in Hashes,
                      NEW i \in DOMAIN records'[<<m, g>>],
                      NEW j \in DOMAIN records'[<<m, h>>],
                      records'[<<m, g>>][i].attempt = records'[<<m, h>>][j].attempt
               PROVE  g = h /\ i = j
    BY DEF NumbersDiffer
  <2>1. CASE m = M /\ g = H /\ i = L /\ records'[<<m, g>>][i].attempt = N
    BY <1>5, <1>8, <2>1 DEF Taken
  <2>2. CASE m = M /\ h = H /\ j = L /\ records'[<<m, h>>][j].attempt = N
    BY <1>5, <1>8, <2>2 DEF Taken
  <2>3. CASE /\ i \in DOMAIN records[<<m, g>>] /\ j \in DOMAIN records[<<m, h>>]
             /\ records'[<<m, g>>][i].attempt = records[<<m, g>>][i].attempt
             /\ records'[<<m, h>>][j].attempt = records[<<m, h>>][j].attempt
    <3>1. NumbersDiffer
      BY DEF AttemptInv
    <3>2. records[<<m, g>>][i].attempt = records[<<m, h>>][j].attempt
      BY <2>3
    <3> QED
      BY <2>3, <3>1, <3>2, DifferApplied
  <2> QED
    BY <1>5, <2>1, <2>2, <2>3
<1>10. \A m \in Markers : \A n \in Nat :
          Taken(m, n)' \/ (\E s \in Requests : Holds(s, m, n)') => n \in 1 .. attempts'[m]
  BY <1>1, <1>6, <1>7, <1>8 DEF AttemptInv
<1>11. ASSUME NEW s \in Requests, NEW m \in Markers, NEW n \in Nat, Holds(s, m, n)'
       PROVE  ~Taken(m, n)' /\ \A q \in Requests : Holds(q, m, n)' => q = s
  <2>1. s # r /\ Holds(s, m, n)
    BY <1>7, <1>11
  <2>2. ~Taken(m, n) /\ ~(m = M /\ n = N)
    BY <1>8, <2>1 DEF AttemptInv
  <2> QED
    BY <1>6, <1>7, <2>1, <2>2 DEF AttemptInv
<1> QED
  BY <1>9, <1>10, <1>11 DEF AttemptInv

(* For any number of requests: no two attempts at a marker share a number, *)
(* although they are counted in one critical section and pushed in         *)
(* another, so that a response's status is noted on its own record.        *)
THEOREM AttemptsDiffer == Spec => []AttemptsAreUnique
<1>1. Init => AttemptInv
  <2> SUFFICES ASSUME Init PROVE AttemptInv
    OBVIOUS
  <2>1. \A k \in Lists : DOMAIN records[k] = {}
    BY DEF Init, Lists
  <2>2. \A m \in Markers, g \in Hashes : DOMAIN records[<<m, g>>] = {}
    BY <2>1 DEF Lists
  <2>3. \A r \in Requests : pc[r] # "record"
    BY DEF Init
  <2> QED
    BY <2>2, <2>3 DEF AttemptInv, NumbersDiffer, Taken, Holds
<1>2. ASSUME IInv, AttemptInv, [Next]_vars PROVE AttemptInv'
  <2>1. CASE \E r \in Requests : Count(r) \/ PushRecord(r)
    BY <1>2, <2>1, CountKeeps, PushKeeps
  <2>2. CASE ~ \E r \in Requests : Count(r) \/ PushRecord(r)
    BY <1>2, <2>2, NumbersStep, NumbersStay
  <2> QED
    BY <2>1, <2>2
<1>3. IInv /\ AttemptInv => AttemptsAreUnique
  <2> SUFFICES ASSUME IInv, AttemptInv, NEW m \in Markers, NEW g \in Hashes,
                      NEW h \in Hashes, NEW i \in DOMAIN records[<<m, g>>],
                      NEW j \in DOMAIN records[<<m, h>>]
               PROVE  /\ records[<<m, g>>][i].attempt \in 1 .. attempts[m]
                      /\ records[<<m, g>>][i].attempt = records[<<m, h>>][j].attempt
                            => g = h /\ i = j
    BY DEF AttemptsAreUnique
  <2>1. records[<<m, g>>][i].attempt \in Nat
    <3>1. records[<<m, g>>][i] \in Record
      BY ListTyped DEF IInv, Lists
    <3> QED
      BY <3>1 DEF Record
  <2>2. Taken(m, records[<<m, g>>][i].attempt)
    BY DEF Taken
  <2> QED
    BY <2>1, <2>2 DEF AttemptInv, NumbersDiffer
<1> QED
  BY <1>1, <1>2, <1>3, Invariance, PTL DEF Spec

-----------------------------------------------------------------------------
(* The engine implements ScriptedReplay.                                   *)

LEMMA SentSame ==
    ASSUME Answering' = Answering, \A q \in Answering : req'[q] = req[q]
    PROVE  SentResponses' = SentResponses
<1>1. ASSUME NEW q \in Answering PROVE ReplyOf(q)' = ReplyOf(q)
  BY <1>1 DEF ReplyOf, IndexOf
<1> QED
  BY <1>1 DEF SentResponses

(* Only the step that stamps a response's status sends it.                 *)
LEMMA OthersSendNothing ==
    ASSUME IInv, [Next]_vars, ~ \E r \in Requests : StampStatus(r)
    PROVE  SentResponses' = SentResponses
<1>1. TaskTypeOK
  BY DEF IInv, TypeOK, EngineTypeOK
<1>2. ASSUME NEW q \in Requests, Receive(q) \/ RequestStep(q) \/ Disconnect(q)
      PROVE  q \notin Answering /\ q \notin Answering'
  BY <1>1, <1>2 DEF TaskTypeOK, Answering, RequestStep, Goto, Step, AwaitPoints, Gone,
       Receive, Count, PushRecord, RecognizeRequest, ConsultFaultedRoutes, Recover, MarkPrimary, Arrive, AnnounceArrival, Listen, CheckReleased, AwaitNotified, Respond, PassGate, FaultRoute, AnswerAside, Disconnect, AcceptRequest
<1>3. ASSUME NEW q \in Requests, pc'[q] = pc[q], req'[q] = req[q]
      PROVE  (q \in Answering' <=> q \in Answering) /\ req'[q] = req[q]
  BY <1>3 DEF Answering
<1>4. /\ \A q \in Requests : q \in Answering' <=> q \in Answering
      /\ \A q \in Answering : req'[q] = req[q]
  BY <1>2, <1>3, OneTaskMoves DEF Answering
<1>5. Answering' = Answering
  BY <1>4 DEF Answering
<1> QED
  BY <1>4, <1>5, SentSame

(* A response about to be sent was given to its actor, and its barrier is  *)
(* released - on the recovery path too.                                    *)
LEMMA StampedMayBeSent ==
    ASSUME IInv, NEW r \in Requests, pc[r] = "stamp", req[r].verdict \in Primaries
    PROVE  LET m == req[r].marker IN
           /\ m.actor \in Actors
           /\ IndexOf(m) \in 1 .. nextByActor[m.actor]
           /\ Script[m.actor][IndexOf(m)].barrier \in released \cup {NoBarrier}
<1> DEFINE m == req[r].marker
<1>1. req[r] \in RequestInfo /\ m \in Markers /\ req[r].hash \in Hashes
  BY DEF IInv, TypeOK, EngineTypeOK, TaskTypeOK, RequestInfo
<1>2. /\ m.actor \in Actors /\ seen[Key(m)] # NotSeen
      /\ ResponseForCheckpoint(m).barrier \in released \cup {NoBarrier}
  <2>1. CASE req[r].verdict = "recovery"
    BY <2>1 DEF IInv, TaskKnows, TaskKnowsOf, FaultedIsBehindBarrier
  <2>2. CASE req[r].verdict \in {"advance", "retry"}
    <3>1. PastBarrier(r)
      BY <2>2 DEF PastBarrier
    <3> QED
      BY <1>1, <2>2, <3>1, SentinelsAssumption
         DEF IInv, TaskKnows, TaskKnowsOf, HeldUntilReleased, Response
  <2> QED
    BY <2>1, <2>2 DEF Primaries
<1>3. /\ IndexOf(m) \in DOMAIN Script[m.actor]
      /\ IndexOf(m) <= nextByActor[m.actor]
  BY <1>1, <1>2, SeenHasResponse DEF IInv
<1>4. Script[m.actor] \in Seq(ScriptedResponses) /\ nextByActor[m.actor] \in Nat
  BY <1>2, WorkflowValid DEF Validate, IInv, TypeOK, MachineTypeOK
<1>5. IndexOf(m) \in 1 .. nextByActor[m.actor]
  BY <1>3, <1>4
<1> QED
  BY <1>2, <1>5 DEF ResponseForCheckpoint

(* A ready barrier may be opened: each of its actors was given the         *)
(* response that names it.                                                 *)
LEMMA ReadyMayOpen ==
    ASSUME IInv, NEW b \in Barriers, IsReady(b), NEW a \in BarrierActors[b]
    PROVE  \E i \in 1 .. nextByActor[a] : Script[a][i].barrier = b
<1>1. a \in Actors /\ BarrierCheckpoint[b] \in Checkpoints
  BY WorkflowValid DEF Validate
<1>2. seen[<<a, BarrierCheckpoint[b]>>] # NotSeen
  BY DEF IInv, HeldUntilReleased, IsReady
<1>3. PICK i \in DOMAIN Script[a] :
          i <= nextByActor[a] /\ Script[a][i].checkpoint = BarrierCheckpoint[b]
  BY <1>1, <1>2 DEF IInv, SeenIsScriptPrefix
<1>4. PICK j \in DOMAIN Script[a] :
          Script[a][j].barrier = b /\ Script[a][j].checkpoint = BarrierCheckpoint[b]
  BY WorkflowValid DEF Validate
<1>5. i = j
  BY <1>1, <1>3, <1>4, WorkflowValid DEF Validate
<1>6. Script[a] \in Seq(ScriptedResponses) /\ nextByActor[a] \in Nat
  BY <1>1, WorkflowValid DEF Validate, IInv, TypeOK, MachineTypeOK
<1> QED
  BY <1>3, <1>4, <1>5, <1>6

LEMMA ReplayStep == IInv /\ [Next]_vars => [Replay!Next]_(Replay!vars)
<1> SUFFICES ASSUME IInv, [Next]_vars PROVE [Replay!Next]_(Replay!vars)
  OBVIOUS
<1> USE DEF Replay!vars
<1>1. ASSUME NEW r \in Requests, AcceptRequest(r)
      PROVE  [Replay!Next]_(Replay!vars)
  <2> DEFINE m == req[r].marker
             h == req[r].hash
  <2>1. UNCHANGED released /\ pc[r] = "accept"
    BY <1>1 DEF AcceptRequest, barrierVars
  <2>2. ~ \E q \in Requests : StampStatus(q)
    <3>1. ASSUME NEW q \in Requests, StampStatus(q) PROVE FALSE
      <4>1. TaskTypeOK
        BY DEF IInv, TypeOK, EngineTypeOK
      <4>2. pc'[q] \in {"failed", "answered"} /\ pc[q] = "stamp"
        BY <3>1, <4>1 DEF StampStatus, Goto, TaskTypeOK
      <4>3. pc'[q] = pc[q]
        BY <1>1, <2>1, <4>1, <4>2 DEF AcceptRequest, Goto, TaskTypeOK
      <4> QED
        BY <4>2, <4>3
    <3> QED
      BY <3>1
  <2>3. UNCHANGED SentResponses
    BY <2>2, OthersSendNothing
  <2>4. m \in Markers /\ h \in Hashes
    BY <2>1 DEF IInv, TypeOK, EngineTypeOK, TaskTypeOK, RequestInfo
  <2>5. CASE Advance(m, h)
    <3> HIDE DEF m, h
    <3>1. /\ m.actor \in Actors /\ nextByActor[m.actor] < Len(Script[m.actor])
          /\ nextByActor' = [nextByActor EXCEPT ![m.actor] = @ + 1]
      BY <2>4, <2>5, AcceptEffect DEF IInv, TypeOK
    <3> QED
      BY <2>1, <2>3, <3>1 DEF Replay!Next, Replay!Give
  <2>6. CASE UNCHANGED machineVars
    BY <2>1, <2>3, <2>6 DEF machineVars
  <2> QED
    BY <1>1, <2>5, <2>6 DEF AcceptRequest, AcceptRetry, Reject
<1>2. ASSUME NEW r \in Requests, StampStatus(r)
      PROVE  [Replay!Next]_(Replay!vars)
  <2> DEFINE m == req[r].marker
  <2>1. UNCHANGED <<nextByActor, released, req>> /\ TaskTypeOK
    BY <1>2 DEF StampStatus, machineVars, barrierVars, IInv, TypeOK, EngineTypeOK
  <2>2. pc[r] = "stamp" /\ \A q \in Requests \ {r} : pc'[q] = pc[q]
    BY <1>2, <2>1 DEF StampStatus, Goto, TaskTypeOK
  <2>3. CASE r \in Answering'
    <3>1. req[r].verdict \in Primaries
      BY <2>1, <2>3 DEF Answering
    <3>2. SentResponses' = SentResponses \cup {<<m.actor, IndexOf(m)>>}
      <4>1. Answering' = Answering \cup {r}
        BY <2>1, <2>2, <2>3 DEF Answering
      <4>2. \A q \in Requests : ReplyOf(q)' = ReplyOf(q)
        BY <2>1 DEF ReplyOf, IndexOf
      <4>3. ReplyOf(r) = <<m.actor, IndexOf(m)>>
        BY DEF ReplyOf
      <4>4. Answering \subseteq Requests
        BY DEF Answering
      <4> QED
        BY <4>1, <4>2, <4>3, <4>4 DEF SentResponses
    <3>3. /\ m.actor \in Actors /\ IndexOf(m) \in 1 .. nextByActor[m.actor]
          /\ Script[m.actor][IndexOf(m)].barrier \in released \cup {NoBarrier}
      BY <2>2, <3>1, StampedMayBeSent
    <3> QED
      BY <2>1, <3>2, <3>3 DEF Replay!Next, Replay!Send
  <2>4. CASE r \notin Answering'
    <3>1. Answering' = Answering
      BY <2>1, <2>2, <2>4 DEF Answering
    <3> QED
      BY <2>1, <3>1, SentSame
  <2> QED
    BY <2>3, <2>4
<1>3. ASSUME NEW b \in Barriers, ReleaseInserts(b), ~ \E r \in Requests : StampStatus(r)
      PROVE  [Replay!Next]_(Replay!vars)
  <2>1. UNCHANGED <<nextByActor, SentResponses>> /\ released' = released \cup {b}
    BY <1>3, OthersSendNothing DEF ReleaseInserts, InsertReleased, machineVars
  <2>2. IsReady(b)
    BY <1>3 DEF ReleaseInserts, RunnerGoto, IInv, ReleaseIsReady
  <2>3. \A a \in BarrierActors[b] : \E i \in 1 .. nextByActor[a] : Script[a][i].barrier = b
    BY <2>2, ReadyMayOpen
  <2> QED
    BY <2>1, <2>3 DEF Replay!Next, Replay!Open
<1>4. ASSUME ~ \E r \in Requests : AcceptRequest(r) \/ StampStatus(r),
             ~ \E b \in Barriers : ReleaseInserts(b)
      PROVE  UNCHANGED <<nextByActor, released, SentResponses>>
  <2>1. UNCHANGED <<machineVars, SentResponses>>
    BY <1>4, MachineMoves, OthersSendNothing
  <2>2. ASSUME NEW c \in Barriers, RunnerStep(c) \/ RunnerTimeout(c) \/ ReleaseChecks(c)
        PROVE  released' = released
    BY <1>4, <2>2 DEF RunnerStep, barrierVars, CreateNotified, NotifyWaiters,
         RunnerListen, RunnerCheck, RunnerAwait, RunnerTimeout, ReleaseChecks, ReleaseAnnounces
  <2>3. ASSUME NEW r \in Requests, Receive(r) \/ RequestStep(r) \/ Disconnect(r)
        PROVE  released' = released
    BY <2>3 DEF RequestStep, barrierVars, CreateNotified, NotifyWaiters, RegisterArrival,
         Receive, Count, PushRecord, RecognizeRequest, ConsultFaultedRoutes, Recover, MarkPrimary, Arrive, AnnounceArrival, Listen, CheckReleased, AwaitNotified, Respond, PassGate, FaultRoute, AnswerAside, StampStatus, Disconnect, AcceptRequest
  <2>4. CollectorStep => released' = released
    BY DEF CollectorStep, CollectorWorks, CollectorSees, CollectorLeaves,
      CollectorReleases, barrierVars
  <2>5. UNCHANGED vars => released' = released
    BY DEF vars, barrierVars
  <2> QED
    BY <2>1, <2>2, <2>3, <2>4, <2>5 DEF Next, machineVars
<1>5. UNCHANGED <<nextByActor, released, SentResponses>> => [Replay!Next]_(Replay!vars)
  OBVIOUS
<1> QED
  BY <1>1, <1>2, <1>3, <1>4, <1>5, Zenon

(* For every workflow the engine implements the scripted replay: responses *)
(* in script order, none before its barrier opens, retries and recoveries  *)
(* repeating what was given (handle_observed against ScriptedReplay).      *)
THEOREM ImplementsReplay == Spec => ReplaySpec
<1>1. Init => Replay!Init
  BY DEF Init, MachineInit, BarrierInit, Replay!Init, SentResponses, Answering
<1>2. IInv /\ [Next]_vars => [Replay!Next]_(Replay!vars)
  BY ReplayStep
<1> QED
  BY <1>1, <1>2, Invariance, PTL DEF Spec, ReplaySpec, Replay!Spec
=============================================================================
