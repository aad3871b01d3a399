-------------------------- MODULE MockHarnessProofs --------------------------
(***************************************************************************)
(* Proofs about the mock harness, for any number of turns, calls, workers  *)
(* and deaths: its memory is what its journal says, its files follow the   *)
(* journal, and a hook runs once.                                          *)
(***************************************************************************)
EXTENDS MockHarness, TLAPS

Agents == Workers \cup {Rpc}

\* Whoever is past reading the pending turn has a turn.
Fibers ==
    {f \in [at : Places, turn : SomeTurn, round : Nat, index : Nat,
            hook : {"none", "acceptance", "completion"}, next : SomeTurn] :
        /\ f.at \notin {"idle", "read"} => f.turn \in Turns
        /\ f.at = "next" => f.next \in Turns
        /\ f.at \in {"hook", "fired"} => f.hook # "none"
        /\ f.at = "fired" => f.hook \in HookKinds}

Tasks ==
    {k \in [at : Statuses, known : BOOLEAN, turn : SomeTurn] :
        k.at # "none" => k.turn \in Turns}

StoreOK == journal \in Seq(Record) /\ torn \in BOOLEAN /\ garbled \in BOOLEAN
DiskOK ==
    /\ files \in [Paths -> Calls \cup {NoCall}]
    /\ claims \subseteq Hooks /\ fired \in [Hooks -> Nat]
    /\ reached \subseteq Calls /\ tokens \subseteq reached
DaemonOK == up \in BOOLEAN /\ starts \in Nat
SessionOK == session \in Sessions /\ (session.active => session.pending # NoTurn)
FiberOK == fiber \in [Agents -> Fibers]
TaskOK == task \in [Workers -> [Calls -> Tasks]]

Typed ==
    /\ StoreOK /\ DiskOK /\ DaemonOK /\ SessionOK /\ FiberOK /\ TaskOK

LEMMA TypedIsTyped == Typed => TypeOK
<1> SUFFICES ASSUME Typed PROVE TypeOK
  OBVIOUS
<1>1. fiber \in [Workers \cup {Rpc} ->
                    [at : Places, turn : SomeTurn, round : Nat, index : Nat,
                     hook : {"none", "acceptance", "completion"}, next : SomeTurn]]
  BY DEF Typed, FiberOK, Fibers, Agents
<1>2. task \in [Workers -> [Calls -> [at : Statuses, known : BOOLEAN, turn : SomeTurn]]]
  BY DEF Typed, TaskOK, Tasks
<1> QED
  BY <1>1, <1>2 DEF Typed, StoreOK, DiskOK, DaemonOK, SessionOK, TypeOK

-----------------------------------------------------------------------------
(* Fibers.                                                                 *)

LEMMA IdleIsFiber ==
    /\ Idle \in Fibers
    /\ [Idle EXCEPT !.at = "read"] \in Fibers
  BY DEF Idle, Fibers, Places, SomeTurn

LEMMA TurnIsFiber ==
    ASSUME NEW t \in Turns
    PROVE  /\ [Idle EXCEPT !.at = "top", !.turn = t] \in Fibers
           /\ [Idle EXCEPT !.at = "hook", !.turn = t, !.hook = "acceptance"] \in Fibers
  BY DEF Idle, Fibers, Places, SomeTurn

LEMMA FiberSet ==
    ASSUME FiberOK, NEW a \in Agents, NEW f \in Fibers, fiber' = [fiber EXCEPT ![a] = f]
    PROVE  FiberOK'
  BY DEF FiberOK

LEMMA GotoMoves ==
    ASSUME FiberOK, NEW a \in Agents, NEW there \in Places,
           Goto(a, there), fiber[a].at \notin {"idle", "read"},
           there = "next" => fiber[a].next \in Turns,
           there \in {"hook", "fired"} => fiber[a].hook # "none",
           there = "fired" => fiber[a].hook \in HookKinds
    PROVE  FiberOK'
<1> DEFINE f == [fiber[a] EXCEPT !.at = there]
<1>1. fiber[a] \in Fibers
  BY DEF FiberOK
<1>2. f \in Fibers
  BY <1>1 DEF Fibers
<1>3. fiber' = [fiber EXCEPT ![a] = f]
  BY DEF Goto
<1> QED
  BY <1>2, <1>3, FiberSet

LEMMA SpawnMoves ==
    ASSUME FiberOK, NEW w \in Workers, Spawn(w)
    PROVE  FiberOK'
<1>1. w \in Agents /\ Rpc \in Agents
  BY DEF Agents
<1>2. fiber' = [fiber EXCEPT ![w] = [Idle EXCEPT !.at = "read"], ![Rpc] = Idle]
  BY DEF Spawn
<1> QED
  BY <1>1, <1>2, IdleIsFiber DEF FiberOK

LEMMA AcceptMoves ==
    ASSUME FiberOK, NEW a \in Agents, NEW t \in Turns, AcceptIn(a, t)
    PROVE  FiberOK'
  BY TurnIsFiber, FiberSet DEF AcceptIn

LEMMA AfterHookMoves ==
    ASSUME FiberOK, NEW a \in Agents, AfterHook(a), fiber[a].at \in {"hook", "fired"}
    PROVE  FiberOK'
<1>1. CASE a = Rpc
  BY <1>1, SpawnMoves DEF AfterHook
<1>2. CASE a # Rpc
  <2>1. fiber[a] \in Fibers
    BY DEF FiberOK
  <2>2. CASE fiber[a].hook = "acceptance"
    BY <1>2, <2>2, GotoMoves DEF AfterHook, Places
  <2>3. CASE fiber[a].hook # "acceptance"
    <3>1. fiber[a].next # NoTurn => fiber[a].next \in Turns
      BY <2>1 DEF Fibers, SomeTurn
    <3>2. CASE fiber[a].next = NoTurn
      <4>1. Goto(a, "idle")
        BY <1>2, <2>3, <3>2 DEF AfterHook
      <4> QED
        BY <4>1, GotoMoves DEF Places
    <3>3. CASE fiber[a].next # NoTurn
      <4>1. Goto(a, "next")
        BY <1>2, <2>3, <3>3 DEF AfterHook
      <4> QED
        BY <3>1, <3>3, <4>1, GotoMoves DEF Places
    <3> QED
      BY <3>2, <3>3
  <2> QED
    BY <2>2, <2>3
<1> QED
  BY <1>1, <1>2

LEMMA HookErrorMoves ==
    ASSUME FiberOK, NEW a \in Agents, HookError(a), fiber[a].at \in {"hook", "fired"}
    PROVE  FiberOK'
<1>1. CASE a = Rpc
  BY <1>1, IdleIsFiber, FiberSet DEF HookError
<1>2. CASE a # Rpc
  <2>1. Goto(a, "failed")
    BY <1>2 DEF HookError, Goto
  <2> QED
    BY <2>1, GotoMoves DEF Places
<1> QED
  BY <1>1, <1>2

LEMMA HookFibers ==
    ASSUME FiberOK, NEW a \in Agents, RunHook(a)
    PROVE  FiberOK'
<1>1. CASE SkipHook(a)
  BY <1>1, AfterHookMoves DEF SkipHook, At
<1>2. CASE FireHook(a)
  <2>1. fiber[a] \in Fibers /\ fiber[a].at = "hook"
    BY <1>2 DEF FireHook, At, FiberOK
  <2>2. CASE HookError(a)
    BY <2>1, <2>2, HookErrorMoves
  <2>3. CASE Goto(a, "fired")
    <3>1. fiber[a].hook \in HookKinds
      BY <1>2 DEF FireHook
    <3> QED
      BY <2>1, <2>3, <3>1, GotoMoves DEF Places, Fibers
  <2> QED
    BY <1>2, <2>2, <2>3 DEF FireHook
<1>3. CASE HookEnds(a)
  BY <1>3, AfterHookMoves, HookErrorMoves DEF HookEnds, At
<1> QED
  BY <1>1, <1>2, <1>3 DEF RunHook

LEMMA ModelFibers ==
    ASSUME FiberOK, SessionOK, NEW w \in Workers,
           \/ ReadPending(w) \/ RequestModel(w) \/ ModelFails(w) \/ ModelErrs(w)
           \/ ModelReplies(w) \/ Finish(w)
    PROVE  FiberOK'
<1>0. w \in Agents /\ fiber[w] \in Fibers
  BY DEF FiberOK, Agents
<1>1. CASE ReadPending(w)
  <2>1. session.pending # NoTurn => session.pending \in Turns
    BY DEF SessionOK, Sessions, SomeTurn
  <2>2. CASE session.pending = NoTurn
    BY <1>0, <1>1, <2>2, IdleIsFiber, FiberSet DEF ReadPending
  <2>3. CASE session.pending # NoTurn
    <3>1. [Idle EXCEPT !.at = "top", !.turn = session.pending] \in Fibers
      BY <2>1, <2>3, TurnIsFiber
    <3> QED
      BY <1>0, <1>1, <2>3, <3>1, FiberSet DEF ReadPending
  <2> QED
    BY <2>2, <2>3
<1>2. CASE RequestModel(w)
  <2>1. PICK there \in {"done", "post"} : Goto(w, there)
    BY <1>2 DEF RequestModel
  <2>2. fiber[w].at = "top"
    BY <1>2 DEF RequestModel, At
  <2>3. there \in Places /\ there \notin {"next", "hook", "fired"}
    BY DEF Places
  <2> QED
    BY <1>0, <2>1, <2>2, <2>3, GotoMoves
<1>3. CASE ModelFails(w)
  BY <1>0, <1>3, GotoMoves DEF ModelFails, At, Places
<1>4. CASE ModelErrs(w)
  BY <1>0, <1>4, GotoMoves DEF ModelErrs, At, Places
<1>5. CASE ModelReplies(w)
  <2>1. fiber[w].at = "post"
    BY <1>5 DEF ModelReplies, At
  <2>2. CASE Goto(w, "done")
    BY <1>0, <2>1, <2>2, GotoMoves DEF Places
  <2>3. CASE Goto(w, "finish")
    BY <1>0, <2>1, <2>3, GotoMoves DEF Places
  <2>4. CASE fiber' = [fiber EXCEPT ![w].at = "prepare", ![w].index = 1]
    <3> DEFINE f == [fiber[w] EXCEPT !.at = "prepare", !.index = 1]
    <3>1. f \in Fibers
      BY <1>0, <2>1 DEF Fibers, Places
    <3>2. fiber' = [fiber EXCEPT ![w] = f]
      BY <1>0, <2>4 DEF FiberOK
    <3> QED
      BY <1>0, <3>1, <3>2, FiberSet
  <2> QED
    BY <1>5, <2>2, <2>3, <2>4 DEF ModelReplies
<1>6. CASE Finish(w)
  BY <1>0, <1>6, GotoMoves DEF Finish, At, Places
<1> QED
  BY <1>1, <1>2, <1>3, <1>4, <1>5, <1>6

LEMMA FrameFibers ==
    ASSUME FiberOK, NEW w \in Workers, PrepareCall(w) \/ Join(w)
    PROVE  FiberOK'
<1>0. w \in Agents /\ fiber[w] \in Fibers
  BY DEF FiberOK, Agents
<1>1. CASE PrepareCall(w)
  <2>1. fiber[w].at = "prepare"
    BY <1>1 DEF PrepareCall, At
  <2>2. CASE Goto(w, "done")
    BY <1>0, <2>1, <2>2, GotoMoves DEF Places
  <2>3. CASE Goto(w, "join")
    BY <1>0, <2>1, <2>3, GotoMoves DEF Places
  <2>4. CASE fiber' = [fiber EXCEPT ![w].index = fiber[w].index + 1]
    <3> DEFINE f == [fiber[w] EXCEPT !.index = fiber[w].index + 1]
    <3>1. f \in Fibers
      BY <1>0, <2>1 DEF Fibers
    <3>2. fiber' = [fiber EXCEPT ![w] = f]
      BY <1>0, <2>4 DEF FiberOK
    <3> QED
      BY <1>0, <3>1, <3>2, FiberSet
  <2> QED
    BY <1>1, <2>2, <2>3, <2>4 DEF PrepareCall
<1>2. CASE Join(w)
  <2>1. fiber[w].at = "join"
    BY <1>2 DEF Join, At
  <2>2. CASE Goto(w, "done")
    BY <1>0, <2>1, <2>2, GotoMoves DEF Places
  <2>3. CASE Goto(w, "failed")
    BY <1>0, <2>1, <2>3, GotoMoves DEF Places
  <2>4. CASE fiber' = [fiber EXCEPT ![w].at = "top", ![w].round = @ + 1]
    <3> DEFINE f == [fiber[w] EXCEPT !.at = "top", !.round = fiber[w].round + 1]
    <3>0. fiber[w].round + 1 \in Nat /\ fiber[w].turn \in Turns
      BY <1>0, <2>1 DEF Fibers
    <3>1. f \in Fibers
      BY <1>0, <3>0 DEF Fibers, Places
    <3>2. fiber' = [fiber EXCEPT ![w] = f]
      BY <1>0, <2>4 DEF FiberOK
    <3> QED
      BY <1>0, <3>1, <3>2, FiberSet
  <2> QED
    BY <1>2, <2>2, <2>3, <2>4 DEF Join
<1> QED
  BY <1>1, <1>2

LEMMA QueueFibers ==
    ASSUME FiberOK, SessionOK, NEW w \in Workers,
           EndTurn(w) \/ TakeQueued(w) \/ WorkerFails(w)
    PROVE  FiberOK'
<1>0. w \in Agents /\ fiber[w] \in Fibers
  BY DEF FiberOK, Agents
<1>1. CASE EndTurn(w)
  <2>1. session.queued \in Seq(Turns)
    BY DEF SessionOK, Sessions
  <2>2. PICK n \in SomeTurn :
          fiber' = [fiber EXCEPT ![w].at = "hook", ![w].hook = "completion", ![w].next = n]
    <3>1. session.queued # <<>> => Head(session.queued) \in Turns
      BY <2>1
    <3> QED
      BY <1>1, <3>1 DEF EndTurn, SomeTurn
  <2> DEFINE f == [fiber[w] EXCEPT !.at = "hook", !.hook = "completion", !.next = n]
  <2>3. f \in Fibers
    BY <1>0, <1>1 DEF Fibers, Places, EndTurn, At
  <2>4. fiber' = [fiber EXCEPT ![w] = f]
    BY <1>0, <2>2 DEF FiberOK
  <2> QED
    BY <1>0, <2>3, <2>4, FiberSet
<1>2. CASE TakeQueued(w)
  <2>1. fiber[w].at = "next" /\ fiber[w].next \in Turns
    BY <1>0, <1>2 DEF TakeQueued, At, Fibers
  <2>2. CASE AcceptIn(w, fiber[w].next)
    BY <1>0, <2>1, <2>2, AcceptMoves
  <2>3. CASE Goto(w, "read")
    BY <1>0, <2>1, <2>3, GotoMoves DEF Places
  <2>4. CASE Goto(w, "failed")
    BY <1>0, <2>1, <2>4, GotoMoves DEF Places
  <2> QED
    BY <1>2, <2>2, <2>3, <2>4 DEF TakeQueued
<1>3. CASE WorkerFails(w)
  BY <1>0, <1>3, IdleIsFiber, FiberSet DEF WorkerFails
<1> QED
  BY <1>1, <1>2, <1>3

LEMMA FiberStep ==
    ASSUME Typed, [Next]_vars
    PROVE  FiberOK'
<1> USE DEF Typed
<1>1. ASSUME NEW t \in Turns, Submit(t) PROVE FiberOK'
  BY <1>1, AcceptMoves DEF Submit, Agents
<1>2. CASE Resume
  BY <1>2, SpawnMoves DEF Resume
<1>3. ASSUME NEW a \in Agents, RunHook(a) PROVE FiberOK'
  BY <1>3, HookFibers
<1>4. ASSUME NEW w \in Workers, Work(w) PROVE FiberOK'
  BY <1>4, ModelFibers, FrameFibers, QueueFibers DEF Work
<1>5. ASSUME Die \/ Stop \/ \E w \in Workers, c \in Calls : DieInCommit(w, c) PROVE FiberOK'
  <2>1. fiber' = [a \in DOMAIN fiber |-> Idle]
    BY <1>5 DEF Die, Stop, DieInCommit, Gone
  <2> QED
    BY <2>1, IdleIsFiber DEF FiberOK
<1>6. ASSUME \/ \E t \in Turns : Queue(t)
             \/ Cancel \/ Close \/ Start \/ (\E c \in Calls : Release(c))
             \/ (\E w \in Workers, c \in Calls : RunTask(w, c))
             \/ UNCHANGED vars
      PROVE  UNCHANGED fiber
  BY <1>6 DEF Queue, Cancel, Close, Start, Release, RunTask, StartTask, ReachCheckpoint,
       LeaveCheckpoint, CommitCall, vars
<1>7. UNCHANGED fiber => FiberOK'
  BY DEF FiberOK
<1> QED
  BY <1>1, <1>2, <1>3, <1>4, <1>5, <1>6, <1>7 DEF Next, Request, Agents

-----------------------------------------------------------------------------
(* Tasks.                                                                  *)

LEMMA NoTaskIsTask == NoTask \in Tasks
  BY DEF NoTask, Tasks, Statuses, SomeTurn

LEMMA TaskMoves ==
    ASSUME TaskOK, NEW w \in Workers, NEW c \in Calls, NEW there \in Statuses \ {"none"},
           task[w][c].at # "none", TaskGoto(w, c, there)
    PROVE  TaskOK'
<1> DEFINE k == [task[w][c] EXCEPT !.at = there]
<1>1. task[w] \in [Calls -> Tasks] /\ task[w][c] \in Tasks
  BY DEF TaskOK
<1>2. k \in Tasks
  BY <1>1 DEF Tasks
<1>3. [task[w] EXCEPT ![c] = k] \in [Calls -> Tasks]
  BY <1>1, <1>2
<1>4. task' = [task EXCEPT ![w] = [task[w] EXCEPT ![c] = k]]
  BY DEF TaskGoto, TaskOK
<1> QED
  BY <1>3, <1>4 DEF TaskOK

LEMMA NoTasksMoves ==
    ASSUME TaskOK, NEW w \in Workers, NoTasks(w) PROVE TaskOK'
  BY NoTaskIsTask DEF TaskOK, NoTasks

LEMMA AfterHookTasks ==
    ASSUME TaskOK, NEW a \in Agents, AfterHook(a) PROVE TaskOK'
<1>1. ASSUME UNCHANGED task PROVE TaskOK'
  BY <1>1 DEF TaskOK
<1> QED
  BY <1>1, NoTasksMoves DEF AfterHook, Spawn

LEMMA NotifyTasks ==
    ASSUME TaskOK, NotifyWaiters PROVE TaskOK'
<1>1. PICK chosen : task' = [w \in Workers |-> [c \in Calls |->
                       IF c \in {d \in Calls : Waiting(d) # {}} /\ chosen[c] = w
                       THEN [task[w][c] EXCEPT !.at = "woken"] ELSE task[w][c]]]
             /\ \A c \in {d \in Calls : Waiting(d) # {}} : chosen[c] \in Waiting(c)
  BY DEF NotifyWaiters
<1>2. ASSUME NEW w \in Workers, NEW c \in Calls PROVE task'[w][c] \in Tasks
  <2>1. task[w][c] \in Tasks
    BY DEF TaskOK
  <2>2. task[w][c].at = "waiting" => [task[w][c] EXCEPT !.at = "woken"] \in Tasks
    BY <2>1 DEF Tasks, Statuses
  <2>3. task'[w][c] = IF c \in {d \in Calls : Waiting(d) # {}} /\ chosen[c] = w
                      THEN [task[w][c] EXCEPT !.at = "woken"] ELSE task[w][c]
    BY <1>1
  <2> QED
    BY <1>1, <2>1, <2>2, <2>3 DEF Waiting
<1> QED
  BY <1>1, <1>2 DEF TaskOK

LEMMA PrepareTasks ==
    ASSUME TaskOK, FiberOK, NEW w \in Workers, PrepareCall(w) PROVE TaskOK'
<1> DEFINE c == Frame(w)[fiber[w].index]
           k == [at |-> "listed", turn |-> Turn(w), known |-> c \in session.results]
           listed == [task[w] EXCEPT ![c] = k]
<1>1. Turn(w) \in Turns
  BY DEF FiberOK, Fibers, Agents, PrepareCall, At, Turn
<1>2. k \in Tasks
  BY <1>1 DEF Tasks, Statuses, SomeTurn
<1>3. listed \in [Calls -> Tasks]
  BY <1>2 DEF TaskOK
<1>4. CASE NoTasks(w)
  BY <1>4, NoTasksMoves
<1>5. CASE task' = [task EXCEPT ![w] = listed]
  BY <1>3, <1>5 DEF TaskOK
<1>6. CASE task' = [task EXCEPT ![w] = [d \in Calls |->
                      IF listed[d].at = "listed"
                      THEN [listed[d] EXCEPT !.at = "start"] ELSE listed[d]]]
  <2>1. \A d \in Calls : listed[d].at = "listed" =>
          [listed[d] EXCEPT !.at = "start"] \in Tasks
    BY <1>3 DEF Tasks, Statuses
  <2>2. [d \in Calls |-> IF listed[d].at = "listed"
                         THEN [listed[d] EXCEPT !.at = "start"] ELSE listed[d]]
          \in [Calls -> Tasks]
    BY <1>3, <2>1
  <2> QED
    BY <1>6, <2>2 DEF TaskOK
<1> QED
  BY <1>4, <1>5, <1>6 DEF PrepareCall

LEMMA CallTasks ==
    ASSUME TaskOK, NEW w \in Workers, NEW c \in Calls, RunTask(w, c) PROVE TaskOK'
<1>1. CASE StartTask(w, c)
  BY <1>1, TaskMoves DEF StartTask, TaskAt, Statuses
<1>2. CASE ReachCheckpoint(w, c)
  <2>1. task[w][c].at # "none"
    BY <1>2 DEF ReachCheckpoint, TaskAt
  <2>2. PICK there \in {"stopped", "waiting"} : TaskGoto(w, c, there)
    BY <1>2 DEF ReachCheckpoint
  <2> QED
    BY <2>1, <2>2, TaskMoves DEF Statuses
<1>3. CASE LeaveCheckpoint(w, c)
  <2>1. task[w][c].at # "none"
    BY <1>3 DEF LeaveCheckpoint, TaskAt
  <2>2. PICK there \in {"stopped", "error", "run", "ok"} : TaskGoto(w, c, there)
    BY <1>3 DEF LeaveCheckpoint
  <2> QED
    BY <2>1, <2>2, TaskMoves DEF Statuses
<1>4. CASE CommitCall(w, c)
  <2>1. task[w][c].at # "none"
    BY <1>4 DEF CommitCall, TaskAt
  <2>2. PICK there \in {"stopped", "committed", "ok"} : TaskGoto(w, c, there)
    BY <1>4 DEF CommitCall
  <2> QED
    BY <2>1, <2>2, TaskMoves DEF Statuses
<1> QED
  BY <1>1, <1>2, <1>3, <1>4 DEF RunTask

LEMMA TaskStep ==
    ASSUME Typed, [Next]_vars
    PROVE  TaskOK'
<1> USE DEF Typed
<1>0. UNCHANGED task => TaskOK'
  BY DEF TaskOK
<1>1. ASSUME NEW a \in Agents, RunHook(a) PROVE TaskOK'
  BY <1>0, <1>1, AfterHookTasks DEF RunHook, SkipHook, FireHook, HookEnds, HookError
<1>2. CASE Resume
  BY <1>2, NoTasksMoves DEF Resume, Spawn
<1>3. CASE Cancel \/ Close
  BY <1>3, NotifyTasks DEF Cancel, Close
<1>4. ASSUME NEW w \in Workers, PrepareCall(w) \/ Join(w) PROVE TaskOK'
  BY <1>0, <1>4, PrepareTasks, NoTasksMoves DEF Join
<1>5. ASSUME NEW w \in Workers, NEW c \in Calls, RunTask(w, c) PROVE TaskOK'
  BY <1>5, CallTasks
<1>6. ASSUME Die \/ Stop \/ \E w \in Workers, c \in Calls : DieInCommit(w, c) PROVE TaskOK'
  <2>1. task' = [w \in Workers |-> [c \in Calls |-> NoTask]]
    BY <1>6 DEF Die, Stop, DieInCommit, Gone
  <2> QED
    BY <2>1, NoTaskIsTask DEF TaskOK
<1>7. ASSUME NEW w \in Workers,
             \/ ReadPending(w) \/ RequestModel(w) \/ ModelFails(w) \/ ModelErrs(w)
             \/ ModelReplies(w) \/ Finish(w) \/ EndTurn(w) \/ TakeQueued(w)
             \/ WorkerFails(w)
      PROVE  UNCHANGED task
  BY <1>7 DEF ReadPending, RequestModel, ModelFails, ModelErrs, ModelReplies, Finish,
       EndTurn, TakeQueued, WorkerFails
<1>8. ASSUME \/ \E t \in Turns : Submit(t) \/ Queue(t)
             \/ Start \/ (\E c \in Calls : Release(c)) \/ UNCHANGED vars
      PROVE  UNCHANGED task
  BY <1>8 DEF Submit, Queue, Start, Release, vars
<1>9. ASSUME NEW w \in Workers, Work(w) PROVE TaskOK'
  BY <1>0, <1>4, <1>7, <1>9 DEF Work
<1> QED
  BY <1>0, <1>1, <1>2, <1>3, <1>5, <1>6, <1>8, <1>9 DEF Next, Request, Agents

-----------------------------------------------------------------------------
(* The journal, and what one more record changes in what is read back.     *)

Last == Len(journal) + 1

NewestExists(S) == S # {} => Newest(S) \in S /\ \A k \in S : k <= Newest(S)

LEMMA NewestIsLast ==
    ASSUME NEW S \in SUBSET Nat, NEW n \in Nat, \A k \in S : k < n
    PROVE  Newest(S \cup {n}) = n /\ NewestExists(S \cup {n})
<1>1. n \in S \cup {n} /\ \A l \in S \cup {n} : l <= n
  OBVIOUS
<1>2. Newest(S \cup {n}) \in S \cup {n} /\ \A l \in S \cup {n} : l <= Newest(S \cup {n})
  BY <1>1, Zenon DEF Newest
<1>3. n <= Newest(S \cup {n}) /\ Newest(S \cup {n}) <= n
  BY <1>1, <1>2
<1>4. \A k \in Nat : n <= k /\ k <= n => k = n
  OBVIOUS
<1>5. Newest(S \cup {n}) \in Nat
  BY <1>2
<1>6. Newest(S \cup {n}) = n
  BY <1>3, <1>4, <1>5
<1> QED
  BY <1>2, <1>6 DEF NewestExists

LEMMA LogMoves ==
    ASSUME StoreOK, NEW record \in Record, Log(record)
    PROVE  /\ StoreOK'
           /\ Len(journal) \in Nat /\ DOMAIN journal = 1 .. Len(journal)
           /\ DOMAIN journal' = DOMAIN journal \cup {Last}
           /\ \A k \in DOMAIN journal : journal[k] \in Record /\ journal'[k] = journal[k]
           /\ journal'[Last] = record
<1>1. journal' = Append(journal, record) /\ journal \in Seq(Record)
  BY DEF Log, StoreOK
<1>2. journal' \in Seq(Record)
  BY <1>1
<1>3. (garbled \/ torn) \in BOOLEAN
  BY DEF StoreOK
<1>4. StoreOK'
  BY <1>2, <1>3 DEF StoreOK, Log
<1> QED
  BY <1>1, <1>4 DEF Last

LEMMA RecordsGrow ==
    ASSUME StoreOK, NEW record \in Record, Log(record), NEW e
    PROVE  /\ Records(e)' = IF record.event = e THEN Records(e) \cup {Last} ELSE Records(e)
           /\ Recorded(e)' = IF record.event = e THEN Recorded(e) \cup {record.item}
                                                 ELSE Recorded(e)
<1>1. /\ DOMAIN journal' = DOMAIN journal \cup {Last}
      /\ \A k \in DOMAIN journal : journal'[k] = journal[k]
      /\ journal'[Last] = record
  BY LogMoves
<1>2. Records(e)' = {k \in DOMAIN journal' : journal'[k].event = e}
  BY DEF Records
<1>3. Records(e)' = IF record.event = e THEN Records(e) \cup {Last} ELSE Records(e)
  BY <1>1, <1>2 DEF Records
<1>4. Recorded(e)' = {journal'[k].item : k \in Records(e)'}
  BY DEF Recorded
<1>5. \A k \in Records(e) : journal'[k].item = journal[k].item
  BY <1>1 DEF Records
<1>6. Recorded(e)' = IF record.event = e THEN Recorded(e) \cup {record.item} ELSE Recorded(e)
  <2>1. CASE record.event = e
    <3>1. Records(e)' = Records(e) \cup {Last}
      BY <1>3, <2>1
    <3>2. {journal'[k].item : k \in Records(e) \cup {Last}} = Recorded(e) \cup {record.item}
      BY <1>1, <1>5 DEF Recorded
    <3> QED
      BY <1>4, <2>1, <3>1, <3>2
  <2>2. CASE record.event # e
    <3>1. {journal'[k].item : k \in Records(e)} = Recorded(e)
      BY <1>5 DEF Recorded
    <3> QED
      BY <1>3, <1>4, <2>2, <3>1
  <2> QED
    BY <2>1, <2>2
<1> QED
  BY <1>3, <1>6

LEMMA AcceptedGrow ==
    ASSUME StoreOK, NEW record \in Record, Log(record)
    PROVE  AcceptedTurns' = IF record.event = "accept" THEN AcceptedTurns \cup {record.turn}
                                                       ELSE AcceptedTurns
<1>1. /\ DOMAIN journal' = DOMAIN journal \cup {Last}
      /\ \A k \in DOMAIN journal : journal'[k] = journal[k]
      /\ journal'[Last] = record
  BY LogMoves
<1>2. Records("accept")' = IF record.event = "accept" THEN Records("accept") \cup {Last}
                                                     ELSE Records("accept")
  BY RecordsGrow
<1>3. AcceptedTurns' = {journal'[k].turn : k \in Records("accept")'}
  BY DEF AcceptedTurns
<1>4. \A k \in Records("accept") : journal'[k].turn = journal[k].turn
  BY <1>1 DEF Records
<1>5. CASE record.event = "accept"
  <2>1. {journal'[k].turn : k \in Records("accept") \cup {Last}}
          = AcceptedTurns \cup {record.turn}
    BY <1>1, <1>4 DEF AcceptedTurns
  <2> QED
    BY <1>2, <1>3, <1>5, <2>1
<1>6. CASE record.event # "accept"
  <2>1. {journal'[k].turn : k \in Records("accept")} = AcceptedTurns
    BY <1>4 DEF AcceptedTurns
  <2> QED
    BY <1>2, <1>3, <1>6, <2>1
<1> QED
  BY <1>5, <1>6

\* The newest mark exists: nothing but a new mark changes it.
MarksOK == NewestExists(Marks)

LEMMA MarksGrow ==
    ASSUME StoreOK, MarksOK, NEW record \in Record, Log(record)
    PROVE  /\ MarksOK'
           /\ TerminalSinceAccept' = (\/ record.event = "terminal"
                                      \/ record.event # "accept" /\ TerminalSinceAccept)
           /\ Pending' = IF record.event = "accept" THEN record.turn
                         ELSE IF record.event = "terminal" THEN NoTurn
                         ELSE Pending
<1>1. /\ Len(journal) \in Nat /\ DOMAIN journal = 1 .. Len(journal)
      /\ \A k \in DOMAIN journal : journal'[k] = journal[k]
      /\ journal'[Last] = record
  BY LogMoves
<1>2. Marks \subseteq DOMAIN journal
  BY DEF Marks, Records
<1>3. Records("accept")' = IF record.event = "accept" THEN Records("accept") \cup {Last}
                                                     ELSE Records("accept")
  BY RecordsGrow
<1>4. Records("terminal")' = IF record.event = "terminal"
                             THEN Records("terminal") \cup {Last} ELSE Records("terminal")
  BY RecordsGrow
<1>5. Marks' = Records("accept")' \cup Records("terminal")'
  BY DEF Marks
<1>6. CASE record.event \in {"accept", "terminal"}
  <2>1. Marks' = Marks \cup {Last}
    BY <1>3, <1>4, <1>5, <1>6 DEF Marks
  <2>2. Marks \in SUBSET Nat /\ Last \in Nat /\ \A k \in Marks : k < Last
    BY <1>1, <1>2 DEF Last
  <2>3. Newest(Marks \cup {Last}) = Last /\ NewestExists(Marks \cup {Last})
    BY <2>2, NewestIsLast
  <2>4. Newest(Marks') = Last /\ NewestExists(Marks') /\ Marks' # {}
    BY <2>1, <2>3
  <2>5. MarksOK'
    BY <2>4 DEF MarksOK, NewestExists, Newest
  <2>6. TerminalSinceAccept' = (Marks' # {} /\ journal'[Newest(Marks')].event = "terminal")
    BY DEF TerminalSinceAccept, Newest
  <2>7. Pending' = IF Marks' = {} \/ journal'[Newest(Marks')].event = "terminal" THEN NoTurn
                   ELSE journal'[Newest(Marks')].turn
    BY DEF Pending, Newest
  <2> QED
    BY <1>1, <1>6, <2>4, <2>5, <2>6, <2>7
<1>7. CASE record.event \notin {"accept", "terminal"}
  <2>1. Marks' = Marks
    BY <1>3, <1>4, <1>5, <1>7 DEF Marks
  <2>2. MarksOK'
    BY <2>1 DEF MarksOK, NewestExists, Newest
  <2>3. Marks # {} => journal'[Newest(Marks)] = journal[Newest(Marks)]
    BY <1>1, <1>2 DEF MarksOK, NewestExists
  <2>4. TerminalSinceAccept' = (Marks' # {} /\ journal'[Newest(Marks')].event = "terminal")
    BY DEF TerminalSinceAccept, Newest
  <2>5. Pending' = IF Marks' = {} \/ journal'[Newest(Marks')].event = "terminal" THEN NoTurn
                   ELSE journal'[Newest(Marks')].turn
    BY DEF Pending, Newest
  <2> QED
    BY <1>7, <2>1, <2>2, <2>3, <2>4, <2>5 DEF TerminalSinceAccept, Pending
<1> QED
  BY <1>6, <1>7

-----------------------------------------------------------------------------
(* What a step does to the index and to what it is an index of.            *)

\* The index is kept, apart from its terminal and what a close gives up.
Keeps ==
    /\ SessionOK'
    /\ session'.results = session.results /\ session'.hooks = session.hooks
    /\ session'.closed \/ (~session.closed /\ session'.keys = session.keys)
    /\ session'.pending \in {session.pending, NoTurn}

Quiet == UNCHANGED <<store, files, up>> /\ Keeps /\ session'.terminal = session.terminal

Ends ==
    /\ UNCHANGED <<files, up>> /\ Keeps /\ session'.terminal = TRUE
    /\ \E t \in SomeTurn, how \in {"success", "failure", "cancelled"} : LogTerminal(t, how)

Accepts ==
    /\ UNCHANGED <<files, up>>
    /\ ~session.closed /\ \E a \in Agents, t \in Turns : AcceptIn(a, t)

Responds ==
    /\ UNCHANGED <<files, up, session>>
    /\ \E t \in Turns : Log(Event("response", t, NoCall))

Hooked ==
    /\ UNCHANGED <<files, up>>
    /\ \E t \in Turns, h \in Hooks :
         /\ Log(Event("hook", t, h))
         /\ session' = [session EXCEPT !.hooks = @ \cup {h}]

Commits ==
    /\ UNCHANGED up
    /\ \E t \in Turns, c \in Calls :
         /\ Log(Event("result", t, c))
         /\ session' = [session EXCEPT !.results = @ \cup {c}]
         /\ files' = [files EXCEPT ![PathOf[c]] = c]

Dies ==
    /\ Gone /\ UNCHANGED files
    /\ \/ UNCHANGED <<journal, garbled>> /\ torn' \in BOOLEAN
       \/ \E record \in Record : Log(record)

\* No turn is accepted, and the daemon lives on.
Calm == Quiet \/ Ends \/ Responds \/ Hooked \/ Commits

Moves == Calm \/ Accepts \/ Dies \/ Start

LEMMA EventsAreRecords ==
    /\ \A t \in Turns : Event("accept", t, NoCall) \in Record
    /\ \A t \in Turns : Event("response", t, NoCall) \in Record
    /\ \A t \in Turns, c \in Calls : Event("result", t, c) \in Record
    /\ \A t \in Turns, h \in Hooks : Event("hook", t, h) \in Record
    /\ \A t \in SomeTurn, how \in {"success", "failure", "cancelled"} :
         Event("terminal", t, how) \in Record
  BY DEF Event, Record

LEMMA KeepsAll ==
    ASSUME SessionOK, UNCHANGED session PROVE Keeps
  BY DEF SessionOK, Sessions, Keeps

LEMMA KeepsTerminal ==
    ASSUME SessionOK, session' = [session EXCEPT !.terminal = TRUE]
    PROVE  Keeps /\ session'.terminal = TRUE
  BY DEF SessionOK, Sessions, Keeps

LEMMA HookMoves ==
    ASSUME Typed, NEW a \in Agents, RunHook(a) PROVE Calm
<1> USE DEF Typed
<1>1. CASE SkipHook(a) \/ FireHook(a)
  BY <1>1, KeepsAll DEF SkipHook, FireHook, Calm, Quiet, store, disk, daemon
<1>2. CASE HookEnds(a)
  <2>1. UNCHANGED <<files, up>>
    BY <1>2 DEF HookEnds, disk, daemon
  <2>2. CASE UNCHANGED <<store, session>>
    BY <2>1, <2>2, KeepsAll DEF Calm, Quiet
  <2>3. CASE /\ Log(Event("hook", fiber[a].turn, ThisHook(a)))
             /\ session' = [session EXCEPT !.hooks = @ \cup {ThisHook(a)}]
    <3>1. fiber[a] \in Fibers /\ fiber[a].at = "fired"
      BY <1>2 DEF HookEnds, At, FiberOK
    <3>2. fiber[a].turn \in Turns /\ ThisHook(a) \in Hooks
      BY <3>1 DEF Fibers, ThisHook, Hooks
    <3> QED
      BY <2>1, <2>3, <3>2 DEF Calm, Hooked
  <2> QED
    BY <1>2, <2>2, <2>3 DEF HookEnds
<1> QED
  BY <1>1, <1>2 DEF RunHook

LEMMA RequestMoves ==
    ASSUME Typed, Request PROVE Calm \/ (Accepts /\ \E t \in Turns : Submit(t))
<1> USE DEF Typed
<1>1. ASSUME NEW t \in Turns, Submit(t) PROVE Accepts
  BY <1>1 DEF Submit, disk, daemon, Accepts, Agents
<1>2. ASSUME NEW t \in Turns, Queue(t) PROVE Calm
  <2>1. session' = [session EXCEPT !.queued = Append(@, t)] /\ UNCHANGED <<store, files, up>>
    BY <1>2 DEF Queue, disk, daemon
  <2>2. Append(session.queued, t) \in Seq(Turns)
    BY DEF SessionOK, Sessions
  <2>3. Keeps /\ session'.terminal = session.terminal
    BY <2>1, <2>2 DEF SessionOK, Sessions, Keeps
  <2> QED
    BY <2>1, <2>3 DEF Calm, Quiet
<1>3. CASE Resume
  <2>1. /\ session' = [session EXCEPT !.active = TRUE, !.cancelled = FALSE]
        /\ session.pending # NoTurn /\ UNCHANGED <<store, files, up>>
    BY <1>3 DEF Resume, disk, daemon
  <2>2. Keeps /\ session'.terminal = session.terminal
    BY <2>1 DEF SessionOK, Sessions, Keeps
  <2> QED
    BY <2>1, <2>2 DEF Calm, Quiet
<1>4. Halted \in Sessions /\ ~Halted.active /\ Halted.pending = NoTurn
  <2>1. session \in Sessions
    BY DEF SessionOK
  <2>2. <<>> \in Seq(Turns) /\ NoTurn \in SomeTurn
    BY DEF SomeTurn
  <2> QED
    BY <2>1, <2>2 DEF Halted, Sessions
<1>5. CASE Cancel
  <2>1. session' = [Halted EXCEPT !.terminal = TRUE] /\ UNCHANGED <<files, up>>
    BY <1>5 DEF Cancel, disk, daemon
  <2>2. LogTerminal(NoTurn, "cancelled") /\ NoTurn \in SomeTurn
    BY <1>5 DEF Cancel, SomeTurn
  <2>3. Keeps /\ session'.terminal = TRUE
    BY <1>4, <2>1 DEF Halted, SessionOK, Sessions, Keeps
  <2> QED
    BY <2>1, <2>2, <2>3 DEF Calm, Ends
<1>6. CASE Close
  <2>1. session' = [Halted EXCEPT !.closed = TRUE, !.keys = {}] /\ UNCHANGED <<store, files, up>>
    BY <1>6 DEF Close, disk, daemon
  <2>2. Keeps /\ session'.terminal = session.terminal
    BY <1>4, <2>1 DEF Halted, SessionOK, Sessions, Keeps
  <2> QED
    BY <2>1, <2>2 DEF Calm, Quiet
<1>7. ASSUME NEW c \in Calls, Release(c) PROVE Calm
  BY <1>7, KeepsAll DEF Release, daemon, Calm, Quiet
<1> QED
  BY <1>1, <1>2, <1>3, <1>5, <1>6, <1>7 DEF Request

LEMMA LoggedTerminal ==
    ASSUME Typed, NEW t \in SomeTurn, NEW how \in {"success", "failure", "cancelled"},
           LogTerminal(t, how), session' = [session EXCEPT !.terminal = TRUE],
           UNCHANGED <<files, up>>
    PROVE  Ends
  BY KeepsTerminal DEF Typed, Ends

LEMMA WorkMoves ==
    ASSUME Typed, NEW w \in Workers, Work(w)
    PROVE  Calm \/ (Accepts /\ TakeQueued(w))
<1> USE DEF Typed
<1>0. w \in Agents /\ fiber[w] \in Fibers
  BY DEF FiberOK, Agents
<1>1. CASE ReadPending(w) \/ ModelErrs(w) \/ PrepareCall(w) \/ Join(w)
  BY <1>1, KeepsAll DEF ReadPending, ModelErrs, PrepareCall, Join, Calm, Quiet, disk, daemon
<1>2. fiber[w].at \notin {"idle", "read"} => Turn(w) \in SomeTurn /\ Turn(w) \in Turns
  BY <1>0 DEF Fibers, Turn, SomeTurn
<1>3. CASE RequestModel(w)
  <2>1. UNCHANGED <<files, up>> /\ fiber[w].at = "top"
    BY <1>3 DEF RequestModel, disk, daemon, At
  <2>2. CASE UNCHANGED <<store, session>>
    BY <2>1, <2>2, KeepsAll DEF Calm, Quiet
  <2>3. CASE /\ LogTerminal(Turn(w), "failure")
             /\ session' = [session EXCEPT !.terminal = TRUE]
    BY <1>2, <2>1, <2>3, LoggedTerminal DEF Calm
  <2> QED
    BY <1>3, <2>2, <2>3 DEF RequestModel
<1>4. CASE ModelFails(w) \/ Finish(w)
  <2>1. UNCHANGED <<files, up>> /\ fiber[w].at \notin {"idle", "read"}
    BY <1>4 DEF ModelFails, Finish, disk, daemon, At
  <2>2. PICK how \in {"success", "failure"} : LogTerminal(Turn(w), how)
    BY <1>4 DEF ModelFails, Finish
  <2>3. session' = [session EXCEPT !.terminal = TRUE]
    BY <1>4 DEF ModelFails, Finish
  <2> QED
    BY <1>2, <2>1, <2>2, <2>3, LoggedTerminal DEF Calm
<1>5. CASE ModelReplies(w)
  <2>1. UNCHANGED <<files, up, session>> /\ fiber[w].at = "post"
    BY <1>5 DEF ModelReplies, disk, daemon, At
  <2>2. CASE UNCHANGED store
    BY <2>1, <2>2, KeepsAll DEF Calm, Quiet
  <2>3. CASE Log(Event("response", Turn(w), NoCall))
    BY <1>2, <2>1, <2>3 DEF Calm, Responds
  <2> QED
    BY <1>5, <2>2, <2>3 DEF ModelReplies
<1>6. CASE EndTurn(w)
  <2>1. PICK q \in {session.queued, Tail(session.queued)} :
          /\ session' = [session EXCEPT !.pending = NoTurn, !.active = FALSE, !.queued = q]
          /\ session.queued = <<>> => q = session.queued
    BY <1>6 DEF EndTurn
  <2>2. q \in Seq(Turns)
    BY <2>1 DEF SessionOK, Sessions
  <2>3. Keeps /\ session'.terminal = session.terminal
    BY <2>1, <2>2 DEF SessionOK, Sessions, Keeps, SomeTurn
  <2> QED
    BY <1>6, <2>3 DEF EndTurn, disk, daemon, Calm, Quiet
<1>7. CASE TakeQueued(w)
  <2>1. UNCHANGED <<files, up>> /\ fiber[w].next \in Turns
    BY <1>0, <1>7 DEF TakeQueued, disk, daemon, At, Fibers
  <2>2. CASE UNCHANGED <<store, session>>
    BY <2>1, <2>2, KeepsAll DEF Calm, Quiet
  <2>3. CASE ~session.closed /\ AcceptIn(w, fiber[w].next)
    BY <1>0, <1>7, <2>1, <2>3 DEF Accepts
  <2> QED
    BY <1>7, <2>2, <2>3 DEF TakeQueued
<1>8. CASE WorkerFails(w)
  <2>1. /\ UNCHANGED <<files, up>> /\ Turn(w) \in SomeTurn /\ LogTerminal(Turn(w), "failure")
        /\ session' = [session EXCEPT !.terminal = TRUE, !.active = FALSE]
    BY <1>2, <1>8 DEF WorkerFails, disk, daemon, At
  <2>2. Keeps /\ session'.terminal = TRUE
    BY <2>1 DEF SessionOK, Sessions, Keeps
  <2> QED
    BY <2>1, <2>2 DEF Calm, Ends
<1> QED
  BY <1>1, <1>3, <1>4, <1>5, <1>6, <1>7, <1>8 DEF Work

LEMMA CommitIsTyped ==
    ASSUME Typed, NEW w \in Workers, NEW c \in Calls, TaskAt(w, c, "run")
    PROVE  task[w][c].turn \in Turns
  BY DEF Typed, TaskOK, Tasks, TaskAt

LEMMA TaskStepMoves ==
    ASSUME Typed, NEW w \in Workers, NEW c \in Calls, RunTask(w, c) PROVE Calm
<1> USE DEF Typed
<1>1. CASE StartTask(w, c) \/ ReachCheckpoint(w, c) \/ LeaveCheckpoint(w, c)
  BY <1>1, KeepsAll DEF StartTask, ReachCheckpoint, LeaveCheckpoint, Calm, Quiet, disk, daemon
<1>2. CASE CommitCall(w, c)
  <2>1. UNCHANGED up /\ task[w][c].turn \in Turns
    BY <1>2, CommitIsTyped DEF CommitCall, daemon
  <2>2. CASE UNCHANGED <<store, session, files>>
    BY <2>1, <2>2, KeepsAll DEF Calm, Quiet
  <2>3. CASE /\ Log(Event("result", task[w][c].turn, c))
             /\ session' = [session EXCEPT !.results = @ \cup {c}]
             /\ files' = [files EXCEPT ![PathOf[c]] = c]
    BY <2>1, <2>3 DEF Calm, Commits
  <2> QED
    BY <1>2, <2>2, <2>3 DEF CommitCall
<1> QED
  BY <1>1, <1>2 DEF RunTask

LEMMA DeathMoves ==
    ASSUME Typed, Die \/ Stop \/ \E w \in Workers, c \in Calls : DieInCommit(w, c)
    PROVE  Dies
<1> USE DEF Typed
<1>1. CASE Die
  BY <1>1 DEF Die, Dies, disk, StoreOK
<1>2. CASE Stop
  <2>1. Gone /\ UNCHANGED files
    BY <1>2 DEF Stop, disk
  <2>2. CASE UNCHANGED store
    BY <2>1, <2>2 DEF Dies, StoreOK, store
  <2>3. CASE Log(Event("terminal", NoTurn, "cancelled"))
    BY <2>1, <2>3, EventsAreRecords DEF Dies, SomeTurn
  <2> QED
    BY <1>2, <2>2, <2>3 DEF Stop, LogTerminal
<1>3. ASSUME NEW w \in Workers, NEW c \in Calls, DieInCommit(w, c) PROVE Dies
  <2>1. task[w][c].turn \in Turns
    BY <1>3, CommitIsTyped DEF DieInCommit
  <2> QED
    BY <1>3, <2>1, EventsAreRecords DEF DieInCommit, Dies, disk
<1> QED
  BY <1>1, <1>2, <1>3

LEMMA StepMoves ==
    ASSUME Typed, [Next]_vars PROVE Moves
<1>1. CASE UNCHANGED vars
  BY <1>1, KeepsAll DEF vars, disk, daemon, Typed, Moves, Calm, Quiet
<1>2. CASE Start
  BY <1>2 DEF Moves, Calm
<1>3. CASE Next /\ ~Start
  BY <1>3, RequestMoves, HookMoves, WorkMoves, TaskStepMoves, DeathMoves
     DEF Next, Agents, Moves
<1> QED
  BY <1>1, <1>2, <1>3

-----------------------------------------------------------------------------
(* Types.                                                                  *)

\* The newest mark and the newest write to a path exist: nothing but a newer
\* one changes them.
WritesOK == \A p \in Paths : NewestExists(WritesTo(p))

LEMMA JournalStep ==
    ASSUME Typed, [Next]_vars
    PROVE  \/ UNCHANGED <<journal, garbled>> /\ torn' \in BOOLEAN
           \/ \E record \in Record : Log(record)
<1> USE DEF Typed
<1>0. Moves
  BY StepMoves
<1>1. UNCHANGED store => UNCHANGED <<journal, garbled>> /\ torn' \in BOOLEAN
  BY DEF StoreOK, store
<1>2. CASE Ends
  <2>1. PICK t \in SomeTurn, how \in {"success", "failure", "cancelled"} : LogTerminal(t, how)
    BY <1>2 DEF Ends
  <2> QED
    BY <1>1, <2>1, EventsAreRecords DEF LogTerminal
<1>3. CASE Accepts \/ Responds \/ Hooked \/ Commits
  BY <1>3, EventsAreRecords DEF Accepts, AcceptIn, Responds, Hooked, Commits
<1> QED
  BY <1>0, <1>1, <1>2, <1>3 DEF Moves, Calm, Quiet, Start, Dies

LEMMA StoreStep ==
    ASSUME Typed, [Next]_vars PROVE StoreOK'
  BY JournalStep, LogMoves DEF Typed, StoreOK

LEMMA RecoveredIsSession ==
    ASSUME StoreOK, MarksOK PROVE Recovered \in Sessions /\ ~Recovered.active
<1>1. \A k \in DOMAIN journal : journal[k] \in Record
  BY DEF StoreOK
<1>2. Recorded("result") \subseteq Calls /\ Recorded("hook") \subseteq Hooks
  BY <1>1 DEF Recorded, Records, Record
<1>3. AcceptedTurns \subseteq Turns
  BY <1>1 DEF AcceptedTurns, Records, Record
<1>4. Marks # {} => Newest(Marks) \in Marks
  BY DEF MarksOK, NewestExists
<1>5. Pending \in SomeTurn
  BY <1>1, <1>4 DEF Pending, Marks, Records, Record, SomeTurn
<1>6. TerminalSinceAccept \in BOOLEAN
  BY DEF TerminalSinceAccept
<1>7. <<>> \in Seq(Turns)
  OBVIOUS
<1> QED
  BY <1>2, <1>3, <1>5, <1>6, <1>7 DEF Recovered, Fresh, Sessions

LEMMA FreshIsSession == Fresh \in Sessions /\ ~Fresh.active
<1>1. <<>> \in Seq(Turns) /\ NoTurn \in SomeTurn
  BY DEF SomeTurn
<1> QED
  BY <1>1 DEF Fresh, Sessions

LEMMA SessionStep ==
    ASSUME Typed, MarksOK, [Next]_vars PROVE SessionOK'
<1> USE DEF Typed
<1>0. Moves
  BY StepMoves
<1>1. CASE Quiet \/ Ends
  BY <1>1 DEF Quiet, Ends, Keeps
<1>2. CASE Accepts
  <2>1. PICK t \in Turns :
          session' = [session EXCEPT !.keys = @ \cup {t}, !.pending = t, !.active = TRUE,
                                     !.cancelled = FALSE, !.terminal = FALSE]
    BY <1>2 DEF Accepts, AcceptIn
  <2>2. t # NoTurn
    BY HarnessAssumption
  <2> QED
    BY <2>1, <2>2 DEF SessionOK, Sessions, SomeTurn
<1>3. CASE Responds
  BY <1>3 DEF Responds, SessionOK
<1>4. CASE Hooked \/ Commits
  BY <1>4 DEF Hooked, Commits, SessionOK, Sessions
<1>5. CASE Dies
  BY <1>5, FreshIsSession DEF Dies, Gone, SessionOK
<1>6. CASE Start
  BY <1>6, RecoveredIsSession DEF Start, SessionOK
<1> QED
  BY <1>0, <1>1, <1>2, <1>3, <1>4, <1>5, <1>6 DEF Moves, Calm

LEMMA ReconciledIsTyped ==
    ASSUME StoreOK, DiskOK, WritesOK PROVE Reconciled \in [Paths -> Calls \cup {NoCall}]
<1>1. \A k \in DOMAIN journal : journal[k] \in Record
  BY DEF StoreOK
<1>2. \A p \in Paths : WritesTo(p) # {} => Newest(WritesTo(p)) \in Records("result")
  BY DEF WritesOK, NewestExists, WritesTo
<1>3. \A k \in Records("result") : journal[k].item \in Calls
  BY <1>1 DEF Records, Record
<1> QED
  BY <1>2, <1>3 DEF Reconciled, DiskOK

\* Only the daemon's program runs hooks, and only checkpoints release.
LEMMA HooksAndTokensStep ==
    ASSUME Typed, [Next]_vars
    PROVE  /\ \/ UNCHANGED <<claims, fired>>
              \/ \E h \in Hooks : /\ h \notin claims /\ claims' = claims \cup {h}
                                  /\ fired' = [fired EXCEPT ![h] = @ + 1]
           /\ reached' \subseteq Calls /\ tokens' \subseteq reached'
<1> USE DEF Typed
<1>1. ASSUME NEW a \in Agents, FireHook(a)
      PROVE  /\ UNCHANGED <<reached, tokens>>
             /\ \/ UNCHANGED <<claims, fired>>
                \/ \E h \in Hooks : /\ h \notin claims /\ claims' = claims \cup {h}
                                    /\ fired' = [fired EXCEPT ![h] = @ + 1]
  <2>1. fiber[a] \in Fibers /\ fiber[a].at = "hook" /\ fiber[a].hook \in HookKinds
    BY <1>1 DEF FireHook, At, FiberOK
  <2>2. ThisHook(a) \in Hooks
    BY <2>1 DEF Fibers, ThisHook, Hooks
  <2> QED
    BY <1>1, <2>2 DEF FireHook
<1>2. ASSUME \E c \in Calls : Release(c) \/ \E w \in Workers : ReachCheckpoint(w, c)
      PROVE  UNCHANGED <<claims, fired>> /\ reached' \subseteq Calls /\ tokens' \subseteq reached'
  BY <1>2 DEF Release, ReachCheckpoint, DiskOK
<1>3. ASSUME \/ \E t \in Turns : Submit(t) \/ Queue(t)
             \/ Resume \/ Cancel \/ Close
             \/ (\E a \in Agents : SkipHook(a) \/ HookEnds(a))
             \/ Die \/ Stop \/ Start \/ UNCHANGED vars
             \/ (\E w \in Workers, c \in Calls : DieInCommit(w, c))
      PROVE  UNCHANGED <<claims, fired, reached, tokens>>
  BY <1>3 DEF Submit, Queue, Resume, Cancel, Close, SkipHook, HookEnds, Die, Stop, Start,
       DieInCommit, disk, vars
<1>4. ASSUME NEW w \in Workers, Work(w) PROVE UNCHANGED <<claims, fired, reached, tokens>>
  BY <1>4 DEF Work, ReadPending, RequestModel, ModelFails, ModelErrs, ModelReplies, Finish,
       PrepareCall, Join, EndTurn, TakeQueued, WorkerFails, disk
<1>5. ASSUME NEW w \in Workers, NEW c \in Calls,
             StartTask(w, c) \/ LeaveCheckpoint(w, c) \/ CommitCall(w, c)
      PROVE  UNCHANGED <<claims, fired, reached, tokens>>
  BY <1>5 DEF StartTask, LeaveCheckpoint, CommitCall, disk
<1>6. UNCHANGED <<reached, tokens>> => reached' \subseteq Calls /\ tokens' \subseteq reached'
  BY DEF DiskOK
<1> QED
  BY <1>1, <1>2, <1>3, <1>4, <1>5, <1>6 DEF Next, Request, RunHook, RunTask, Agents

LEMMA DiskStep ==
    ASSUME Typed, WritesOK, [Next]_vars PROVE DiskOK'
<1> USE DEF Typed
<1>0. Moves
  BY StepMoves
<1>1. files' \in [Paths -> Calls \cup {NoCall}]
  <2>1. UNCHANGED files => files' \in [Paths -> Calls \cup {NoCall}]
    BY DEF DiskOK
  <2>2. Commits => files' \in [Paths -> Calls \cup {NoCall}]
    BY DEF Commits, DiskOK
  <2>3. Start => files' \in [Paths -> Calls \cup {NoCall}]
    BY ReconciledIsTyped DEF Start
  <2> QED
    BY <1>0, <2>1, <2>2, <2>3 DEF Moves, Calm, Quiet, Ends, Accepts, Responds, Hooked, Dies
<1>2. claims' \subseteq Hooks /\ fired' \in [Hooks -> Nat]
  <2>1. CASE UNCHANGED <<claims, fired>>
    BY <2>1 DEF DiskOK
  <2>2. ASSUME NEW h \in Hooks, claims' = claims \cup {h}, fired' = [fired EXCEPT ![h] = @ + 1]
        PROVE  claims' \subseteq Hooks /\ fired' \in [Hooks -> Nat]
    <3>1. claims \subseteq Hooks /\ fired \in [Hooks -> Nat] /\ fired[h] + 1 \in Nat
      BY DEF DiskOK
    <3> QED
      BY <2>2, <3>1
  <2> QED
    BY <2>1, <2>2, HooksAndTokensStep
<1> QED
  BY <1>1, <1>2, HooksAndTokensStep DEF DiskOK

LEMMA DaemonStep ==
    ASSUME Typed, [Next]_vars PROVE DaemonOK'
<1> USE DEF Typed
<1>1. Start => DaemonOK'
  BY DEF Start, DaemonOK
<1>2. UNCHANGED starts \/ Start
  <2>1. Request \/ UNCHANGED vars => UNCHANGED starts
    BY DEF Request, Submit, Queue, Resume, Cancel, Close, Release, daemon, vars
  <2>2. \A a \in Agents : RunHook(a) => UNCHANGED starts
    BY DEF RunHook, SkipHook, FireHook, HookEnds, daemon
  <2>3. \A w \in Workers : Work(w) => UNCHANGED starts
    <3> SUFFICES ASSUME NEW w \in Workers, Work(w) PROVE UNCHANGED daemon
      BY DEF daemon
    <3>1. ReadPending(w) \/ RequestModel(w) \/ ModelFails(w) \/ ModelErrs(w) \/ ModelReplies(w)
            => UNCHANGED daemon
      BY DEF ReadPending, RequestModel, ModelFails, ModelErrs, ModelReplies
    <3>2. Finish(w) \/ PrepareCall(w) \/ Join(w) => UNCHANGED daemon
      BY DEF Finish, PrepareCall, Join
    <3>3. EndTurn(w) \/ TakeQueued(w) \/ WorkerFails(w) => UNCHANGED daemon
      BY DEF EndTurn, TakeQueued, WorkerFails
    <3> QED
      BY <3>1, <3>2, <3>3 DEF Work
  <2>4. \A w \in Workers, c \in Calls : RunTask(w, c) \/ DieInCommit(w, c) => UNCHANGED starts
    BY DEF RunTask, StartTask, ReachCheckpoint, LeaveCheckpoint, CommitCall, DieInCommit, daemon
  <2>5. Die \/ Stop => UNCHANGED starts
    BY DEF Die, Stop
  <2> QED
    BY <2>1, <2>2, <2>3, <2>4, <2>5 DEF Next, Agents
<1>3. up' \in BOOLEAN
  BY StepMoves DEF Moves, Calm, Quiet, Ends, Accepts, Responds, Hooked, Commits, Dies, Gone, Start,
     DaemonOK
<1> QED
  BY <1>1, <1>2, <1>3 DEF DaemonOK

LEMMA WritesGrow ==
    ASSUME StoreOK, NEW record \in Record, Log(record), NEW p
    PROVE  /\ WritesTo(p)' = IF record.event = "result" /\ PathOf[record.item] = p
                             THEN WritesTo(p) \cup {Last} ELSE WritesTo(p)
           /\ NewestExists(WritesTo(p)) => NewestExists(WritesTo(p)')
           /\ record.event = "result" /\ PathOf[record.item] = p
                => Newest(WritesTo(p)') = Last /\ WritesTo(p)' # {}
<1>1. /\ Len(journal) \in Nat /\ DOMAIN journal = 1 .. Len(journal)
      /\ \A k \in DOMAIN journal : journal'[k] = journal[k]
      /\ journal'[Last] = record
  BY LogMoves
<1>2. Records("result")' = IF record.event = "result" THEN Records("result") \cup {Last}
                                                     ELSE Records("result")
  BY RecordsGrow
<1>3. WritesTo(p)' = {k \in Records("result")' : PathOf[journal'[k].item] = p}
  BY DEF WritesTo
<1>4. \A k \in Records("result") : journal'[k].item = journal[k].item
  BY <1>1 DEF Records
<1>5. WritesTo(p)' = IF record.event = "result" /\ PathOf[record.item] = p
                     THEN WritesTo(p) \cup {Last} ELSE WritesTo(p)
  <2>1. CASE record.event = "result"
    BY <1>1, <1>2, <1>3, <1>4, <2>1 DEF WritesTo
  <2>2. CASE record.event # "result"
    BY <1>2, <1>3, <1>4, <2>2 DEF WritesTo
  <2> QED
    BY <2>1, <2>2
<1>6. WritesTo(p) \in SUBSET Nat /\ Last \in Nat /\ \A k \in WritesTo(p) : k < Last
  BY <1>1 DEF WritesTo, Records, Last
<1>7. Newest(WritesTo(p) \cup {Last}) = Last /\ NewestExists(WritesTo(p) \cup {Last})
  BY <1>6, NewestIsLast
<1> QED
  BY <1>5, <1>7

LEMMA UnchangedJournal ==
    ASSUME UNCHANGED journal
    PROVE  /\ MarksOK => MarksOK'
           /\ WritesOK => WritesOK'
           /\ \A e : Records(e)' = Records(e) /\ Recorded(e)' = Recorded(e)
           /\ AcceptedTurns' = AcceptedTurns /\ Pending' = Pending
           /\ TerminalSinceAccept' = TerminalSinceAccept
           /\ \A p : WritesTo(p)' = WritesTo(p)
  BY DEF MarksOK, WritesOK, NewestExists, Newest, Marks, WritesTo, Records, Recorded,
     AcceptedTurns, Pending, TerminalSinceAccept

LEMMA NewestStep ==
    ASSUME Typed, MarksOK, WritesOK, [Next]_vars PROVE MarksOK' /\ WritesOK'
<1>1. CASE UNCHANGED journal
  BY <1>1, UnchangedJournal
<1>2. ASSUME NEW record \in Record, Log(record) PROVE MarksOK' /\ WritesOK'
  <2>1. MarksOK'
    BY <1>2, MarksGrow DEF Typed
  <2>2. \A p \in Paths : NewestExists(WritesTo(p)')
    BY <1>2, WritesGrow DEF Typed, WritesOK
  <2>3. WritesOK'
    BY <2>2 DEF WritesOK, NewestExists, Newest
  <2> QED
    BY <2>1, <2>3
<1> QED
  BY <1>1, <1>2, JournalStep

TInv == Typed /\ MarksOK /\ WritesOK

LEMMA TypedInit == Init => TInv
<1> SUFFICES ASSUME Init PROVE TInv
  OBVIOUS
<1>1. journal = <<>> /\ journal \in Seq(Record) /\ 1 \in Nat /\ 0 \in Nat
  BY DEF Init
<1>2. StoreOK /\ DaemonOK
  BY <1>1 DEF Init, StoreOK, DaemonOK
<1>3. DiskOK
  BY <1>1 DEF Init, DiskOK
<1>4. SessionOK
  BY FreshIsSession DEF Init, SessionOK
<1>5. FiberOK
  BY IdleIsFiber DEF Init, FiberOK, Agents
<1>6. TaskOK
  BY NoTaskIsTask DEF Init, TaskOK
<1>7. \A e : Records(e) = {}
  BY <1>1 DEF Records
<1>8. MarksOK /\ WritesOK
  BY <1>7 DEF MarksOK, WritesOK, NewestExists, Marks, WritesTo
<1> QED
  BY <1>2, <1>3, <1>4, <1>5, <1>6, <1>8 DEF TInv, Typed

LEMMA TypedStep == TInv /\ [Next]_vars => TInv'
<1> SUFFICES ASSUME TInv, [Next]_vars PROVE TInv'
  OBVIOUS
<1>1. Typed /\ MarksOK /\ WritesOK
  BY DEF TInv
<1>2. StoreOK' /\ DaemonOK' /\ FiberOK' /\ TaskOK'
  BY <1>1, StoreStep, DaemonStep, FiberStep, TaskStep
<1>3. SessionOK' /\ DiskOK'
  BY <1>1, SessionStep, DiskStep
<1>4. MarksOK' /\ WritesOK'
  BY <1>1, NewestStep
<1> QED
  BY <1>2, <1>3, <1>4 DEF TInv, Typed

LEMMA Always == Spec => []TInv
<1>1. Init => TInv
  BY TypedInit
<1>2. TInv /\ [Next]_vars => TInv'
  BY TypedStep
<1> QED
  BY <1>1, <1>2, PTL DEF Spec

(* Every variable of the daemon, its disk and its workers keeps its type:  *)
(* in particular the records that are appended are the journal's events.   *)
THEOREM TypeCorrect == Spec => []TypeOK
<1>1. TInv => TypeOK
  BY TypedIsTyped DEF TInv
<1> QED
  BY <1>1, Always, PTL

-----------------------------------------------------------------------------
(* Hooks.                                                                  *)

\* A hook's program has been run once if it is claimed, and never if not.
ClaimsCount == \A h \in Hooks : fired[h] = IF h \in claims THEN 1 ELSE 0

(* The claim file is created before the program is run and is never        *)
(* removed: for any number of deaths and starts a hook's program runs at   *)
(* most once for a turn.                                                   *)
THEOREM HooksFireOnce == Spec => []HookFiresOnce
<1>1. Init => ClaimsCount
  BY DEF Init, ClaimsCount
<1>2. TInv /\ ClaimsCount /\ [Next]_vars => ClaimsCount'
  <2> SUFFICES ASSUME TInv, ClaimsCount, [Next]_vars PROVE ClaimsCount'
    OBVIOUS
  <2>1. Typed /\ fired \in [Hooks -> Nat]
    BY DEF TInv, Typed, DiskOK
  <2>2. CASE UNCHANGED <<claims, fired>>
    BY <2>2 DEF ClaimsCount
  <2>3. ASSUME NEW h \in Hooks, h \notin claims, claims' = claims \cup {h},
               fired' = [fired EXCEPT ![h] = @ + 1]
        PROVE  ClaimsCount'
    BY <2>1, <2>3 DEF ClaimsCount
  <2> QED
    BY <2>1, <2>2, <2>3, HooksAndTokensStep
<1>3. ClaimsCount => HookFiresOnce
  BY DEF ClaimsCount, HookFiresOnce
<1> QED
  BY <1>1, <1>2, <1>3, Always, PTL DEF Spec

-----------------------------------------------------------------------------
(* The index and the journal.                                              *)

\* IndexMatchesJournal, with the pending turn of a session that is at rest.
IndexOK ==
    /\ session.results = Recorded("result")
    /\ session.hooks = Recorded("hook")
    /\ session.closed \/ session.keys = AcceptedTurns
    /\ session.terminal = TerminalSinceAccept
    /\ session.pending # NoTurn => session.pending = Pending \/ session.terminal

LEMMA IndexIsKept ==
    ASSUME TInv, IndexOK, UNCHANGED journal, Keeps, session'.terminal = session.terminal
    PROVE  IndexOK'
  BY UnchangedJournal DEF Keeps, IndexOK

LEMMA IndexEnds ==
    ASSUME TInv, IndexOK, Ends PROVE IndexOK'
<1>1. Keeps /\ session'.terminal = TRUE
  BY DEF Ends
<1>2. PICK t \in SomeTurn, how \in {"success", "failure", "cancelled"} : LogTerminal(t, how)
  BY DEF Ends
<1>3. CASE session.terminal
  <2>1. UNCHANGED journal
    BY <1>2, <1>3 DEF LogTerminal, store
  <2>2. session.terminal = TRUE
    BY <1>3 DEF TInv, Typed, SessionOK, Sessions
  <2> QED
    BY <1>1, <2>1, <2>2, IndexIsKept
<1>4. CASE ~session.terminal
  <2> DEFINE record == Event("terminal", t, how)
  <2>1. record \in Record /\ Log(record) /\ record.event = "terminal"
    BY <1>2, <1>4, EventsAreRecords DEF LogTerminal, Event
  <2> HIDE DEF record
  <2>2. Recorded("result")' = Recorded("result") /\ Recorded("hook")' = Recorded("hook")
    BY <2>1, RecordsGrow DEF TInv, Typed
  <2>3. AcceptedTurns' = AcceptedTurns
    BY <2>1, AcceptedGrow DEF TInv, Typed
  <2>4. TerminalSinceAccept' = TRUE
    BY <2>1, MarksGrow DEF TInv, Typed
  <2> QED
    BY <1>1, <2>2, <2>3, <2>4 DEF Keeps, IndexOK
<1> QED
  BY <1>3, <1>4

LEMMA IndexAccepts ==
    ASSUME TInv, IndexOK, Accepts PROVE IndexOK'
<1>1. PICK t \in Turns :
        /\ Log(Event("accept", t, NoCall))
        /\ session' = [session EXCEPT !.keys = @ \cup {t}, !.pending = t, !.active = TRUE,
                                      !.cancelled = FALSE, !.terminal = FALSE]
  BY DEF Accepts, AcceptIn
<1> DEFINE record == Event("accept", t, NoCall)
<1>2. record \in Record /\ Log(record) /\ record.event = "accept" /\ record.turn = t
  BY <1>1, EventsAreRecords DEF Event
<1> HIDE DEF record
<1>3. /\ session'.results = session.results /\ session'.hooks = session.hooks
      /\ session'.keys = session.keys \cup {t} /\ session'.closed = session.closed
      /\ session'.terminal = FALSE /\ session'.pending = t
  BY <1>1 DEF TInv, Typed, SessionOK, Sessions
<1>4. Recorded("result")' = Recorded("result") /\ Recorded("hook")' = Recorded("hook")
  BY <1>2, RecordsGrow DEF TInv, Typed
<1>5. AcceptedTurns' = AcceptedTurns \cup {t}
  BY <1>2, AcceptedGrow DEF TInv, Typed
<1>6. TerminalSinceAccept' = FALSE /\ Pending' = t
  BY <1>2, MarksGrow DEF TInv, Typed
<1> QED
  BY <1>3, <1>4, <1>5, <1>6 DEF IndexOK

\* A record of no mark leaves the marks, the keys and the pending turn.
LEMMA OtherRecord ==
    ASSUME TInv, NEW record \in Record, Log(record), record.event \notin {"accept", "terminal"}
    PROVE  /\ AcceptedTurns' = AcceptedTurns
           /\ TerminalSinceAccept' = TerminalSinceAccept /\ Pending' = Pending
<1>1. StoreOK /\ MarksOK
  BY DEF TInv, Typed
<1>2. TerminalSinceAccept \in BOOLEAN
  BY DEF TerminalSinceAccept
<1>3. AcceptedTurns' = AcceptedTurns
  BY <1>1, AcceptedGrow
<1>4. TerminalSinceAccept' = TerminalSinceAccept
  BY <1>1, <1>2, MarksGrow
<1>5. Pending' = Pending
  BY <1>1, MarksGrow
<1> QED
  BY <1>3, <1>4, <1>5

LEMMA IndexRecords ==
    ASSUME TInv, IndexOK, Responds \/ Hooked \/ Commits PROVE IndexOK'
<1>1. CASE Responds
  <2>1. PICK t \in Turns : Log(Event("response", t, NoCall))
    BY <1>1 DEF Responds
  <2> DEFINE record == Event("response", t, NoCall)
  <2>2. record \in Record /\ Log(record) /\ record.event = "response"
    BY <2>1, EventsAreRecords DEF Event
  <2> HIDE DEF record
  <2>3. Recorded("result")' = Recorded("result") /\ Recorded("hook")' = Recorded("hook")
    BY <2>2, RecordsGrow DEF TInv, Typed
  <2> QED
    BY <1>1, <2>2, <2>3, OtherRecord DEF Responds, IndexOK
<1>2. CASE Hooked
  <2>1. PICK t \in Turns, h \in Hooks : /\ Log(Event("hook", t, h))
                                        /\ session' = [session EXCEPT !.hooks = @ \cup {h}]
    BY <1>2 DEF Hooked
  <2> DEFINE record == Event("hook", t, h)
  <2>2. record \in Record /\ Log(record) /\ record.event = "hook" /\ record.item = h
    BY <2>1, EventsAreRecords DEF Event
  <2> HIDE DEF record
  <2>3. /\ Recorded("result")' = Recorded("result")
        /\ Recorded("hook")' = Recorded("hook") \cup {h}
    BY <2>2, RecordsGrow DEF TInv, Typed
  <2>4. /\ session'.results = session.results /\ session'.hooks = session.hooks \cup {h}
        /\ session'.keys = session.keys /\ session'.closed = session.closed
        /\ session'.terminal = session.terminal /\ session'.pending = session.pending
    BY <2>1 DEF TInv, Typed, SessionOK, Sessions
  <2> QED
    BY <2>2, <2>3, <2>4, OtherRecord DEF IndexOK
<1>3. CASE Commits
  <2>1. PICK t \in Turns, c \in Calls : /\ Log(Event("result", t, c))
                                        /\ session' = [session EXCEPT !.results = @ \cup {c}]
    BY <1>3 DEF Commits
  <2> DEFINE record == Event("result", t, c)
  <2>2. record \in Record /\ Log(record) /\ record.event = "result" /\ record.item = c
    BY <2>1, EventsAreRecords DEF Event
  <2> HIDE DEF record
  <2>3. /\ Recorded("result")' = Recorded("result") \cup {c}
        /\ Recorded("hook")' = Recorded("hook")
    BY <2>2, RecordsGrow DEF TInv, Typed
  <2>4. /\ session'.results = session.results \cup {c} /\ session'.hooks = session.hooks
        /\ session'.keys = session.keys /\ session'.closed = session.closed
        /\ session'.terminal = session.terminal /\ session'.pending = session.pending
    BY <2>1 DEF TInv, Typed, SessionOK, Sessions
  <2> QED
    BY <2>2, <2>3, <2>4, OtherRecord DEF IndexOK
<1> QED
  BY <1>1, <1>2, <1>3

LEMMA IndexStarts ==
    ASSUME TInv, Start PROVE IndexOK'
<1>1. session' = Recovered /\ UNCHANGED journal
  BY DEF Start, store
<1>2. /\ session'.results = Recorded("result") /\ session'.hooks = Recorded("hook")
      /\ session'.keys = AcceptedTurns /\ session'.terminal = TerminalSinceAccept
      /\ session'.pending = Pending
  BY <1>1 DEF Recovered, Fresh
<1> QED
  BY <1>1, <1>2, UnchangedJournal DEF IndexOK

LEMMA IndexAlways == Spec => [](up => IndexOK)
<1>1. Init => (up => IndexOK)
  <2> SUFFICES ASSUME Init PROVE IndexOK
    OBVIOUS
  <2>1. \A e : Records(e) = {}
    BY DEF Init, Records
  <2>2. Recorded("result") = {} /\ Recorded("hook") = {} /\ AcceptedTurns = {} /\ Marks = {}
    BY <2>1 DEF Recorded, AcceptedTurns, Marks
  <2> QED
    BY <2>2 DEF Init, Fresh, IndexOK, TerminalSinceAccept
<1>2. TInv /\ (up => IndexOK) /\ [Next]_vars => (up => IndexOK)'
  <2> SUFFICES ASSUME TInv, up => IndexOK, [Next]_vars PROVE (up => IndexOK)'
    OBVIOUS
  <2>1. Moves
    BY StepMoves DEF TInv
  <2>2. CASE Quiet
    BY <2>2, IndexIsKept DEF Quiet, store
  <2>3. CASE Ends
    BY <2>3, IndexEnds DEF Ends
  <2>4. CASE Accepts
    BY <2>4, IndexAccepts DEF Accepts
  <2>5. CASE Responds \/ Hooked \/ Commits
    BY <2>5, IndexRecords DEF Responds, Hooked, Commits
  <2>6. CASE Dies
    BY <2>6 DEF Dies, Gone
  <2>7. CASE Start
    BY <2>7, IndexStarts
  <2> QED
    BY <2>1, <2>2, <2>3, <2>4, <2>5, <2>6, <2>7 DEF Moves, Calm
<1> QED
  BY <1>1, <1>2, Always, PTL DEF Spec

(* What a daemon has in memory is at every moment what a fresh start reads *)
(* back from the journal, for any journal, any number of deaths and any    *)
(* interleaving of workers, their tasks and requests: SessionState is      *)
(* changed only after the record of the change is durable.                 *)
THEOREM IndexIsTheJournal == Spec => []IndexMatchesJournal
<1>1. TInv /\ (up => IndexOK) => IndexMatchesJournal
  BY DEF TInv, Typed, SessionOK, IndexOK, IndexMatchesJournal, Recovered, Fresh
<1> QED
  BY <1>1, IndexAlways, Always, PTL

-----------------------------------------------------------------------------
(* The files of the workspace.                                             *)

Committed == \A p \in Paths : files[p] # NoCall => files[p] \in Recorded("result")

LEMMA ResultsStay ==
    ASSUME TInv, [Next]_vars PROVE Recorded("result") \subseteq Recorded("result")'
<1>1. CASE UNCHANGED journal
  BY <1>1, UnchangedJournal
<1>2. ASSUME NEW record \in Record, Log(record)
      PROVE  Recorded("result") \subseteq Recorded("result")'
  BY <1>2, RecordsGrow DEF TInv, Typed
<1> QED
  BY <1>1, <1>2, JournalStep DEF TInv

LEMMA ReconciledIsCommitted ==
    ASSUME TInv, Committed, NEW p \in Paths, Reconciled[p] # NoCall
    PROVE  Reconciled[p] \in Recorded("result")
<1>1. CASE WritesTo(p) = {}
  BY <1>1 DEF Reconciled, Committed
<1>2. CASE WritesTo(p) # {}
  <2>1. Newest(WritesTo(p)) \in Records("result")
    BY <1>2 DEF TInv, WritesOK, NewestExists, WritesTo
  <2> QED
    BY <1>2, <2>1 DEF Reconciled, Recorded
<1> QED
  BY <1>1, <1>2

LEMMA CommittedStep ==
    ASSUME TInv, Committed, [Next]_vars PROVE Committed'
<1>1. Recorded("result") \subseteq Recorded("result")'
  BY ResultsStay
<1>2. Moves
  BY StepMoves DEF TInv
<1>3. CASE UNCHANGED files
  BY <1>1, <1>3 DEF Committed
<1>4. CASE Commits
  <2>1. PICK t \in Turns, c \in Calls : /\ Log(Event("result", t, c))
                                        /\ files' = [files EXCEPT ![PathOf[c]] = c]
    BY <1>4 DEF Commits
  <2>2. Event("result", t, c) \in Record /\ Event("result", t, c).event = "result"
        /\ Event("result", t, c).item = c
    BY EventsAreRecords DEF Event
  <2>3. c \in Recorded("result")'
    BY <2>1, <2>2, RecordsGrow DEF TInv, Typed
  <2> QED
    BY <1>1, <2>1, <2>3 DEF Committed, TInv, Typed, DiskOK
<1>5. CASE Start
  <2>1. files' = Reconciled
    BY <1>5 DEF Start
  <2> QED
    BY <1>1, <2>1, ReconciledIsCommitted DEF Committed
<1> QED
  BY <1>2, <1>3, <1>4, <1>5 DEF Moves, Calm, Quiet, Ends, Accepts, Responds, Hooked, Dies

\* The content of a file that has a newest write is that write's.
FilesOK == \A p \in Paths : WritesTo(p) # {} => files[p] = journal[Newest(WritesTo(p))].item

LEMMA FilesAreReconciled ==
    ASSUME TInv PROVE FilesOK <=> files = Reconciled
  BY DEF FilesOK, Reconciled, TInv, Typed, DiskOK

LEMMA FilesKept ==
    ASSUME TInv, FilesOK, UNCHANGED files,
           \/ UNCHANGED journal
           \/ \E record \in Record : Log(record) /\ record.event # "result"
    PROVE  FilesOK'
<1>1. CASE UNCHANGED journal
  <2>1. \A p : WritesTo(p)' = WritesTo(p)
    BY <1>1, UnchangedJournal
  <2> QED
    BY <1>1, <2>1 DEF FilesOK, Newest
<1>2. ASSUME NEW record \in Record, Log(record), record.event # "result" PROVE FilesOK'
  <2>1. \A p \in Paths : WritesTo(p)' = WritesTo(p)
    BY <1>2, WritesGrow DEF TInv, Typed
  <2>2. \A k \in DOMAIN journal : journal'[k] = journal[k]
    BY <1>2, LogMoves DEF TInv, Typed
  <2>3. \A p \in Paths : WritesTo(p) # {} => Newest(WritesTo(p)) \in DOMAIN journal
    BY DEF TInv, WritesOK, NewestExists, WritesTo, Records
  <2>4. \A p \in Paths : WritesTo(p)' # {} => files'[p] = journal'[Newest(WritesTo(p)')].item
    BY <2>1, <2>2, <2>3 DEF FilesOK
  <2> QED
    BY <2>4 DEF FilesOK, Newest
<1> QED
  BY <1>1, <1>2

LEMMA FilesCommitted ==
    ASSUME TInv, FilesOK, Commits PROVE FilesOK'
<1>1. PICK t \in Turns, c \in Calls : /\ Log(Event("result", t, c))
                                      /\ files' = [files EXCEPT ![PathOf[c]] = c]
  BY DEF Commits
<1> DEFINE record == Event("result", t, c)
<1>2. record \in Record /\ Log(record) /\ record.event = "result" /\ record.item = c
  BY <1>1, EventsAreRecords DEF Event
<1> HIDE DEF record
<1>3. /\ \A k \in DOMAIN journal : journal'[k] = journal[k]
      /\ journal'[Last] = record
  BY <1>2, LogMoves DEF TInv, Typed
<1>4. ASSUME NEW p \in Paths, WritesTo(p)' # {}
      PROVE  files'[p] = journal'[Newest(WritesTo(p)')].item
  <2>1. CASE PathOf[c] = p
    <3>1. Newest(WritesTo(p)') = Last
      BY <1>2, <2>1, WritesGrow DEF TInv, Typed
    <3>2. files'[p] = c
      BY <1>1, <2>1 DEF TInv, Typed, DiskOK
    <3> QED
      BY <1>2, <1>3, <3>1, <3>2
  <2>2. CASE PathOf[c] # p
    <3>1. WritesTo(p)' = WritesTo(p)
      BY <1>2, <2>2, WritesGrow DEF TInv, Typed
    <3>2. Newest(WritesTo(p)) \in DOMAIN journal
      BY <1>4, <3>1 DEF TInv, WritesOK, NewestExists, WritesTo, Records
    <3>3. files'[p] = files[p]
      BY <1>1, <2>2 DEF TInv, Typed, DiskOK
    <3> QED
      BY <1>3, <1>4, <3>1, <3>2, <3>3 DEF FilesOK
  <2> QED
    BY <2>1, <2>2
<1> QED
  BY <1>4 DEF FilesOK, Newest

LEMMA FilesStart ==
    ASSUME TInv, Start PROVE FilesOK'
<1>1. files' = Reconciled /\ UNCHANGED journal
  BY DEF Start, store
<1>2. \A p : WritesTo(p)' = WritesTo(p)
  BY <1>1, UnchangedJournal
<1> QED
  BY <1>1, <1>2 DEF FilesOK, Reconciled, Newest

LEMMA FilesStep ==
    ASSUME TInv, up => FilesOK, [Next]_vars PROVE (up => FilesOK)'
<1>1. Moves
  BY StepMoves DEF TInv
<1>2. CASE Quiet
  BY <1>2, FilesKept DEF Quiet, store
<1>3. CASE Ends
  <2>1. PICK t \in SomeTurn, how \in {"success", "failure", "cancelled"} : LogTerminal(t, how)
    BY <1>3 DEF Ends
  <2>2. /\ Event("terminal", t, how) \in Record
        /\ Event("terminal", t, how).event # "result"
    BY EventsAreRecords DEF Event
  <2> QED
    BY <1>3, <2>1, <2>2, FilesKept DEF Ends, LogTerminal, store
<1>4. CASE Accepts
  <2>1. PICK t \in Turns : Log(Event("accept", t, NoCall))
    BY <1>4 DEF Accepts, AcceptIn
  <2>2. Event("accept", t, NoCall) \in Record /\ Event("accept", t, NoCall).event # "result"
    BY EventsAreRecords DEF Event
  <2> QED
    BY <1>4, <2>1, <2>2, FilesKept DEF Accepts
<1>5. CASE Responds
  <2>1. PICK t \in Turns : Log(Event("response", t, NoCall))
    BY <1>5 DEF Responds
  <2>2. Event("response", t, NoCall) \in Record /\ Event("response", t, NoCall).event # "result"
    BY EventsAreRecords DEF Event
  <2> QED
    BY <1>5, <2>1, <2>2, FilesKept DEF Responds
<1>6. CASE Hooked
  <2>1. PICK t \in Turns, h \in Hooks : Log(Event("hook", t, h))
    BY <1>6 DEF Hooked
  <2>2. Event("hook", t, h) \in Record /\ Event("hook", t, h).event # "result"
    BY EventsAreRecords DEF Event
  <2> QED
    BY <1>6, <2>1, <2>2, FilesKept DEF Hooked
<1>7. CASE Commits
  BY <1>7, FilesCommitted DEF Commits
<1>8. CASE Dies
  BY <1>8 DEF Dies, Gone
<1>9. CASE Start
  BY <1>9, FilesStart
<1> QED
  BY <1>1, <1>2, <1>3, <1>4, <1>5, <1>6, <1>7, <1>8, <1>9 DEF Moves, Calm

(* A file of the workspace never has content whose call is not durably     *)
(* committed, and while the daemon runs every file has the newest result's *)
(* content: the result is appended before the file is written, and a start *)
(* redoes the write that a death has cut off.                              *)
THEOREM EffectsAreTheJournals == Spec => []EffectsFollowJournal
<1>1. Init => Committed /\ (up => FilesOK)
  BY DEF Init, Committed, FilesOK, WritesTo, Records
<1>2. TInv /\ Committed /\ (up => FilesOK) /\ [Next]_vars => Committed' /\ (up => FilesOK)'
  BY CommittedStep, FilesStep
<1>3. TInv /\ Committed /\ (up => FilesOK) => EffectsFollowJournal
  BY FilesAreReconciled DEF Committed, EffectsFollowJournal
<1> QED
  BY <1>1, <1>2, <1>3, Always, PTL DEF Spec
=============================================================================
