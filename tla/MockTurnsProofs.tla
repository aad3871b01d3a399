--------------------------- MODULE MockTurnsProofs ---------------------------
(***************************************************************************)
(* Proofs about the turns of the mock harness, for any number of turns,    *)
(* calls, workers and deaths, and a client that submits when it may: only  *)
(* the open turn speaks in the journal, and the journal implements the     *)
(* ledger.  Both follow from what the workers of a session, and the tasks  *)
(* that they leave behind, can be doing at one time.                       *)
(***************************************************************************)
EXTENDS MockHarnessProofs, WellFoundedInduction

\* Over, but for a completion hook that is not configured.
AtRest(a) ==
    \/ fiber[a].at = "idle"
    \/ /\ a \in Workers /\ HookKinds = {}
       /\ fiber[a].at = "hook" /\ fiber[a].hook = "completion" /\ fiber[a].next = NoTurn

Halting == session.cancelled \/ session.closed

Underway == {"start", "waiting", "woken", "run", "committed"}

\* No task of the session is under way, and none of this worker was stopped.
Clean(w) ==
    /\ \A b \in Workers, c \in Calls : task[b][c].at \notin Underway
    /\ \A c \in Calls : task[w][c].at \notin {"stopped", "error"}

\* A worker whose turn has ended, with or without a queued turn to take.
Leaving(a) ==
    /\ a \in Workers
    /\ fiber[a].at \in {"hook", "fired", "next", "failed", "read"}
    /\ session.pending = NoTurn
    /\ HookKinds # {} \/ fiber[a].next # NoTurn
    /\ fiber[a].next # NoTurn => Clean(a)

\* A worker that has, or is about to read, a turn; or the RPC loop with one.
Serving(a) ==
    /\ fiber[a].next = NoTurn
    /\ session.active \/ Halting
    /\ fiber[a].at \in {"post", "prepare", "join", "finish"} => ~session.terminal \/ Halting
    /\ fiber[a].at \in {"prepare", "join"} => HasFrame(a)

Engaged(a) ==
    /\ IF fiber[a].hook = "completion" THEN Leaving(a) ELSE Serving(a)
    /\ ~session.terminal /\ fiber[a].at # "read" => fiber[a].turn = Pending

\* The call's effect may still be to come.
Uncommitted(w, c) ==
    \/ task[w][c].at \in {"listed", "start", "run"}
    \/ Checkpoint[c] = "before-effect" /\ task[w][c].at \in {"waiting", "woken"}

\* What is under way belongs to the frame its worker waits for, or finds that
\* it should stop; and a result that is known has been looked for.
TaskFits(w, c) ==
    /\ task[w][c].at \in Underway =>
         Halting \/ (fiber[w].at = "join" /\ task[w][c].turn = fiber[w].turn)
    /\ task[w][c].at = "listed" =>
         fiber[w].at = "prepare" /\ task[w][c].turn = fiber[w].turn
    /\ task[w][c].at \in {"woken", "stopped", "error"} => AtRest(w) \/ Halting
    /\ task[w][c].at = "committed" => Checkpoint[c] = "after-commit"
    /\ Uncommitted(w, c) /\ ~task[w][c].known /\ fiber[w].at \in {"prepare", "join"} =>
         c \notin session.results

OneAtWork == \A a, b \in Agents : AtRest(a) \/ AtRest(b) \/ a = b
AgentsFit == \A a \in Agents : AtRest(a) \/ Engaged(a)
TasksFit == \A w \in Workers, c \in Calls : TaskFits(w, c)
ControlFits ==
    /\ session.pending # NoTurn => ~Halting
    /\ session.cancelled => session.terminal \/ session.closed
DownIsEmpty ==
    ~up => /\ \A a \in Agents : fiber[a] = Idle
           /\ \A w \in Workers, c \in Calls : task[w][c] = NoTask

\* One agent of a session is at work, and what outlives its turn is silent.
Orderly == OneAtWork /\ AgentsFit /\ TasksFit /\ ControlFits /\ DownIsEmpty

Known == TInv /\ (up => IndexOK)

-----------------------------------------------------------------------------
(* What holds of agents and tasks whatever the step.                       *)

LEMMA LeastExists ==
    ASSUME NEW S \in SUBSET Nat, S # {}
    PROVE  \E i \in S : \A j \in S : i <= j
<1>1. IsWellFoundedOn(OpToRel(<, Nat), Nat)
  BY NatLessThanWellFounded
<1>2. PICK i \in S : \A j \in S : <<j, i>> \notin OpToRel(<, Nat)
  BY <1>1, WFMin
<1>3. \A j \in S : ~(j < i)
  BY <1>2 DEF OpToRel
<1> QED
  BY <1>3

LEMMA OthersRest ==
    ASSUME OneAtWork, NEW a \in Agents, ~AtRest(a), NEW b \in Agents, b # a
    PROVE  AtRest(b)
  BY DEF OneAtWork

LEMMA RestPlaces ==
    ASSUME NEW a, AtRest(a) PROVE fiber[a].at \in {"idle", "hook"}
  BY DEF AtRest

LEMMA AgentsAreTyped ==
    ASSUME TInv, NEW a \in Agents
    PROVE  /\ fiber[a] \in Fibers
           /\ fiber[a].at \notin {"idle", "read"} => fiber[a].turn \in Turns
           /\ fiber[a].at = "next" => fiber[a].next # NoTurn
           /\ fiber[a].at = "fired" => HookKinds # {}
<1>1. fiber[a] \in Fibers
  BY DEF TInv, Typed, FiberOK
<1> QED
  BY <1>1, HarnessAssumption DEF Fibers

LEMMA TasksAreTyped ==
    ASSUME TInv, NEW w \in Workers, NEW c \in Calls
    PROVE  task[w][c] \in Tasks /\ (task[w][c].at # "none" => task[w][c].turn \in Turns)
<1>1. task[w][c] \in Tasks
  BY DEF TInv, Typed, TaskOK
<1> QED
  BY <1>1 DEF Tasks

\* A turn stays open unless another is accepted or a terminal is appended.
LEMMA CalmKeepsTurn ==
    ASSUME TInv, Calm, ~session'.terminal
    PROVE  ~session.terminal /\ Pending' = Pending
<1>1. CASE Quiet
  BY <1>1, UnchangedJournal DEF Quiet, store
<1>2. CASE Ends
  BY <1>2 DEF Ends
<1>3. CASE Responds
  <2>1. PICK t \in Turns : Log(Event("response", t, NoCall))
    BY <1>3 DEF Responds
  <2> DEFINE record == Event("response", t, NoCall)
  <2>2. record \in Record /\ Log(record) /\ record.event = "response"
    BY <2>1, EventsAreRecords DEF Event
  <2> HIDE DEF record
  <2> QED
    BY <1>3, <2>2, OtherRecord DEF Responds
<1>4. CASE Hooked
  <2>1. PICK t \in Turns, h \in Hooks : /\ Log(Event("hook", t, h))
                                        /\ session' = [session EXCEPT !.hooks = @ \cup {h}]
    BY <1>4 DEF Hooked
  <2> DEFINE record == Event("hook", t, h)
  <2>2. record \in Record /\ Log(record) /\ record.event = "hook"
    BY <2>1, EventsAreRecords DEF Event
  <2> HIDE DEF record
  <2>3. session'.terminal = session.terminal
    BY <2>1 DEF TInv, Typed, SessionOK, Sessions
  <2> QED
    BY <2>2, <2>3, OtherRecord
<1>5. CASE Commits
  <2>1. PICK t \in Turns, c \in Calls : /\ Log(Event("result", t, c))
                                        /\ session' = [session EXCEPT !.results = @ \cup {c}]
    BY <1>5 DEF Commits
  <2> DEFINE record == Event("result", t, c)
  <2>2. record \in Record /\ Log(record) /\ record.event = "result"
    BY <2>1, EventsAreRecords DEF Event
  <2> HIDE DEF record
  <2>3. session'.terminal = session.terminal
    BY <2>1 DEF TInv, Typed, SessionOK, Sessions
  <2> QED
    BY <2>2, <2>3, OtherRecord
<1> QED
  BY <1>1, <1>2, <1>3, <1>4, <1>5 DEF Calm

-----------------------------------------------------------------------------
(* One agent moves, and the others are at rest.                            *)

LEMMA OneMoves ==
    ASSUME Orderly, NEW a \in Agents, ~AtRest(a), AtRest(a)' \/ Engaged(a)',
           \A b \in Agents : b # a => fiber'[b] = fiber[b]
    PROVE  OneAtWork' /\ AgentsFit'
<1>1. ASSUME NEW b \in Agents, b # a PROVE AtRest(b)'
  <2>1. AtRest(b)
    BY <1>1, OthersRest DEF Orderly
  <2> QED
    BY <1>1, <2>1 DEF AtRest
<1> QED
  BY <1>1 DEF OneAtWork, AgentsFit

\* What an agent's state depends on, but for its own fiber and the tasks.
SameControl ==
    /\ session'.pending = session.pending /\ session'.active = session.active
    /\ session'.cancelled = session.cancelled /\ session'.closed = session.closed

LEMMA EngagedStays ==
    ASSUME NEW a \in Agents, Engaged(a), fiber'[a] = fiber[a], SameControl,
           session'.terminal = session.terminal,
           ~session.terminal => Pending' = Pending,
           \A w \in Workers, c \in Calls : task'[w][c].at = task[w][c].at
    PROVE  Engaged(a)'
<1>1. Halting' = Halting
  BY DEF Halting, SameControl
<1>2. Clean(a) /\ a \in Workers => Clean(a)'
  BY DEF Clean
<1>3. HasFrame(a) => HasFrame(a)'
  BY DEF HasFrame, Turn
<1>4. Leaving(a) => Leaving(a)'
  BY <1>2 DEF Leaving, SameControl
<1>5. Serving(a) => Serving(a)'
  BY <1>1, <1>3 DEF Serving, SameControl
<1> QED
  BY <1>4, <1>5 DEF Engaged

\* A worker that serves a turn goes on, or is done with it.
LEMMA ServingGoesOn ==
    ASSUME NEW w \in Agents, Engaged(w), fiber[w].at # "read", fiber[w].hook # "completion",
           fiber'[w].turn = fiber[w].turn, fiber'[w].hook = fiber[w].hook,
           fiber'[w].next = fiber[w].next, SameControl,
           ~session'.terminal => ~session.terminal /\ Pending' = Pending,
           fiber'[w].at \in {"post", "prepare", "join", "finish"} => ~session'.terminal \/ Halting',
           fiber'[w].at \in {"prepare", "join"} => HasFrame(w)'
    PROVE  Engaged(w)'
<1>1. Halting' = Halting
  BY DEF Halting, SameControl
<1>2. Serving(w)
  BY DEF Engaged
<1>3. Serving(w)'
  BY <1>1, <1>2 DEF Serving, SameControl
<1> QED
  BY <1>3 DEF Engaged

\* Tasks that are left as they are, by a worker that is not in the middle of a frame.
LEMMA TaskKept ==
    ASSUME NEW w \in Workers, NEW c \in Calls, TaskFits(w, c), task'[w][c] = task[w][c],
           fiber[w].at # "prepare", fiber'[w].at \notin {"prepare", "join"},
           task[w][c].at \in Underway => Halting',
           task[w][c].at \in {"stopped", "error"} => AtRest(w)' \/ Halting'
    PROVE  TaskFits(w, c)'
<1>1. task[w][c].at = "woken" => Halting'
  BY DEF Underway
<1> QED
  BY <1>1 DEF TaskFits

\* The same, of a worker at rest.
LEMMA RestTaskKept ==
    ASSUME NEW w \in Workers, NEW c \in Calls, TaskFits(w, c), AtRest(w), AtRest(w)',
           task'[w][c] = task[w][c], task[w][c].at \in Underway => Halting'
    PROVE  TaskFits(w, c)'
<1>1. fiber[w].at \in {"idle", "hook"}
  BY RestPlaces
<1>2. fiber'[w].at \in {"idle", "hook"}
  BY DEF AtRest
<1> QED
  BY <1>1, <1>2, TaskKept

LEMMA NoTaskFits ==
    ASSUME NEW w \in Workers, NEW c \in Calls, task'[w][c] = NoTask PROVE TaskFits(w, c)'
  BY DEF TaskFits, NoTask, Underway, Uncommitted

\* The tasks of everyone else, when one worker moves that was not at rest.
LEMMA OtherTasksFit ==
    ASSUME Orderly, NEW a \in Agents, ~AtRest(a), NEW w \in Workers, w # a, NEW c \in Calls,
           fiber'[w] = fiber[w], task'[w][c] = task[w][c],
           Halting' \/ ~Halting \/ task[w][c].at \notin Underway
    PROVE  TaskFits(w, c)'
<1>1. AtRest(w) /\ TaskFits(w, c)
  BY OthersRest DEF Orderly, TasksFit, Agents
<1>2. AtRest(w)'
  BY <1>1 DEF AtRest
<1>3. task[w][c].at \in Underway => Halting
  BY <1>1, RestPlaces DEF TaskFits
<1> QED
  BY <1>1, <1>2, <1>3, RestTaskKept

LEMMA WorkerStep ==
    ASSUME Orderly, NEW w \in Workers, ~AtRest(w), AtRest(w)' \/ Engaged(w)',
           \A b \in Agents : b # w => fiber'[b] = fiber[b],
           \A b \in Workers, c \in Calls : b # w => task'[b][c] = task[b][c],
           \A c \in Calls : TaskFits(w, c)',
           \/ Halting' \/ ~Halting
           \/ \A b \in Workers, c \in Calls : task[b][c].at \notin Underway,
           ControlFits', up'
    PROVE  Orderly'
<1>1. OneAtWork' /\ AgentsFit'
  BY OneMoves DEF Agents
<1>2. ASSUME NEW b \in Workers, NEW c \in Calls PROVE TaskFits(b, c)'
  <2>1. CASE b = w
    BY <2>1
  <2>2. CASE b # w
    BY <2>2, OtherTasksFit DEF Agents
  <2> QED
    BY <2>1, <2>2
<1> QED
  BY <1>1, <1>2 DEF Orderly, TasksFit, DownIsEmpty

LEMMA ControlStays ==
    ASSUME ControlFits, SameControl, session.terminal => session'.terminal PROVE ControlFits'
  BY DEF ControlFits, SameControl, Halting

LEMMA GotoIs ==
    ASSUME TInv, NEW a \in Agents, NEW there, Goto(a, there)
    PROVE  /\ fiber'[a].at = there /\ fiber'[a].turn = fiber[a].turn
           /\ fiber'[a].hook = fiber[a].hook /\ fiber'[a].next = fiber[a].next
           /\ fiber'[a].round = fiber[a].round /\ fiber'[a].index = fiber[a].index
           /\ \A b \in Agents : b # a => fiber'[b] = fiber[b]
<1>1. fiber \in [Agents -> Fibers]
  BY DEF TInv, Typed, FiberOK
<1>2. fiber'[a] = [fiber[a] EXCEPT !.at = there]
  BY <1>1 DEF Goto
<1>3. fiber[a] \in Fibers
  BY <1>1
<1> QED
  BY <1>1, <1>2, <1>3 DEF Goto, Fibers

LEMMA SessionKept ==
    ASSUME TInv, UNCHANGED session \/ session' = [session EXCEPT !.terminal = TRUE]
    PROVE  /\ SameControl /\ session'.results = session.results
           /\ session.terminal => session'.terminal
  BY DEF TInv, Typed, SessionOK, Sessions, SameControl

\* Only one who serves is inside execute_turn.
LEMMA InTurnServes ==
    ASSUME TInv, Orderly, NEW w \in Workers,
           fiber[w].at \in {"top", "post", "finish", "prepare", "join", "done"}
    PROVE  /\ w \in Agents /\ ~AtRest(w) /\ Engaged(w)
           /\ fiber[w].hook # "completion" /\ Serving(w)
<1>1. w \in Agents /\ ~AtRest(w)
  BY DEF Agents, AtRest
<1>2. Engaged(w)
  BY <1>1 DEF Orderly, AgentsFit
<1> QED
  BY <1>1, <1>2 DEF Engaged, Leaving

\* Its tasks under way are those of the frame, or find that they should stop.
LEMMA InTurnTasks ==
    ASSUME TInv, Orderly, NEW w \in Workers, ~AtRest(w), NEW c \in Calls
    PROVE  /\ TaskFits(w, c)
           /\ task[w][c].at \in Underway /\ fiber[w].at # "join" => Halting
           /\ task[w][c].at \in {"stopped", "error"} => Halting
           /\ task[w][c].at = "listed" => fiber[w].at = "prepare"
  BY DEF Orderly, TasksFit, TaskFits

LEMMA ModelTurns ==
    ASSUME Known, Orderly, NEW w \in Workers,
           \/ RequestModel(w) \/ ModelFails(w) \/ ModelErrs(w) \/ ModelReplies(w) \/ Finish(w)
    PROVE  Orderly'
<1>0. TInv /\ Typed
  BY DEF Known, TInv
<1>1. fiber[w].at \in {"top", "post", "finish"} /\ up /\ up' /\ UNCHANGED task
  BY DEF RequestModel, ModelFails, ModelErrs, ModelReplies, Finish, At, daemon
<1>2. w \in Agents /\ ~AtRest(w) /\ Engaged(w) /\ fiber[w].hook # "completion" /\ Serving(w)
  BY <1>0, <1>1, InTurnServes
<1>3. Calm
  <2>1. ~TakeQueued(w)
    BY <1>1 DEF TakeQueued, At
  <2> QED
    BY <1>0, <2>1, WorkMoves DEF Work
<1>4. UNCHANGED session \/ session' = [session EXCEPT !.terminal = TRUE]
  BY DEF RequestModel, ModelFails, ModelErrs, ModelReplies, Finish
<1>5. /\ SameControl /\ session'.results = session.results
      /\ session.terminal => session'.terminal
  BY <1>0, <1>4, SessionKept
<1>6. /\ fiber'[w].at \in {"done", "post", "failed", "finish", "prepare"}
      /\ fiber'[w].turn = fiber[w].turn /\ fiber'[w].hook = fiber[w].hook
      /\ fiber'[w].next = fiber[w].next /\ fiber'[w].round = fiber[w].round
      /\ \A b \in Agents : b # w => fiber'[b] = fiber[b]
      /\ fiber'[w].at \in {"post", "finish", "prepare"} => ~ShouldStop /\ UNCHANGED session
      /\ fiber'[w].at = "prepare" => HasFrame(w)
  <2>1. CASE RequestModel(w)
    <3>1. Goto(w, "done") \/ (Goto(w, "post") /\ ~ShouldStop /\ UNCHANGED session)
      BY <2>1 DEF RequestModel
    <3> QED
      BY <1>0, <1>2, <3>1, GotoIs
  <2>2. CASE ModelFails(w) \/ Finish(w)
    <3>1. Goto(w, "done")
      BY <2>2 DEF ModelFails, Finish
    <3> QED
      BY <1>0, <1>2, <3>1, GotoIs
  <2>3. CASE ModelErrs(w)
    <3>1. Goto(w, "failed")
      BY <2>3 DEF ModelErrs
    <3> QED
      BY <1>0, <1>2, <3>1, GotoIs
  <2>4. CASE ModelReplies(w)
    <3>1. CASE Goto(w, "done")
      BY <1>0, <1>2, <3>1, GotoIs
    <3>2. CASE Goto(w, "finish") /\ ~ShouldStop
      <4>1. UNCHANGED session
        BY <2>4 DEF ModelReplies
      <4> QED
        BY <1>0, <1>2, <3>2, <4>1, GotoIs
    <3>3. CASE /\ HasFrame(w) /\ ~ShouldStop
               /\ fiber' = [fiber EXCEPT ![w].at = "prepare", ![w].index = 1]
      <4>1. fiber \in [Agents -> Fibers] /\ fiber[w] \in Fibers /\ UNCHANGED session
        BY <1>0, <1>2, <2>4 DEF Typed, FiberOK, ModelReplies
      <4>2. fiber'[w] = [fiber[w] EXCEPT !.at = "prepare", !.index = 1]
        BY <1>2, <3>3, <4>1
      <4> QED
        BY <1>2, <3>3, <4>1, <4>2 DEF Fibers
    <3> QED
      BY <2>4, <3>1, <3>2, <3>3 DEF ModelReplies
  <2> QED
    BY <2>1, <2>2, <2>3, <2>4
<1>7. HasFrame(w) => HasFrame(w)'
  BY <1>6 DEF HasFrame, Turn
<1>8. fiber'[w].at \in {"post", "finish", "prepare"} => ~session'.terminal
  BY <1>6 DEF ShouldStop
<1>9. Engaged(w)'
  <2>1. ~session'.terminal => ~session.terminal /\ Pending' = Pending
    BY <1>0, <1>3, CalmKeepsTurn
  <2> QED
    BY <1>1, <1>2, <1>5, <1>6, <1>7, <1>8, <2>1, ServingGoesOn
<1>10. Halting' = Halting
  BY <1>5 DEF Halting, SameControl
<1>11. ASSUME NEW c \in Calls PROVE TaskFits(w, c)'
  <2>1. /\ TaskFits(w, c)
        /\ task[w][c].at \in Underway \cup {"stopped", "error"} => Halting
        /\ task[w][c].at # "listed"
    BY <1>0, <1>1, <1>2, InTurnTasks
  <2>2. CASE fiber'[w].at = "prepare"
    <3>1. ~Halting
      BY <1>6, <2>2 DEF ShouldStop, Halting
    <3>2. ~Uncommitted(w, c)'
      BY <1>1, <2>1, <3>1 DEF Uncommitted, Underway
    <3> QED
      BY <1>1, <1>10, <2>1, <3>2 DEF TaskFits, Underway
  <2>3. CASE fiber'[w].at # "prepare"
    BY <1>1, <1>6, <1>10, <2>1, <2>3, TaskKept
  <2> QED
    BY <2>2, <2>3
<1>12. ControlFits'
  BY <1>5, ControlStays DEF Orderly
<1> QED
  BY <1>1, <1>2, <1>6, <1>9, <1>10, <1>11, <1>12, WorkerStep

LEMMA ReadTurns ==
    ASSUME Known, Orderly, NEW w \in Workers, ReadPending(w)
    PROVE  Orderly'
<1>0. TInv /\ IndexOK
  BY DEF Known, ReadPending, At
<1>1. fiber[w].at = "read" /\ up /\ up' /\ UNCHANGED <<journal, session, task>>
  BY DEF ReadPending, At, daemon, store
<1>2. w \in Agents /\ ~AtRest(w)
  BY <1>1 DEF AtRest, Agents
<1>3. Engaged(w)
  BY <1>2 DEF Orderly, AgentsFit
<1>4. fiber \in [Agents -> Fibers]
  BY <1>0 DEF TInv, Typed, FiberOK
<1>5. \A b \in Agents : b # w => fiber'[b] = fiber[b]
  BY <1>2, <1>4 DEF ReadPending
<1>6. Pending' = Pending /\ Halting' = Halting /\ ControlFits'
  BY <1>1, UnchangedJournal DEF Halting, ControlFits, Orderly
<1>7. fiber'[w].at \in {"idle", "top"} /\ (AtRest(w)' \/ Engaged(w)')
  <2>1. CASE session.pending = NoTurn
    <3>1. fiber'[w] = Idle
      BY <1>2, <1>4, <2>1 DEF ReadPending
    <3> QED
      BY <3>1 DEF Idle, AtRest
  <2>2. CASE session.pending # NoTurn
    <3>1. fiber'[w] = [Idle EXCEPT !.at = "top", !.turn = session.pending]
      BY <1>2, <1>4, <2>2 DEF ReadPending
    <3>2. Serving(w)
      BY <1>3, <2>2 DEF Engaged, Leaving
    <3>3. ~session.terminal => session.pending = Pending
      BY <1>0, <2>2 DEF IndexOK
    <3>4. fiber'[w].at = "top" /\ fiber'[w].turn = session.pending
          /\ fiber'[w].hook = "none" /\ fiber'[w].next = NoTurn
      BY <3>1 DEF Idle
    <3>5. Serving(w)'
      BY <1>1, <1>6, <3>2, <3>4 DEF Serving
    <3> QED
      BY <1>1, <1>6, <3>3, <3>4, <3>5 DEF Engaged
  <2> QED
    BY <2>1, <2>2
<1>8. ASSUME NEW c \in Calls PROVE TaskFits(w, c)'
  BY <1>0, <1>1, <1>2, <1>6, <1>7, InTurnTasks, TaskKept
<1> QED
  BY <1>1, <1>2, <1>5, <1>6, <1>7, <1>8, WorkerStep

LEMMA FrameIsTyped ==
    ASSUME TInv, NEW w \in Workers, HasFrame(w), fiber[w].at \in {"prepare", "join"}
    PROVE  Frame(w) \in Seq(Calls)
<1>1. w \in Agents /\ fiber[w].turn \in Turns /\ fiber[w].round \in Nat
  BY AgentsAreTyped DEF Agents, Fibers
<1>2. Plan[fiber[w].turn] \in Seq(Seq(Calls))
  BY <1>1, HarnessAssumption
<1>3. fiber[w].round + 1 \in 1 .. Len(Plan[fiber[w].turn])
  BY <1>1, <1>2 DEF HasFrame, Turn
<1> QED
  BY <1>2, <1>3 DEF Frame, Turn

LEMMA PrepareTurns ==
    ASSUME Known, Orderly, NEW w \in Workers, PrepareCall(w)
    PROVE  Orderly'
<1> DEFINE call == Frame(w)[fiber[w].index]
           k == [at |-> "listed", turn |-> Turn(w), known |-> call \in session.results]
           listed == [task[w] EXCEPT ![call] = k]
<1>0. TInv /\ Typed
  BY DEF Known, TInv
<1>1. fiber[w].at = "prepare" /\ up /\ up' /\ UNCHANGED session
  BY DEF PrepareCall, At, daemon
<1>2. w \in Agents /\ ~AtRest(w) /\ Engaged(w) /\ fiber[w].hook # "completion" /\ Serving(w)
  BY <1>0, <1>1, InTurnServes
<1>3. Calm
  <2>1. ~TakeQueued(w)
    BY <1>1 DEF TakeQueued, At
  <2> QED
    BY <1>0, <2>1, WorkMoves DEF Work
<1>4. /\ SameControl /\ session'.results = session.results
      /\ session'.terminal = session.terminal /\ Halting' = Halting
  BY <1>1 DEF SameControl, Halting
<1>5. task \in [Workers -> [Calls -> Tasks]] /\ fiber \in [Agents -> Fibers] /\ fiber[w] \in Fibers
  BY <1>0, <1>2 DEF Typed, TaskOK, FiberOK
<1>6. \/ Goto(w, "done") /\ NoTasks(w)
      \/ /\ ~ShouldStop
         /\ fiber' = [fiber EXCEPT ![w].index = fiber[w].index + 1]
         /\ task' = [task EXCEPT ![w] = listed]
      \/ /\ ~ShouldStop /\ Goto(w, "join")
         /\ task' = [task EXCEPT ![w] = [d \in Calls |->
                       IF listed[d].at = "listed"
                       THEN [listed[d] EXCEPT !.at = "start"] ELSE listed[d]]]
  BY DEF PrepareCall
<1>7. /\ fiber'[w].at \in {"done", "prepare", "join"}
      /\ fiber'[w].turn = fiber[w].turn /\ fiber'[w].hook = fiber[w].hook
      /\ fiber'[w].next = fiber[w].next /\ fiber'[w].round = fiber[w].round
      /\ \A b \in Agents : b # w => fiber'[b] = fiber[b]
  <2>1. CASE Goto(w, "done") \/ Goto(w, "join")
    BY <1>0, <1>2, <2>1, GotoIs
  <2>2. CASE fiber' = [fiber EXCEPT ![w].index = fiber[w].index + 1]
    <3>1. fiber'[w] = [fiber[w] EXCEPT !.index = fiber[w].index + 1]
      BY <1>2, <1>5, <2>2
    <3> QED
      BY <1>1, <1>2, <1>5, <2>2, <3>1 DEF Fibers
  <2> QED
    BY <1>6, <2>1, <2>2
<1>8. \A b \in Workers, c \in Calls : b # w => task'[b][c] = task[b][c]
  BY <1>5, <1>6 DEF NoTasks
<1>9. Engaged(w)'
  <2>1. ~session'.terminal => ~session.terminal /\ Pending' = Pending
    BY <1>0, <1>3, CalmKeepsTurn
  <2>2. HasFrame(w)' /\ (~session'.terminal \/ Halting')
    BY <1>1, <1>2, <1>4, <1>7 DEF Serving, HasFrame, Turn
  <2> QED
    BY <1>1, <1>2, <1>4, <1>7, <2>1, <2>2, ServingGoesOn
<1>10. ASSUME NEW c \in Calls PROVE TaskFits(w, c)'
  <2>1. /\ TaskFits(w, c)
        /\ task[w][c].at \in Underway \cup {"stopped", "error"} => Halting
    BY <1>0, <1>1, <1>2, InTurnTasks
  <2>2. CASE NoTasks(w)
    <3>1. task'[w][c] = NoTask
      BY <1>5, <2>2 DEF NoTasks
    <3> QED
      BY <3>1, NoTaskFits
  <2>3. CASE ~ShouldStop /\ ~NoTasks(w)
    <3>1. ~Halting /\ ~Halting'
      BY <1>4, <2>3 DEF ShouldStop, Halting
    <3>2. task[w][c].at \notin Underway \cup {"stopped", "error"}
      BY <2>1, <3>1
    <3>3. listed[c] = IF c = call THEN k ELSE task[w][c]
      BY <1>5
    <3>4. /\ listed[c].at \notin Underway \cup {"stopped", "error"}
          /\ listed[c].at = "listed" => listed[c].turn = fiber[w].turn
          /\ listed[c].at = "listed" /\ ~listed[c].known => c \notin session.results
      <4>1. CASE c = call
        <5>1. listed[c].at = "listed" /\ listed[c].turn = fiber[w].turn
              /\ listed[c].known = (call \in session.results)
          BY <3>3, <4>1 DEF Turn
        <5> QED
          BY <4>1, <5>1 DEF Underway
      <4>2. CASE c # call
        <5>1. listed[c] = task[w][c]
          BY <3>3, <4>2
        <5> HIDE DEF listed
        <5> QED
          BY <1>1, <2>1, <3>2, <5>1 DEF TaskFits, Uncommitted
      <4> QED
        BY <4>1, <4>2
    <3>5. listed[c] \in Tasks
      <4>1. k \in Tasks
        BY <1>1, <1>2, <1>0, AgentsAreTyped DEF Tasks, Statuses, SomeTurn, Turn
      <4> QED
        BY <1>5, <3>3, <4>1
    <3> HIDE DEF listed
    <3>6. CASE task'[w] = listed /\ fiber'[w].at = "prepare"
      BY <1>4, <1>7, <3>1, <3>4, <3>6 DEF TaskFits, Uncommitted, Underway
    <3>7. CASE /\ task'[w][c] = IF listed[c].at = "listed"
                                THEN [listed[c] EXCEPT !.at = "start"] ELSE listed[c]
               /\ fiber'[w].at = "join"
      <4>1. CASE listed[c].at = "listed"
        <5>1. task'[w][c].at = "start" /\ task'[w][c].turn = fiber[w].turn
              /\ task'[w][c].known = listed[c].known
          BY <3>4, <3>5, <3>7, <4>1 DEF Tasks
        <5> QED
          BY <1>4, <1>7, <3>4, <3>7, <4>1, <5>1 DEF TaskFits, Uncommitted, Underway
      <4>2. CASE listed[c].at # "listed"
        BY <3>4, <3>7, <4>2 DEF TaskFits, Uncommitted, Underway
      <4> QED
        BY <4>1, <4>2
    <3>8. Goto(w, "join") => fiber'[w].at = "join"
      BY <1>0, <1>2, GotoIs
    <3>9. \/ task'[w] = listed /\ fiber'[w].at = "prepare"
          \/ /\ task'[w][c] = IF listed[c].at = "listed"
                              THEN [listed[c] EXCEPT !.at = "start"] ELSE listed[c]
             /\ fiber'[w].at = "join"
      <4>1. CASE fiber' = [fiber EXCEPT ![w].index = fiber[w].index + 1]
                 /\ task' = [task EXCEPT ![w] = listed]
        <5>1. fiber'[w].at = "prepare"
          BY <1>1, <1>2, <1>5, <4>1 DEF Fibers
        <5> QED
          BY <1>5, <4>1, <5>1
      <4>2. CASE /\ Goto(w, "join")
                 /\ task' = [task EXCEPT ![w] = [d \in Calls |->
                               IF listed[d].at = "listed"
                               THEN [listed[d] EXCEPT !.at = "start"] ELSE listed[d]]]
        BY <1>5, <3>8, <4>2
      <4> QED
        BY <1>6, <2>3, <4>1, <4>2
    <3> QED
      BY <3>6, <3>7, <3>9
  <2> QED
    BY <1>6, <2>2, <2>3
<1>11. ControlFits'
  BY <1>4, ControlStays DEF Orderly
<1> QED
  BY <1>1, <1>2, <1>4, <1>7, <1>8, <1>9, <1>10, <1>11, WorkerStep

\* What a worker that serves a turn leaves as it was.
LEMMA ServingStep ==
    ASSUME Known, Orderly, NEW w \in Workers, PrepareCall(w) \/ Join(w) \/ EndTurn(w)
    PROVE  /\ TInv /\ Typed /\ up /\ up'
           /\ w \in Agents /\ ~AtRest(w) /\ Engaged(w)
           /\ fiber[w].hook # "completion" /\ Serving(w)
           /\ fiber \in [Agents -> Fibers] /\ fiber[w] \in Fibers
           /\ task \in [Workers -> [Calls -> Tasks]]
           /\ Pending' = Pending /\ session'.terminal = session.terminal
<1>0. TInv /\ Typed
  BY DEF Known, TInv
<1>1. fiber[w].at \in {"prepare", "join", "done"} /\ up /\ up' /\ UNCHANGED journal
  <2>1. UNCHANGED <<store, daemon>> /\ up /\ fiber[w].at \in {"prepare", "join", "done"}
    BY DEF PrepareCall, Join, EndTurn, At
  <2> QED
    BY <2>1 DEF daemon, store
<1>2. session'.terminal = session.terminal
  <2>1. CASE UNCHANGED session
    BY <2>1
  <2>2. CASE EndTurn(w)
    <3>1. PICK q : session' = [session EXCEPT !.pending = NoTurn, !.active = FALSE, !.queued = q]
      BY <2>2 DEF EndTurn
    <3> QED
      BY <1>0, <3>1 DEF Typed, SessionOK, Sessions
  <2> QED
    BY <2>1, <2>2 DEF PrepareCall, Join
<1>3. w \in Agents /\ ~AtRest(w) /\ Engaged(w) /\ fiber[w].hook # "completion" /\ Serving(w)
  BY <1>0, <1>1, InTurnServes
<1>4. /\ fiber \in [Agents -> Fibers] /\ fiber[w] \in Fibers
      /\ task \in [Workers -> [Calls -> Tasks]]
  BY <1>0, <1>3 DEF Typed, FiberOK, TaskOK
<1>5. Pending' = Pending
  BY <1>1, UnchangedJournal
<1> QED
  BY <1>0, <1>1, <1>2, <1>3, <1>4, <1>5

LEMMA JoinTurns ==
    ASSUME Known, Orderly, NEW w \in Workers, Join(w)
    PROVE  Orderly'
<1> DEFINE unfinished == {i \in DOMAIN Frame(w) : task[w][Frame(w)[i]].at # "ok"}
           first == CHOOSE i \in unfinished : \A j \in unfinished : i <= j
<1>0. /\ TInv /\ Typed /\ up /\ up'
      /\ w \in Agents /\ ~AtRest(w) /\ Engaged(w)
      /\ fiber[w].hook # "completion" /\ Serving(w)
      /\ fiber \in [Agents -> Fibers] /\ fiber[w] \in Fibers
      /\ task \in [Workers -> [Calls -> Tasks]]
      /\ Pending' = Pending
  BY ServingStep
<1>1. fiber[w].at = "join" /\ UNCHANGED session
  BY DEF Join, At
<1>2. SameControl /\ session'.terminal = session.terminal /\ Halting' = Halting
  BY <1>1 DEF SameControl, Halting
<1>3. \/ /\ fiber' = [fiber EXCEPT ![w].at = "top", ![w].round = @ + 1]
         /\ NoTasks(w)
      \/ /\ UNCHANGED task /\ Halting
         /\ Goto(w, "done") \/ Goto(w, "failed")
  <2>1. CASE unfinished = {}
    BY <2>1 DEF Join
  <2>2. CASE unfinished # {}
    <3>1. UNCHANGED task /\ \/ task[w][Frame(w)[first]].at = "stopped" /\ Goto(w, "done")
                            \/ task[w][Frame(w)[first]].at = "error" /\ Goto(w, "failed")
      BY <2>2 DEF Join
    <3>2. Frame(w) \in Seq(Calls)
      BY <1>0, <1>1, FrameIsTyped DEF Serving
    <3>3. unfinished \in SUBSET Nat
      BY <3>2
    <3>4. \E i \in unfinished : \A j \in unfinished : i <= j
      BY <2>2, <3>3, LeastExists
    <3>5. first \in unfinished
      BY <3>4
    <3>6. Frame(w)[first] \in Calls
      BY <3>2, <3>5
    <3> QED
      BY <1>0, <3>1, <3>6, InTurnTasks
  <2> QED
    BY <2>1, <2>2
<1>4. /\ fiber'[w].at \in {"top", "done", "failed"}
      /\ fiber'[w].turn = fiber[w].turn /\ fiber'[w].hook = fiber[w].hook
      /\ fiber'[w].next = fiber[w].next
      /\ \A b \in Agents : b # w => fiber'[b] = fiber[b]
  <2>1. CASE fiber' = [fiber EXCEPT ![w].at = "top", ![w].round = @ + 1]
    <3>1. fiber'[w] = [fiber[w] EXCEPT !.at = "top", !.round = fiber[w].round + 1]
      BY <1>0, <2>1
    <3> QED
      BY <1>0, <2>1, <3>1 DEF Fibers
  <2>2. CASE Goto(w, "done") \/ Goto(w, "failed")
    BY <1>0, <2>2, GotoIs
  <2> QED
    BY <1>3, <2>1, <2>2
<1>5. \A b \in Workers, c \in Calls : b # w => task'[b][c] = task[b][c]
  BY <1>0, <1>3 DEF NoTasks
<1>6. Engaged(w)'
  BY <1>0, <1>1, <1>2, <1>4, ServingGoesOn
<1>7. ASSUME NEW c \in Calls PROVE TaskFits(w, c)'
  <2>1. CASE NoTasks(w)
    <3>1. task'[w][c] = NoTask
      BY <1>0, <2>1 DEF NoTasks
    <3> QED
      BY <3>1, NoTaskFits
  <2>2. CASE UNCHANGED task /\ Halting
    BY <1>0, <1>1, <1>2, <1>4, <2>2, InTurnTasks, TaskKept
  <2> QED
    BY <1>3, <2>1, <2>2
<1>8. ControlFits'
  BY <1>2, ControlStays DEF Orderly
<1> QED
  BY <1>0, <1>2, <1>4, <1>5, <1>6, <1>7, <1>8, WorkerStep

LEMMA EndTurns ==
    ASSUME Known, Orderly, NEW w \in Workers, EndTurn(w)
    PROVE  Orderly'
<1> DEFINE goesOn == ~session.cancelled /\ ~session.closed /\ session.queued # <<>>
<1>0. /\ TInv /\ Typed /\ up /\ up'
      /\ w \in Agents /\ ~AtRest(w) /\ Engaged(w)
      /\ fiber[w].hook # "completion" /\ Serving(w)
      /\ fiber \in [Agents -> Fibers] /\ fiber[w] \in Fibers
      /\ task \in [Workers -> [Calls -> Tasks]]
      /\ Pending' = Pending /\ session'.terminal = session.terminal
  BY ServingStep
<1>1. fiber[w].at = "done" /\ UNCHANGED task
  BY DEF EndTurn, At
<1>2. PICK q : session' = [session EXCEPT !.pending = NoTurn, !.active = FALSE, !.queued = q]
  BY DEF EndTurn
<1>3. /\ session'.pending = NoTurn /\ session'.cancelled = session.cancelled
      /\ session'.closed = session.closed /\ Halting' = Halting
  BY <1>0, <1>2 DEF Typed, SessionOK, Sessions, Halting
<1>4. PICK n : /\ fiber' = [fiber EXCEPT ![w].at = "hook", ![w].hook = "completion", ![w].next = n]
               /\ n # NoTurn => ~Halting
  <2>1. fiber' = [fiber EXCEPT ![w].at = "hook", ![w].hook = "completion",
                    ![w].next = IF goesOn THEN Head(session.queued) ELSE NoTurn]
    BY DEF EndTurn
  <2> QED
    BY <2>1 DEF Halting
<1>5. /\ fiber'[w].at = "hook" /\ fiber'[w].turn = fiber[w].turn
      /\ fiber'[w].hook = "completion" /\ fiber'[w].next = n
      /\ \A b \in Agents : b # w => fiber'[b] = fiber[b]
  <2>1. fiber'[w] = [fiber[w] EXCEPT !.at = "hook", !.hook = "completion", !.next = n]
    BY <1>0, <1>4
  <2> QED
    BY <1>0, <1>4, <2>1 DEF Fibers
<1>6. n # NoTurn => Clean(w)'
  <2>1. ASSUME n # NoTurn, NEW b \in Workers, NEW c \in Calls PROVE task[b][c].at \notin Underway
    <3>1. CASE b = w
      BY <1>0, <1>1, <1>4, <2>1, <3>1, InTurnTasks
    <3>2. CASE b # w
      <4>1. AtRest(b) /\ TaskFits(b, c)
        BY <1>0, <3>2, OthersRest DEF Orderly, TasksFit, Agents
      <4> QED
        BY <1>4, <2>1, <4>1, RestPlaces DEF TaskFits
    <3> QED
      BY <3>1, <3>2
  <2>2. ASSUME n # NoTurn, NEW c \in Calls PROVE task[w][c].at \notin {"stopped", "error"}
    BY <1>0, <1>4, <2>2, InTurnTasks
  <2> QED
    BY <1>1, <2>1, <2>2 DEF Clean
<1>7. AtRest(w)' \/ Engaged(w)'
  <2>1. CASE HookKinds = {} /\ n = NoTurn
    BY <1>5, <2>1 DEF AtRest
  <2>2. CASE HookKinds # {} \/ n # NoTurn
    <3>1. Leaving(w)'
      BY <1>3, <1>5, <1>6, <2>2 DEF Leaving
    <3>2. fiber[w].at # "read"
      BY <1>1
    <3> QED
      BY <1>0, <1>5, <3>1, <3>2 DEF Engaged
  <2> QED
    BY <2>1, <2>2
<1>8. ASSUME NEW c \in Calls PROVE TaskFits(w, c)'
  BY <1>0, <1>1, <1>3, <1>5, InTurnTasks, TaskKept
<1>9. ControlFits'
  BY <1>0, <1>3 DEF ControlFits, Orderly
<1> QED
  BY <1>0, <1>1, <1>3, <1>5, <1>7, <1>8, <1>9, WorkerStep

\* Whoever has a turn to go on with has left its own behind.
LEMMA NextLeaves ==
    ASSUME TInv, Orderly, NEW w \in Workers, fiber[w].at = "next"
    PROVE  /\ w \in Agents /\ ~AtRest(w) /\ Engaged(w)
           /\ fiber[w].hook = "completion" /\ Leaving(w) /\ Clean(w)
           /\ fiber[w].next \in Turns
<1>1. w \in Agents /\ ~AtRest(w)
  BY DEF Agents, AtRest
<1>2. Engaged(w)
  BY <1>1 DEF Orderly, AgentsFit
<1>3. fiber[w].next # NoTurn /\ fiber[w] \in Fibers
  BY <1>1, AgentsAreTyped
<1> QED
  BY <1>1, <1>2, <1>3 DEF Engaged, Serving, Leaving, Fibers

LEMMA CleanTasks ==
    ASSUME TInv, Orderly, NEW w \in Workers, Clean(w), fiber[w].at # "prepare", NEW c \in Calls
    PROVE  task[w][c].at \in {"none", "ok"}
<1>1. task[w][c].at \in Statuses
  BY TasksAreTyped DEF Tasks
<1>2. TaskFits(w, c)
  BY DEF Orderly, TasksFit
<1> QED
  BY <1>1, <1>2 DEF Statuses, Clean, Underway, TaskFits

LEMMA DoneTaskFits ==
    ASSUME NEW w \in Workers, NEW c \in Calls, task'[w][c].at \in {"none", "ok"}
    PROVE  TaskFits(w, c)'
  BY DEF TaskFits, Underway, Uncommitted

\* The turn that is accepted is the journal's and the session's.
LEMMA AcceptIs ==
    ASSUME TInv, NEW a \in Agents, NEW t \in Turns, AcceptIn(a, t)
    PROVE  /\ Pending' = t /\ session'.pending = t
           /\ session'.active /\ ~session'.cancelled /\ ~session'.terminal
           /\ session'.closed = session.closed
           /\ fiber'[a].at = "hook" /\ fiber'[a].hook = "acceptance"
           /\ fiber'[a].turn = t /\ fiber'[a].next = NoTurn
           /\ \A b \in Agents : b # a => fiber'[b] = fiber[b]
<1>1. /\ Log(Event("accept", t, NoCall))
      /\ session' = [session EXCEPT !.keys = @ \cup {t}, !.pending = t, !.active = TRUE,
                                    !.cancelled = FALSE, !.terminal = FALSE]
      /\ fiber' = [fiber EXCEPT ![a] = [Idle EXCEPT !.at = "hook", !.turn = t,
                                                    !.hook = "acceptance"]]
  BY DEF AcceptIn
<1> DEFINE record == Event("accept", t, NoCall)
<1>2. record \in Record /\ Log(record) /\ record.event = "accept" /\ record.turn = t
  BY <1>1, EventsAreRecords DEF Event
<1> HIDE DEF record
<1>3. Pending' = t
  BY <1>2, MarksGrow DEF TInv, Typed
<1>4. fiber \in [Agents -> Fibers]
  BY DEF TInv, Typed, FiberOK
<1>5. fiber'[a] = [Idle EXCEPT !.at = "hook", !.turn = t, !.hook = "acceptance"]
  BY <1>1, <1>4
<1>6. \A b \in Agents : b # a => fiber'[b] = fiber[b]
  BY <1>1, <1>4
<1>7. /\ session'.pending = t /\ session'.active /\ ~session'.cancelled /\ ~session'.terminal
      /\ session'.closed = session.closed
  BY <1>1 DEF TInv, Typed, SessionOK, Sessions
<1> QED
  BY <1>3, <1>5, <1>6, <1>7 DEF Idle

\* Who accepts a turn serves it, and stands alone.
LEMMA AcceptServes ==
    ASSUME TInv, ~session.closed, NEW a \in Agents, NEW t \in Turns, AcceptIn(a, t)
    PROVE  Engaged(a)' /\ ControlFits' /\ ~Halting'
<1>1. /\ Pending' = t /\ session'.active /\ ~Halting'
      /\ fiber'[a].at = "hook" /\ fiber'[a].hook = "acceptance"
      /\ fiber'[a].turn = t /\ fiber'[a].next = NoTurn
      /\ ~session'.cancelled /\ ~session'.terminal
  BY AcceptIs DEF Halting
<1>2. Serving(a)'
  BY <1>1 DEF Serving
<1>3. Engaged(a)'
  BY <1>1, <1>2 DEF Engaged
<1> QED
  BY <1>1, <1>3 DEF ControlFits

LEMMA QueueTurns ==
    ASSUME Known, Orderly, NEW w \in Workers, TakeQueued(w)
    PROVE  Orderly'
<1>0. TInv /\ Typed
  BY DEF Known, TInv
<1>1. fiber[w].at = "next" /\ up /\ up' /\ UNCHANGED task
  <2>1. UNCHANGED <<disk, daemon, task>> /\ up /\ fiber[w].at = "next"
    BY DEF TakeQueued, At
  <2> QED
    BY <2>1 DEF daemon
<1>2. /\ w \in Agents /\ ~AtRest(w) /\ Engaged(w)
      /\ fiber[w].hook = "completion" /\ Leaving(w) /\ Clean(w)
      /\ fiber[w].next \in Turns
  BY <1>0, <1>1, NextLeaves
<1>3. \A b \in Workers, c \in Calls : task[b][c].at \notin Underway
  BY <1>2 DEF Clean
<1>4. ASSUME NEW c \in Calls PROVE TaskFits(w, c)'
  <2>1. task'[w][c].at \in {"none", "ok"}
    BY <1>0, <1>1, <1>2, CleanTasks
  <2> QED
    BY <2>1, DoneTaskFits
<1>5. CASE AcceptIn(w, fiber[w].next) /\ ~session.closed
  <2>1. Engaged(w)' /\ ControlFits'
    BY <1>0, <1>2, <1>5, AcceptServes
  <2>2. \A b \in Agents : b # w => fiber'[b] = fiber[b]
    BY <1>0, <1>2, <1>5, AcceptIs
  <2> QED
    BY <1>1, <1>2, <1>3, <1>4, <2>1, <2>2, WorkerStep
<1>6. ASSUME NEW there \in {"read", "failed"}, Goto(w, there), UNCHANGED <<store, session>>
      PROVE  Orderly'
  <2>1. /\ fiber'[w].at \in {"read", "failed"} /\ fiber'[w].turn = fiber[w].turn
        /\ fiber'[w].hook = "completion" /\ fiber'[w].next = fiber[w].next
        /\ \A b \in Agents : b # w => fiber'[b] = fiber[b]
    BY <1>0, <1>2, <1>6, GotoIs
  <2>2. Pending' = Pending
    BY <1>6, UnchangedJournal DEF store
  <2>3. Clean(w)'
    BY <1>1, <1>2 DEF Clean
  <2>4. Leaving(w)'
    BY <1>2, <1>6, <2>1, <2>3 DEF Leaving
  <2>5. Engaged(w)'
    BY <1>1, <1>2, <1>6, <2>1, <2>2, <2>4 DEF Engaged
  <2>6. ControlFits'
    BY <1>6 DEF Orderly, ControlFits, Halting
  <2> QED
    BY <1>1, <1>2, <1>3, <1>4, <2>1, <2>5, <2>6, WorkerStep
<1> QED
  BY <1>5, <1>6 DEF TakeQueued

LEMMA FailTurns ==
    ASSUME Known, Orderly, NEW w \in Workers, WorkerFails(w)
    PROVE  Orderly'
<1>0. TInv /\ Typed
  BY DEF Known, TInv
<1>1. fiber[w].at = "failed" /\ up /\ up' /\ UNCHANGED task
  <2>1. UNCHANGED <<disk, daemon, task>> /\ up /\ fiber[w].at = "failed"
    BY DEF WorkerFails, At
  <2> QED
    BY <2>1 DEF daemon
<1>2. w \in Agents /\ ~AtRest(w) /\ fiber \in [Agents -> Fibers]
  BY <1>0, <1>1 DEF AtRest, Agents, Typed, FiberOK
<1>3. fiber' = [fiber EXCEPT ![w] = Idle]
  BY DEF WorkerFails
<1>4. fiber'[w] = Idle /\ \A b \in Agents : b # w => fiber'[b] = fiber[b]
  BY <1>2, <1>3
<1>5. fiber'[w].at = "idle" /\ AtRest(w)'
  BY <1>4 DEF Idle, AtRest
<1>6. session' = [session EXCEPT !.terminal = TRUE, !.active = FALSE]
  BY DEF WorkerFails
<1>7. /\ session'.pending = session.pending /\ session'.cancelled = session.cancelled
      /\ session'.closed = session.closed /\ Halting' = Halting /\ session'.terminal
  BY <1>0, <1>6 DEF Typed, SessionOK, Sessions, Halting
<1>8. ControlFits'
  BY <1>7 DEF Orderly, ControlFits
<1>9. ASSUME NEW c \in Calls PROVE TaskFits(w, c)'
  BY <1>0, <1>1, <1>2, <1>5, <1>7, InTurnTasks, TaskKept
<1> QED
  BY <1>1, <1>2, <1>4, <1>5, <1>7, <1>8, <1>9, WorkerStep

LEMMA WorkTurns ==
    ASSUME Known, Orderly, NEW w \in Workers, Work(w)
    PROVE  Orderly'
  BY ModelTurns, ReadTurns, PrepareTurns, JoinTurns, EndTurns, QueueTurns, FailTurns DEF Work

-----------------------------------------------------------------------------
(* Hooks.                                                                  *)

\* The only agent that is not at rest moves, or is set to work.
LEMMA LoneMoves ==
    ASSUME NEW a \in Agents, AtRest(a)' \/ Engaged(a)',
           \A b \in Agents : b # a => AtRest(b) /\ fiber'[b] = fiber[b]
    PROVE  OneAtWork' /\ AgentsFit'
<1>1. ASSUME NEW b \in Agents, b # a PROVE AtRest(b)'
  BY <1>1 DEF AtRest
<1> QED
  BY <1>1 DEF OneAtWork, AgentsFit

LEMMA RpcStep ==
    ASSUME Orderly, \A b \in Workers : AtRest(b) /\ fiber'[b] = fiber[b],
           AtRest(Rpc)' \/ Engaged(Rpc)', UNCHANGED task,
           \/ Halting' \/ ~Halting
           \/ \A b \in Workers, c \in Calls : task[b][c].at \notin Underway,
           ControlFits', up'
    PROVE  Orderly'
<1>1. Rpc \in Agents /\ \A b \in Agents : b # Rpc => b \in Workers
  BY DEF Agents
<1>2. OneAtWork' /\ AgentsFit'
  BY <1>1, LoneMoves
<1>3. ASSUME NEW b \in Workers, NEW c \in Calls PROVE TaskFits(b, c)'
  <2>1. TaskFits(b, c) /\ AtRest(b) /\ AtRest(b)'
    BY DEF Orderly, TasksFit, AtRest
  <2>2. task[b][c].at \in Underway => Halting'
    BY <2>1, RestPlaces DEF TaskFits
  <2> QED
    BY <2>1, <2>2, RestTaskKept
<1> QED
  BY <1>2, <1>3 DEF Orderly, TasksFit, DownIsEmpty

\* A worker is spawned when no other is at work.
LEMMA SpawnStep ==
    ASSUME TInv, Orderly, NEW w \in Workers, Spawn(w), \A b \in Workers : AtRest(b),
           session'.active \/ Halting',
           \A b \in Workers, c \in Calls : task[b][c].at \in Underway => Halting',
           session'.terminal = session.terminal,
           ControlFits', up'
    PROVE  Orderly'
<1>1. fiber \in [Agents -> Fibers] /\ task \in [Workers -> [Calls -> Tasks]]
      /\ w \in Agents /\ Rpc \in Agents /\ Rpc \notin Workers
  BY HarnessAssumption DEF TInv, Typed, FiberOK, TaskOK, Agents
<1>2. fiber' = [fiber EXCEPT ![w] = [Idle EXCEPT !.at = "read"], ![Rpc] = Idle]
  BY DEF Spawn
<1>3. /\ fiber'[w] = [Idle EXCEPT !.at = "read"] /\ fiber'[Rpc] = Idle
      /\ \A b \in Workers : b # w => fiber'[b] = fiber[b]
  BY <1>1, <1>2 DEF Agents
<1>4. AtRest(Rpc)'
  BY <1>3 DEF AtRest, Idle
<1>5. \A b \in Workers : b # w => AtRest(b)'
  BY <1>3 DEF AtRest
<1>6. Engaged(w)'
  <2>1. fiber'[w].at = "read" /\ fiber'[w].hook = "none" /\ fiber'[w].next = NoTurn
    BY <1>3 DEF Idle
  <2>2. Serving(w)'
    BY <2>1 DEF Serving
  <2> QED
    BY <2>1, <2>2 DEF Engaged
<1>7. OneAtWork' /\ AgentsFit'
  BY <1>4, <1>5, <1>6 DEF OneAtWork, AgentsFit, Agents
<1>8. ASSUME NEW b \in Workers, NEW c \in Calls PROVE TaskFits(b, c)'
  <2>1. CASE b = w
    <3>1. task'[b][c] = NoTask
      BY <1>1, <2>1 DEF Spawn, NoTasks
    <3> QED
      BY <3>1, NoTaskFits
  <2>2. CASE b # w
    <3>1. task'[b][c] = task[b][c]
      BY <1>1, <2>2 DEF Spawn, NoTasks
    <3>2. TaskFits(b, c)
      BY DEF Orderly, TasksFit
    <3> QED
      BY <1>5, <2>2, <3>1, <3>2, RestTaskKept
  <2> QED
    BY <2>1, <2>2
<1> QED
  BY <1>7, <1>8 DEF Orderly, TasksFit, DownIsEmpty

\* What is under way while its worker rests finds that it should stop.
LEMMA RestHalts ==
    ASSUME Orderly, NEW w \in Workers, AtRest(w), NEW c \in Calls,
           task[w][c].at \in Underway \cup {"listed"}
    PROVE  Halting /\ task[w][c].at # "listed"
  BY RestPlaces DEF Orderly, TasksFit, TaskFits

\* What a hook's end, or its failure, is to the session.
LEMMA HookEffects ==
    ASSUME Known, NEW a \in Agents, RunHook(a)
    PROVE  /\ TInv /\ Typed /\ up /\ up'
           /\ fiber[a].at \in {"hook", "fired"} /\ fiber[a].hook \in {"acceptance", "completion"}
           /\ SameControl /\ session'.results = session.results
           /\ session'.terminal = session.terminal /\ Halting' = Halting
           /\ ~session.terminal => Pending' = Pending
           /\ \/ AfterHook(a)
              \/ HookKinds # {} /\ (HookError(a) \/ (Goto(a, "fired") /\ UNCHANGED task))
<1>0. TInv /\ Typed
  BY DEF Known, TInv
<1>1. /\ fiber[a].at \in {"hook", "fired"} /\ up /\ UNCHANGED daemon
      /\ \/ UNCHANGED session
         \/ session' = [session EXCEPT !.hooks = @ \cup {ThisHook(a)}]
  <2>1. CASE SkipHook(a) \/ FireHook(a)
    BY <2>1 DEF SkipHook, FireHook, At
  <2>2. CASE HookEnds(a)
    BY <2>2 DEF HookEnds, At
  <2> QED
    BY <2>1, <2>2 DEF RunHook
<1>2. up'
  BY <1>1 DEF daemon
<1>3. fiber[a].hook \in {"acceptance", "completion"} /\ (fiber[a].at = "fired" => HookKinds # {})
  BY <1>0, <1>1, AgentsAreTyped DEF Fibers
<1>4. /\ SameControl /\ session'.results = session.results
      /\ session'.terminal = session.terminal
  BY <1>0, <1>1 DEF Typed, SessionOK, Sessions, SameControl
<1>5. Calm
  BY <1>0, HookMoves
<1>6. \/ AfterHook(a)
      \/ HookKinds # {} /\ (HookError(a) \/ (Goto(a, "fired") /\ UNCHANGED task))
  BY <1>3 DEF RunHook, SkipHook, FireHook, HookEnds, At
<1>7. Halting' = Halting
  BY <1>4 DEF SameControl, Halting
<1>8. ~session.terminal => Pending' = Pending
  BY <1>0, <1>4, <1>5, CalmKeepsTurn
<1> QED
  BY <1>0, <1>1, <1>2, <1>3, <1>4, <1>6, <1>7, <1>8

LEMMA RpcHookTurns ==
    ASSUME Known, Orderly, RunHook(Rpc)
    PROVE  Orderly'
<1>0. Rpc \in Agents /\ Rpc \notin Workers
  BY HarnessAssumption DEF Agents
<1>1. /\ TInv /\ Typed /\ up /\ up'
      /\ fiber[Rpc].at \in {"hook", "fired"}
      /\ SameControl /\ session'.terminal = session.terminal /\ Halting' = Halting
      /\ ~session.terminal => Pending' = Pending
      /\ \/ AfterHook(Rpc)
         \/ HookError(Rpc) \/ (Goto(Rpc, "fired") /\ UNCHANGED task)
  BY <1>0, HookEffects
<1>2. ~AtRest(Rpc)
  BY <1>0, <1>1 DEF AtRest
<1>3. Engaged(Rpc)
  BY <1>0, <1>2 DEF Orderly, AgentsFit
<1>4. fiber[Rpc].hook # "completion" /\ Serving(Rpc)
  BY <1>0, <1>3 DEF Engaged, Leaving
<1>5. \A b \in Workers : AtRest(b)
  BY <1>0, <1>2, OthersRest DEF Orderly, Agents
<1>6. ControlFits'
  BY <1>1, ControlStays DEF Orderly
<1>7. CASE AfterHook(Rpc)
  <2>1. PICK w \in Workers : Spawn(w)
    BY <1>7 DEF AfterHook
  <2>2. session'.active \/ Halting'
    BY <1>1, <1>4 DEF Serving, SameControl
  <2>3. \A b \in Workers, c \in Calls : task[b][c].at \in Underway => Halting'
    BY <1>1, <1>5, RestHalts
  <2> QED
    BY <1>1, <1>5, <1>6, <2>1, <2>2, <2>3, SpawnStep
<1>8. CASE HookError(Rpc)
  <2>1. fiber' = [fiber EXCEPT ![Rpc] = Idle] /\ UNCHANGED task
    BY <1>8 DEF HookError
  <2>2. fiber'[Rpc] = Idle /\ \A b \in Workers : fiber'[b] = fiber[b]
    BY <1>0, <1>1, <2>1 DEF Typed, FiberOK, Agents
  <2>3. AtRest(Rpc)'
    BY <2>2 DEF AtRest, Idle
  <2> QED
    BY <1>1, <1>5, <1>6, <2>1, <2>2, <2>3, RpcStep
<1>9. CASE Goto(Rpc, "fired") /\ UNCHANGED task
  <2>1. /\ fiber'[Rpc].at = "fired" /\ fiber'[Rpc].turn = fiber[Rpc].turn
        /\ fiber'[Rpc].hook = fiber[Rpc].hook /\ fiber'[Rpc].next = fiber[Rpc].next
        /\ \A b \in Workers : fiber'[b] = fiber[b]
    BY <1>0, <1>1, <1>9, GotoIs DEF Agents
  <2>2. fiber[Rpc].at # "read"
    BY <1>1
  <2>3. ~session'.terminal => ~session.terminal /\ Pending' = Pending
    BY <1>1
  <2>4. Engaged(Rpc)'
    BY <1>0, <1>1, <1>3, <1>4, <2>1, <2>2, <2>3, ServingGoesOn
  <2> QED
    BY <1>1, <1>5, <1>6, <1>9, <2>1, <2>4, RpcStep
<1> QED
  BY <1>1, <1>7, <1>8, <1>9

LEMMA SameTaskFits ==
    ASSUME NEW w \in Workers, NEW c \in Calls, TaskFits(w, c), fiber'[w] = fiber[w],
           task'[w][c] = task[w][c], Halting => Halting', session'.results = session.results
    PROVE  TaskFits(w, c)'
<1>1. AtRest(w) => AtRest(w)'
  BY DEF AtRest
<1> QED
  BY <1>1 DEF TaskFits, Uncommitted

\* A worker whose completion hook is not configured is done, whoever is at work.
LEMMA RestEnds ==
    ASSUME Orderly, NEW w \in Workers, AtRest(w), AtRest(w)',
           \A b \in Agents : b # w => fiber'[b] = fiber[b],
           UNCHANGED task, SameControl, session'.results = session.results,
           session'.terminal = session.terminal, ~session.terminal => Pending' = Pending, up'
    PROVE  Orderly'
<1>1. ASSUME NEW b \in Agents PROVE AtRest(b) => AtRest(b)'
  BY <1>1 DEF AtRest
<1>2. OneAtWork'
  BY <1>1 DEF Orderly, OneAtWork
<1>3. ASSUME NEW b \in Agents PROVE (AtRest(b) \/ Engaged(b))'
  <2>1. AtRest(b) \/ Engaged(b)
    BY DEF Orderly, AgentsFit
  <2>2. CASE ~AtRest(b)
    <3>1. fiber'[b] = fiber[b]
      BY <2>2
    <3> QED
      BY <2>1, <2>2, <3>1, EngagedStays
  <2> QED
    BY <1>1, <2>2
<1>4. Halting' = Halting
  BY DEF SameControl, Halting
<1>5. ASSUME NEW b \in Workers, NEW c \in Calls PROVE TaskFits(b, c)'
  <2>1. TaskFits(b, c)
    BY DEF Orderly, TasksFit
  <2>2. CASE b = w
    <3>1. task[w][c].at \in Underway => Halting'
      BY <1>4, RestHalts
    <3> QED
      BY <2>1, <2>2, <3>1, RestTaskKept
  <2>3. CASE b # w
    BY <1>4, <2>1, <2>3, SameTaskFits DEF Agents
  <2> QED
    BY <2>2, <2>3
<1>6. ControlFits'
  BY ControlStays DEF Orderly
<1> QED
  BY <1>2, <1>3, <1>5, <1>6 DEF Orderly, AgentsFit, TasksFit, DownIsEmpty

\* Where a hook leaves its worker.
LEMMA HookLeads ==
    ASSUME TInv, NEW w \in Workers, fiber[w].at \in {"hook", "fired"},
           fiber[w].hook \in {"acceptance", "completion"},
           \/ AfterHook(w)
           \/ HookKinds # {} /\ (HookError(w) \/ (Goto(w, "fired") /\ UNCHANGED task))
    PROVE  /\ UNCHANGED task
           /\ \/ HookKinds # {} /\ fiber'[w].at \in {"failed", "fired"}
              \/ fiber[w].hook = "acceptance" /\ fiber'[w].at = "read"
              \/ /\ fiber[w].hook = "completion"
                 /\ fiber'[w].at = IF fiber[w].next = NoTurn THEN "idle" ELSE "next"
           /\ fiber'[w].turn = fiber[w].turn /\ fiber'[w].hook = fiber[w].hook
           /\ fiber'[w].next = fiber[w].next
           /\ \A b \in Agents : b # w => fiber'[b] = fiber[b]
<1>1. w \in Agents /\ w # Rpc
  BY HarnessAssumption DEF Agents
<1>2. CASE AfterHook(w)
  <2>1. UNCHANGED task /\ \/ fiber[w].hook = "acceptance" /\ Goto(w, "read")
                          \/ /\ fiber[w].hook = "completion"
                             /\ Goto(w, IF fiber[w].next = NoTurn THEN "idle" ELSE "next")
    BY <1>1, <1>2 DEF AfterHook
  <2>2. CASE fiber[w].hook = "acceptance" /\ Goto(w, "read")
    BY <1>1, <2>1, <2>2, GotoIs
  <2>3. CASE /\ fiber[w].hook = "completion"
             /\ Goto(w, IF fiber[w].next = NoTurn THEN "idle" ELSE "next")
    BY <1>1, <2>1, <2>3, GotoIs
  <2> QED
    BY <2>1, <2>2, <2>3
<1>3. CASE HookKinds # {} /\ HookError(w)
  <2>1. Goto(w, "failed") /\ UNCHANGED task
    BY <1>1, <1>3 DEF HookError, Goto
  <2> QED
    BY <1>1, <1>3, <2>1, GotoIs
<1>4. CASE HookKinds # {} /\ Goto(w, "fired") /\ UNCHANGED task
  BY <1>1, <1>4, GotoIs
<1> QED
  BY <1>2, <1>3, <1>4

LEMMA WorkerHookTurns ==
    ASSUME Known, Orderly, NEW w \in Workers, RunHook(w)
    PROVE  Orderly'
<1>0. w \in Agents
  BY DEF Agents
<1>1. /\ TInv /\ up /\ up'
      /\ fiber[w].at \in {"hook", "fired"} /\ fiber[w].hook \in {"acceptance", "completion"}
      /\ SameControl /\ session'.results = session.results
      /\ session'.terminal = session.terminal /\ Halting' = Halting
      /\ ~session.terminal => Pending' = Pending
      /\ \/ AfterHook(w)
         \/ HookKinds # {} /\ (HookError(w) \/ (Goto(w, "fired") /\ UNCHANGED task))
  BY <1>0, HookEffects
<1>2. /\ UNCHANGED task
      /\ \/ HookKinds # {} /\ fiber'[w].at \in {"failed", "fired"}
         \/ fiber[w].hook = "acceptance" /\ fiber'[w].at = "read"
         \/ /\ fiber[w].hook = "completion"
            /\ fiber'[w].at = IF fiber[w].next = NoTurn THEN "idle" ELSE "next"
      /\ fiber'[w].turn = fiber[w].turn /\ fiber'[w].hook = fiber[w].hook
      /\ fiber'[w].next = fiber[w].next
      /\ \A b \in Agents : b # w => fiber'[b] = fiber[b]
  BY <1>1, HookLeads
<1>3. CASE AtRest(w)
  <2>1. HookKinds = {} /\ fiber[w].hook = "completion" /\ fiber[w].next = NoTurn
    BY <1>1, <1>3 DEF AtRest
  <2>2. AtRest(w)'
    BY <1>2, <2>1 DEF AtRest
  <2> QED
    BY <1>1, <1>2, <1>3, <2>2, RestEnds
<1>4. CASE ~AtRest(w)
  <2>1. Engaged(w) /\ fiber[w].at # "read"
    BY <1>0, <1>1, <1>4 DEF Orderly, AgentsFit
  <2>2. AtRest(w)' \/ Engaged(w)'
    <3>1. CASE fiber[w].hook = "completion"
      <4>1. Leaving(w)
        BY <2>1, <3>1 DEF Engaged
      <4>2. CASE fiber'[w].at = "idle"
        BY <4>2 DEF AtRest
      <4>3. CASE fiber'[w].at # "idle"
        <5>1. Clean(w) => Clean(w)'
          BY <1>2 DEF Clean
        <5>2. fiber'[w].at \in {"failed", "fired", "next"}
          BY <1>2, <3>1, <4>3
        <5>3. Leaving(w)'
          BY <1>1, <1>2, <4>1, <5>1, <5>2 DEF Leaving, SameControl
        <5> QED
          BY <1>1, <1>2, <2>1, <3>1, <5>3 DEF Engaged
      <4> QED
        BY <4>2, <4>3
    <3>2. CASE fiber[w].hook # "completion"
      <4>1. fiber'[w].at \in {"failed", "fired", "read"}
        BY <1>2, <3>2
      <4> QED
        BY <1>0, <1>1, <1>2, <2>1, <3>2, <4>1, ServingGoesOn
    <3> QED
      BY <3>1, <3>2
  <2>3. ASSUME NEW c \in Calls PROVE TaskFits(w, c)'
    <3>1. fiber'[w].at \notin {"prepare", "join"}
      BY <1>2
    <3> QED
      BY <1>1, <1>2, <1>4, <3>1, InTurnTasks, TaskKept
  <2>4. ControlFits'
    BY <1>1, ControlStays DEF Orderly
  <2> QED
    BY <1>1, <1>2, <1>4, <2>2, <2>3, <2>4, WorkerStep
<1> QED
  BY <1>3, <1>4

-----------------------------------------------------------------------------
(* Requests.                                                               *)

LEMMA SubmitTurns ==
    ASSUME Known, Orderly, "resubmit" \notin Faults, NEW t \in Turns, Submit(t)
    PROVE  Orderly'
<1>0. TInv /\ fiber[Rpc].at = "idle" /\ Rpc \in Agents /\ up /\ up' /\ UNCHANGED task
  <2>1. At(Rpc, "idle") /\ UNCHANGED <<daemon, task>>
    BY DEF Submit
  <2> QED
    BY <2>1 DEF Known, Agents, At, daemon
<1>1. AcceptIn(Rpc, t) /\ Patient /\ ~session.closed /\ ~session.active
  BY DEF Submit
<1>2. \/ \A w \in Workers : Free(w)
      \/ /\ ~Halting /\ HookKinds = {} /\ \A w \in Workers : fiber[w].next = NoTurn
  BY <1>1 DEF Patient, Halting
<1>3. ASSUME NEW w \in Workers PROVE AtRest(w)
  <2>1. CASE Free(w)
    BY <2>1 DEF Free, AtRest
  <2>2. CASE ~Halting /\ HookKinds = {} /\ fiber[w].next = NoTurn
    <3>1. ~Engaged(w)
      BY <1>1, <2>2 DEF Engaged, Leaving, Serving
    <3> QED
      BY <3>1 DEF Orderly, AgentsFit, Agents
  <2> QED
    BY <1>2, <2>1, <2>2
<1>4. ASSUME NEW w \in Workers, NEW c \in Calls PROVE task[w][c].at \notin Underway
  <2>1. CASE Free(w)
    BY <2>1 DEF Free, Live, Underway
  <2>2. CASE ~Halting
    BY <1>3, <2>2, RestHalts
  <2> QED
    BY <1>2, <2>1, <2>2
<1>5. Engaged(Rpc)' /\ ControlFits'
  BY <1>0, <1>1, AcceptServes
<1>6. \A b \in Workers : fiber'[b] = fiber[b]
  <2>1. \A b \in Agents : b # Rpc => fiber'[b] = fiber[b]
    BY <1>0, <1>1, AcceptIs
  <2> QED
    BY <2>1, HarnessAssumption DEF Agents
<1> QED
  BY <1>0, <1>3, <1>4, <1>5, <1>6, RpcStep

LEMMA ResumeTurns ==
    ASSUME Known, Orderly, Resume
    PROVE  Orderly'
<1>0. TInv /\ Typed /\ up /\ up'
  <2>1. At(Rpc, "idle") /\ UNCHANGED daemon
    BY DEF Resume
  <2> QED
    BY <2>1 DEF Known, TInv, At, daemon
<1>1. /\ session.pending # NoTurn /\ ~session.active
      /\ session' = [session EXCEPT !.active = TRUE, !.cancelled = FALSE]
  BY DEF Resume
<1>2. ~Halting
  BY <1>1 DEF Orderly, ControlFits
<1>3. ASSUME NEW w \in Workers PROVE AtRest(w)
  <2>1. ~Engaged(w)
    BY <1>1, <1>2 DEF Engaged, Leaving, Serving
  <2> QED
    BY <2>1 DEF Orderly, AgentsFit, Agents
<1>4. \A w \in Workers, c \in Calls : task[w][c].at \notin Underway
  BY <1>2, <1>3, RestHalts
<1>5. /\ session'.active /\ ~session'.cancelled /\ session'.closed = session.closed
      /\ session'.terminal = session.terminal
  BY <1>0, <1>1 DEF Typed, SessionOK, Sessions
<1>6. ControlFits'
  BY <1>2, <1>5 DEF ControlFits, Halting
<1>7. PICK w \in Workers : Spawn(w)
  BY DEF Resume
<1> QED
  BY <1>0, <1>3, <1>4, <1>5, <1>6, <1>7, SpawnStep

\* Nobody moves, and no more than the queue, or the tokens, change.
LEMMA NobodyMoves ==
    ASSUME Orderly, UNCHANGED <<fiber, task>>, SameControl, session'.results = session.results,
           session'.terminal = session.terminal, ~session.terminal => Pending' = Pending,
           up' = up
    PROVE  Orderly'
<1>1. ASSUME NEW a \in Agents PROVE AtRest(a)' = AtRest(a) /\ (Engaged(a) => Engaged(a)')
  BY EngagedStays DEF AtRest
<1>2. Halting' = Halting
  BY DEF SameControl, Halting
<1>3. ASSUME NEW w \in Workers, NEW c \in Calls PROVE TaskFits(w, c)'
  <2>1. TaskFits(w, c)
    BY DEF Orderly, TasksFit
  <2> QED
    BY <1>2, <2>1, SameTaskFits
<1>4. ControlFits'
  BY ControlStays DEF Orderly
<1>5. OneAtWork' /\ AgentsFit'
  BY <1>1 DEF Orderly, OneAtWork, AgentsFit
<1>6. DownIsEmpty'
  BY DEF Orderly, DownIsEmpty
<1> QED
  BY <1>3, <1>4, <1>5, <1>6 DEF Orderly, TasksFit

LEMMA QuietRequestTurns ==
    ASSUME Known, Orderly,
           \/ \E t \in Turns : Queue(t)
           \/ \E c \in Calls : Release(c)
           \/ UNCHANGED vars
    PROVE  Orderly'
<1>1. UNCHANGED <<fiber, task, up, journal>>
  <2>1. UNCHANGED <<fiber, task, daemon, store>>
    BY DEF Queue, Release, vars
  <2> QED
    BY <2>1 DEF daemon, store
<1>2. /\ SameControl /\ session'.results = session.results
      /\ session'.terminal = session.terminal
  <2>1. CASE UNCHANGED session
    BY <2>1 DEF SameControl
  <2>2. CASE \E t \in Turns : Queue(t)
    <3>1. PICK q : session' = [session EXCEPT !.queued = q]
      BY <2>2 DEF Queue
    <3> QED
      BY <3>1 DEF Known, TInv, Typed, SessionOK, Sessions, SameControl
  <2> QED
    BY <2>1, <2>2 DEF Release, vars
<1>3. Pending' = Pending
  BY <1>1, UnchangedJournal
<1> QED
  BY <1>1, <1>2, <1>3, NobodyMoves

LEMMA Notified ==
    ASSUME TInv, NotifyWaiters, NEW w \in Workers, NEW c \in Calls
    PROVE  /\ task'[w][c].turn = task[w][c].turn /\ task'[w][c].known = task[w][c].known
           /\ \/ task'[w][c].at = task[w][c].at
              \/ task[w][c].at = "waiting" /\ task'[w][c].at = "woken"
<1> DEFINE held == {d \in Calls : Waiting(d) # {}}
<1>1. PICK chosen \in [held -> Workers] :
        /\ \A d \in held : chosen[d] \in Waiting(d)
        /\ task' = [v \in Workers |-> [d \in Calls |->
                      IF d \in held /\ chosen[d] = v
                      THEN [task[v][d] EXCEPT !.at = "woken"] ELSE task[v][d]]]
  BY DEF NotifyWaiters
<1>2. task'[w][c] = IF c \in held /\ chosen[c] = w
                    THEN [task[w][c] EXCEPT !.at = "woken"] ELSE task[w][c]
  BY <1>1
<1>3. c \in held /\ chosen[c] = w => task[w][c].at = "waiting"
  BY <1>1 DEF Waiting
<1>4. task[w][c] \in Tasks
  BY TasksAreTyped
<1> HIDE DEF held
<1>5. CASE c \in held /\ chosen[c] = w
  <2>1. task'[w][c] = [task[w][c] EXCEPT !.at = "woken"]
    BY <1>2, <1>5
  <2> QED
    BY <1>3, <1>4, <1>5, <2>1 DEF Tasks
<1>6. CASE ~(c \in held /\ chosen[c] = w)
  BY <1>2, <1>6
<1> QED
  BY <1>5, <1>6

\* A session that is halted leaves everyone where it was, with a reason to stop.
LEMMA HaltTurns ==
    ASSUME Known, Orderly, Cancel \/ Close
    PROVE  Orderly'
<1>0. TInv /\ Typed /\ up'
  <2>1. up /\ UNCHANGED daemon
    BY DEF Cancel, Close, At
  <2> QED
    BY <2>1 DEF Known, TInv, daemon
<1>1. NotifyWaiters /\ UNCHANGED fiber
  BY DEF Cancel, Close
<1>2. /\ session'.pending = NoTurn /\ Halting' /\ session'.results = session.results
      /\ session'.terminal \/ session'.closed
      /\ ~session'.terminal => ~session.terminal /\ Pending' = Pending
  <2>1. Halted \in Sessions /\ Halted.pending = NoTurn /\ Halted.results = session.results
        /\ Halted.terminal = session.terminal
    <3>1. session \in Sessions /\ <<>> \in Seq(Turns) /\ NoTurn \in SomeTurn
      BY <1>0 DEF Typed, SessionOK, SomeTurn
    <3> QED
      BY <3>1 DEF Halted, Sessions
  <2>2. CASE Cancel
    <3>1. session' = [Halted EXCEPT !.terminal = TRUE]
      BY <2>2 DEF Cancel
    <3>2. session'.terminal /\ session'.cancelled /\ session'.pending = NoTurn
          /\ session'.results = session.results
      BY <2>1, <3>1 DEF Halted, Sessions
    <3> QED
      BY <3>2 DEF Halting
  <2>3. CASE Close
    <3>1. session' = [Halted EXCEPT !.closed = TRUE, !.keys = {}] /\ UNCHANGED journal
      BY <2>3 DEF Close, store
    <3>2. session'.terminal = session.terminal /\ session'.closed
          /\ session'.pending = NoTurn /\ session'.results = session.results
      BY <2>1, <3>1 DEF Sessions
    <3> QED
      BY <3>1, <3>2, UnchangedJournal DEF Halting
  <2> QED
    BY <2>2, <2>3
<1>3. \A w \in Workers, c \in Calls :
        /\ task'[w][c].turn = task[w][c].turn /\ task'[w][c].known = task[w][c].known
        /\ \/ task'[w][c].at = task[w][c].at
           \/ task[w][c].at = "waiting" /\ task'[w][c].at = "woken"
  BY <1>0, <1>1, Notified
<1>4. \A a \in Agents : AtRest(a)' = AtRest(a)
  BY <1>1 DEF AtRest
<1>5. ASSUME NEW a \in Agents, Engaged(a) PROVE Engaged(a)'
  <2>1. Leaving(a) => Leaving(a)'
    <3>1. a \in Workers /\ Clean(a) => Clean(a)'
      BY <1>3 DEF Clean, Underway
    <3> QED
      BY <1>1, <1>2, <3>1 DEF Leaving
  <2>2. Serving(a) => Serving(a)'
    BY <1>1, <1>2 DEF Serving, HasFrame, Turn
  <2> QED
    BY <1>1, <1>2, <1>5, <2>1, <2>2 DEF Engaged
<1>6. OneAtWork' /\ AgentsFit'
  BY <1>4, <1>5 DEF Orderly, OneAtWork, AgentsFit
<1>7. ASSUME NEW w \in Workers, NEW c \in Calls PROVE TaskFits(w, c)'
  <2>1. TaskFits(w, c)
    BY DEF Orderly, TasksFit
  <2>2. Uncommitted(w, c)' => Uncommitted(w, c)
    BY <1>3 DEF Uncommitted
  <2> QED
    BY <1>1, <1>2, <1>3, <2>1, <2>2 DEF TaskFits
<1>8. ControlFits'
  BY <1>2 DEF ControlFits
<1> QED
  BY <1>0, <1>6, <1>7, <1>8 DEF Orderly, TasksFit, DownIsEmpty

LEMMA RequestTurns ==
    ASSUME Known, Orderly, "resubmit" \notin Faults, Request
    PROVE  Orderly'
  BY SubmitTurns, ResumeTurns, QuietRequestTurns, HaltTurns DEF Request

-----------------------------------------------------------------------------
(* Tasks of calls.                                                         *)

\* A task that is under way belongs to the frame that is waited for, or the
\* session is halted; it is seen to be so by whether it should stop.
LEMMA LiveTask ==
    ASSUME TInv, Orderly, NEW w \in Workers, NEW c \in Calls, task[w][c].at \in Underway
    PROVE  /\ TaskFits(w, c)
           /\ Halting \/ /\ fiber[w].at = "join" /\ task[w][c].turn = fiber[w].turn
                         /\ w \in Agents /\ ~AtRest(w) /\ Engaged(w) /\ Serving(w)
                         /\ fiber[w].hook # "completion" /\ ~session.terminal
           /\ ShouldStop => Halting
<1>1. TaskFits(w, c)
  BY DEF Orderly, TasksFit
<1>2. CASE ~Halting
  <2>1. fiber[w].at = "join" /\ task[w][c].turn = fiber[w].turn
    BY <1>1, <1>2 DEF TaskFits
  <2>2. /\ w \in Agents /\ ~AtRest(w) /\ Engaged(w) /\ Serving(w)
        /\ fiber[w].hook # "completion"
    BY <2>1, InTurnServes
  <2>3. ~session.terminal
    BY <1>2, <2>1, <2>2 DEF Serving
  <2> QED
    BY <1>1, <1>2, <2>1, <2>2, <2>3 DEF ShouldStop, Halting
<1>3. CASE Halting
  BY <1>1, <1>3
<1> QED
  BY <1>2, <1>3

\* One task moves, and may commit its call.
LEMMA OneTask ==
    ASSUME TInv, Orderly, NEW w \in Workers, NEW c \in Calls, task[w][c].at \in Underway,
           UNCHANGED fiber, SameControl, session'.terminal = session.terminal,
           Pending' = Pending, up',
           \A b \in Workers, d \in Calls : b # w \/ d # c => task'[b][d] = task[b][d],
           \/ session'.results = session.results
           \/ session'.results = session.results \cup {c} /\ ~Halting,
           TaskFits(w, c)'
    PROVE  Orderly'
<1>1. \A a \in Agents : AtRest(a)' = AtRest(a)
  BY DEF AtRest
<1>2. Halting' = Halting
  BY DEF SameControl, Halting
<1>3. ASSUME NEW a \in Agents, Engaged(a) PROVE Engaged(a)'
  <2>1. ~Clean(a)
    BY DEF Clean
  <2>2. Leaving(a) => Leaving(a)'
    BY <2>1 DEF Leaving, SameControl
  <2>3. Serving(a) => Serving(a)'
    BY <1>2 DEF Serving, SameControl, HasFrame, Turn
  <2> QED
    BY <1>3, <2>2, <2>3 DEF Engaged
<1>4. OneAtWork' /\ AgentsFit'
  BY <1>1, <1>3 DEF Orderly, OneAtWork, AgentsFit
<1>5. ASSUME NEW b \in Workers, NEW d \in Calls, b # w \/ d # c PROVE TaskFits(b, d)'
  <2>1. TaskFits(b, d) /\ task'[b][d] = task[b][d]
    BY <1>5 DEF Orderly, TasksFit
  <2>2. CASE session'.results = session.results
    BY <1>2, <2>1, <2>2, SameTaskFits
  <2>3. CASE session'.results = session.results \cup {c} /\ ~Halting
    <3>1. b # w => fiber[b].at \notin {"prepare", "join"}
      <4>1. b # w => AtRest(b)
        BY <2>3, LiveTask, OthersRest DEF Orderly, Agents
      <4> QED
        BY <4>1, RestPlaces
    <3>2. fiber[b].at \in {"prepare", "join"} /\ d \notin session.results
            => d \notin session'.results
      BY <1>5, <2>3, <3>1
    <3>3. Uncommitted(b, d)' = Uncommitted(b, d) /\ AtRest(b)' = AtRest(b)
      BY <1>1, <2>1 DEF Uncommitted, Agents
    <3> QED
      BY <1>2, <2>1, <3>2, <3>3 DEF TaskFits
  <2> QED
    BY <2>2, <2>3
<1>6. \A b \in Workers, d \in Calls : TaskFits(b, d)'
  BY <1>5
<1>7. ControlFits'
  BY ControlStays DEF Orderly
<1> QED
  BY <1>4, <1>6, <1>7 DEF Orderly, TasksFit, DownIsEmpty

LEMMA TaskGotoIs ==
    ASSUME TInv, NEW w \in Workers, NEW c \in Calls, NEW there, TaskGoto(w, c, there)
    PROVE  /\ task'[w][c].at = there /\ task'[w][c].turn = task[w][c].turn
           /\ task'[w][c].known = task[w][c].known
           /\ \A b \in Workers, d \in Calls : b # w \/ d # c => task'[b][d] = task[b][d]
<1>1. task \in [Workers -> [Calls -> Tasks]]
  BY DEF TInv, Typed, TaskOK
<1>2. task'[w][c] = [task[w][c] EXCEPT !.at = there]
  BY <1>1 DEF TaskGoto
<1>3. task[w][c] \in Tasks
  BY <1>1
<1>4. ASSUME NEW b \in Workers, NEW d \in Calls, b # w \/ d # c PROVE task'[b][d] = task[b][d]
  BY <1>1, <1>4 DEF TaskGoto
<1> QED
  BY <1>2, <1>3, <1>4 DEF Tasks

\* Where a call's task goes.
LEMMA TaskLeads ==
    ASSUME TInv, Orderly, NEW w \in Workers, NEW c \in Calls, RunTask(w, c)
    PROVE  /\ task[w][c].at \in Underway /\ up /\ up'
           /\ \/ ShouldStop /\ TaskGoto(w, c, "stopped")
              \/ task[w][c].at = "woken" /\ TaskGoto(w, c, "error")
              \/ Uncommitted(w, c) /\ TaskGoto(w, c, "run")
              \/ /\ TaskGoto(w, c, "waiting")
                 /\ Checkpoint[c] = "before-effect" => Uncommitted(w, c)
              \/ TaskGoto(w, c, "ok")
              \/ Checkpoint[c] = "after-commit" /\ TaskGoto(w, c, "committed")
           /\ UNCHANGED fiber
           /\ \/ UNCHANGED <<journal, session>>
              \/ /\ Log(Event("result", task[w][c].turn, c)) /\ ~ShouldStop
                 /\ ~task[w][c].known /\ task[w][c].at = "run"
                 /\ session' = [session EXCEPT !.results = @ \cup {c}]
                 /\ TaskGoto(w, c, "ok") \/ TaskGoto(w, c, "committed")
<1>0. UNCHANGED up /\ UNCHANGED fiber
  <2>1. UNCHANGED daemon /\ UNCHANGED fiber
    BY DEF RunTask, StartTask, ReachCheckpoint, LeaveCheckpoint, CommitCall
  <2> QED
    BY <2>1 DEF daemon
<1>1. CASE StartTask(w, c)
  <2>1. task[w][c].at = "start" /\ TaskGoto(w, c, "run") /\ UNCHANGED <<journal, session>> /\ up
    BY <1>1 DEF StartTask, TaskAt, store
  <2> QED
    BY <1>0, <2>1 DEF Underway, Uncommitted
<1>2. CASE ReachCheckpoint(w, c)
  <2>1. /\ UNCHANGED <<journal, session>> /\ up
        /\ (ShouldStop /\ TaskGoto(w, c, "stopped")) \/ TaskGoto(w, c, "waiting")
    BY <1>2 DEF ReachCheckpoint, TaskAt, store
  <2>2. \/ task[w][c].at = "start" /\ Checkpoint[c] = "before-effect"
        \/ task[w][c].at = "committed"
    BY <1>2 DEF ReachCheckpoint, TaskAt
  <2>3. task[w][c].at = "committed" => Checkpoint[c] = "after-commit"
    BY DEF Orderly, TasksFit, TaskFits
  <2>4. Checkpoint[c] = "before-effect" => Uncommitted(w, c)
    BY <2>2, <2>3 DEF Uncommitted
  <2> QED
    BY <1>0, <2>1, <2>2, <2>4 DEF Underway
<1>3. CASE LeaveCheckpoint(w, c)
  <2>1. /\ UNCHANGED <<journal, session>> /\ up
        /\ task[w][c].at = "woken" \/ (task[w][c].at = "waiting" /\ c \in tokens)
    BY <1>3 DEF LeaveCheckpoint, TaskAt, store
  <2>2. \/ ShouldStop /\ TaskGoto(w, c, "stopped")
        \/ c \notin tokens /\ TaskGoto(w, c, "error")
        \/ Checkpoint[c] = "before-effect" /\ TaskGoto(w, c, "run")
        \/ TaskGoto(w, c, "ok")
    BY <1>3 DEF LeaveCheckpoint
  <2> QED
    BY <1>0, <2>1, <2>2 DEF Underway, Uncommitted
<1>4. CASE CommitCall(w, c)
  <2>1. task[w][c].at = "run" /\ up
    BY <1>4 DEF CommitCall, TaskAt
  <2> DEFINE finished == IF Checkpoint[c] = "after-commit" THEN "committed" ELSE "ok"
  <2>2. \/ /\ ShouldStop /\ TaskGoto(w, c, "stopped")
           /\ UNCHANGED <<store, session>>
        \/ TaskGoto(w, c, finished) /\ UNCHANGED <<store, session>>
        \/ /\ ~ShouldStop /\ ~task[w][c].known
           /\ Log(Event("result", task[w][c].turn, c))
           /\ session' = [session EXCEPT !.results = @ \cup {c}]
           /\ TaskGoto(w, c, finished)
    BY <1>4 DEF CommitCall
  <2>3. \/ TaskGoto(w, c, "ok")
        \/ Checkpoint[c] = "after-commit" /\ TaskGoto(w, c, "committed")
        \/ ShouldStop /\ TaskGoto(w, c, "stopped")
    BY <2>2
  <2>4. \/ UNCHANGED <<journal, session>>
        \/ /\ Log(Event("result", task[w][c].turn, c)) /\ ~ShouldStop
           /\ ~task[w][c].known
           /\ session' = [session EXCEPT !.results = @ \cup {c}]
           /\ TaskGoto(w, c, "ok") \/ TaskGoto(w, c, "committed")
    BY <2>2 DEF store
  <2> QED
    BY <1>0, <2>1, <2>3, <2>4 DEF Underway
<1> QED
  BY <1>1, <1>2, <1>3, <1>4 DEF RunTask

LEMMA TaskTurns ==
    ASSUME Known, Orderly, NEW w \in Workers, NEW c \in Calls, RunTask(w, c)
    PROVE  Orderly'
<1>0. TInv /\ Typed
  BY DEF Known, TInv
<1>1. /\ task[w][c].at \in Underway /\ up /\ up'
      /\ \/ ShouldStop /\ TaskGoto(w, c, "stopped")
         \/ task[w][c].at = "woken" /\ TaskGoto(w, c, "error")
         \/ Uncommitted(w, c) /\ TaskGoto(w, c, "run")
         \/ /\ TaskGoto(w, c, "waiting")
            /\ Checkpoint[c] = "before-effect" => Uncommitted(w, c)
         \/ TaskGoto(w, c, "ok")
         \/ Checkpoint[c] = "after-commit" /\ TaskGoto(w, c, "committed")
      /\ UNCHANGED fiber
      /\ \/ UNCHANGED <<journal, session>>
         \/ /\ Log(Event("result", task[w][c].turn, c)) /\ ~ShouldStop
            /\ ~task[w][c].known /\ task[w][c].at = "run"
            /\ session' = [session EXCEPT !.results = @ \cup {c}]
            /\ TaskGoto(w, c, "ok") \/ TaskGoto(w, c, "committed")
  BY <1>0, TaskLeads
<1>2. /\ TaskFits(w, c)
      /\ Halting \/ (fiber[w].at = "join" /\ task[w][c].turn = fiber[w].turn)
      /\ ShouldStop => Halting
  <2>1. task[w][c].at \in Underway
    BY <1>1
  <2> QED
    BY <1>0, <2>1, LiveTask
<1>3. /\ SameControl /\ session'.terminal = session.terminal
      /\ \/ session'.results = session.results
         \/ /\ session'.results = session.results \cup {c} /\ ~Halting
            /\ TaskGoto(w, c, "ok") \/ TaskGoto(w, c, "committed")
  <2>1. CASE UNCHANGED session
    BY <2>1 DEF SameControl
  <2>2. CASE /\ session' = [session EXCEPT !.results = @ \cup {c}] /\ ~ShouldStop
             /\ TaskGoto(w, c, "ok") \/ TaskGoto(w, c, "committed")
    <3>1. /\ session'.results = session.results \cup {c}
          /\ SameControl /\ session'.terminal = session.terminal
      BY <1>0, <2>2 DEF Typed, SessionOK, Sessions, SameControl
    <3>2. ~Halting
      BY <2>2 DEF ShouldStop, Halting
    <3> QED
      BY <2>2, <3>1, <3>2
  <2> QED
    BY <1>1, <2>1, <2>2
<1>4. Pending' = Pending
  <2>1. CASE UNCHANGED journal
    BY <2>1, UnchangedJournal
  <2>2. CASE Log(Event("result", task[w][c].turn, c))
    <3> DEFINE record == Event("result", task[w][c].turn, c)
    <3>1. task[w][c].turn \in Turns
      BY <1>0, <1>1, TasksAreTyped DEF Underway
    <3>2. record \in Record /\ Log(record) /\ record.event = "result"
      BY <2>2, <3>1, EventsAreRecords DEF Event
    <3> HIDE DEF record
    <3> QED
      BY <1>0, <3>2, OtherRecord
  <2> QED
    BY <1>1, <2>1, <2>2
<1>5. Halting' = Halting /\ AtRest(w)' = AtRest(w)
  BY <1>1, <1>3 DEF SameControl, Halting, AtRest
<1>6. ASSUME NEW there, TaskGoto(w, c, there)
      PROVE  /\ task'[w][c].at = there /\ task'[w][c].turn = task[w][c].turn
             /\ task'[w][c].known = task[w][c].known
             /\ \A b \in Workers, d \in Calls : b # w \/ d # c => task'[b][d] = task[b][d]
  BY <1>0, <1>6, TaskGotoIs
<1>7. TaskFits(w, c)'
  <2>1. CASE TaskGoto(w, c, "ok")
    <3>1. task'[w][c].at = "ok"
      BY <1>6, <2>1
    <3> QED
      BY <3>1, DoneTaskFits
  <2>2. CASE Checkpoint[c] = "after-commit" /\ TaskGoto(w, c, "committed")
    <3>1. task'[w][c].at = "committed" /\ task'[w][c].turn = task[w][c].turn
      BY <1>6, <2>2
    <3> QED
      BY <1>1, <1>2, <1>5, <2>2, <3>1 DEF TaskFits, Uncommitted
  <2>3. CASE ShouldStop /\ TaskGoto(w, c, "stopped")
    <3>1. task'[w][c].at = "stopped"
      BY <1>6, <2>3
    <3> QED
      BY <1>2, <1>5, <2>3, <3>1 DEF TaskFits, Uncommitted, Underway
  <2>4. CASE task[w][c].at = "woken" /\ TaskGoto(w, c, "error")
    <3>1. task'[w][c].at = "error"
      BY <1>6, <2>4
    <3> QED
      BY <1>2, <1>5, <2>4, <3>1 DEF TaskFits, Uncommitted, Underway
  <2>5. CASE Uncommitted(w, c) /\ TaskGoto(w, c, "run")
    <3>1. /\ task'[w][c].at = "run" /\ task'[w][c].turn = task[w][c].turn
          /\ task'[w][c].known = task[w][c].known
      BY <1>6, <2>5
    <3>2. session'.results = session.results
      <4>1. ~(TaskGoto(w, c, "ok") \/ TaskGoto(w, c, "committed"))
        BY <1>6, <3>1
      <4> QED
        BY <1>3, <4>1
    <3> QED
      BY <1>1, <1>2, <1>5, <2>5, <3>1, <3>2 DEF TaskFits
  <2>6. CASE /\ TaskGoto(w, c, "waiting")
             /\ Checkpoint[c] = "before-effect" => Uncommitted(w, c)
    <3>1. /\ task'[w][c].at = "waiting" /\ task'[w][c].turn = task[w][c].turn
          /\ task'[w][c].known = task[w][c].known
      BY <1>6, <2>6
    <3>2. session'.results = session.results
      <4>1. ~(TaskGoto(w, c, "ok") \/ TaskGoto(w, c, "committed"))
        BY <1>6, <3>1
      <4> QED
        BY <1>3, <4>1
    <3>3. Uncommitted(w, c)' => Uncommitted(w, c)
      BY <2>6, <3>1 DEF Uncommitted
    <3> QED
      BY <1>1, <1>2, <1>5, <3>1, <3>2, <3>3 DEF TaskFits
  <2> QED
    BY <1>1, <2>1, <2>2, <2>3, <2>4, <2>5, <2>6
<1>8. \A b \in Workers, d \in Calls : b # w \/ d # c => task'[b][d] = task[b][d]
  BY <1>1, <1>6
<1>9. \/ session'.results = session.results
      \/ session'.results = session.results \cup {c} /\ ~Halting
  BY <1>3
<1> QED
  BY <1>0, <1>1, <1>3, <1>4, <1>7, <1>8, <1>9, OneTask

-----------------------------------------------------------------------------
(* Death and start, and every step.                                        *)

LEMMA EmptyIsOrderly ==
    ASSUME \A a \in Agents : fiber'[a] = Idle,
           \A w \in Workers, c \in Calls : task'[w][c] = NoTask,
           ~session'.cancelled, ~session'.closed
    PROVE  Orderly'
<1>1. \A a \in Agents : AtRest(a)'
  BY DEF AtRest, Idle
<1>2. \A w \in Workers, c \in Calls : TaskFits(w, c)'
  BY NoTaskFits
<1> QED
  BY <1>1, <1>2 DEF Orderly, OneAtWork, AgentsFit, TasksFit, ControlFits, Halting, DownIsEmpty

LEMMA DeathTurns ==
    ASSUME TInv, Gone PROVE Orderly'
<1>1. DOMAIN fiber = Agents
  BY DEF TInv, Typed, FiberOK
<1>2. /\ \A a \in Agents : fiber'[a] = Idle
      /\ \A w \in Workers, c \in Calls : task'[w][c] = NoTask
      /\ ~session'.cancelled /\ ~session'.closed
  BY <1>1 DEF Gone, Fresh
<1> QED
  BY <1>2, EmptyIsOrderly

LEMMA StartTurns ==
    ASSUME Orderly, Start PROVE Orderly'
<1>1. ~session'.cancelled /\ ~session'.closed
  BY DEF Start, Recovered, Fresh
<1>2. /\ \A a \in Agents : fiber'[a] = Idle
      /\ \A w \in Workers, c \in Calls : task'[w][c] = NoTask
  BY DEF Start, Orderly, DownIsEmpty
<1> QED
  BY <1>1, <1>2, EmptyIsOrderly

LEMMA OrderlyStep ==
    ASSUME Known, Orderly, "resubmit" \notin Faults, [Next]_vars
    PROVE  Orderly'
<1>1. CASE UNCHANGED vars
  BY <1>1, QuietRequestTurns
<1>2. CASE Request
  BY <1>2, RequestTurns
<1>3. ASSUME NEW a \in Agents, RunHook(a) PROVE Orderly'
  BY <1>3, RpcHookTurns, WorkerHookTurns DEF Agents
<1>4. ASSUME NEW w \in Workers, Work(w) \/ \E c \in Calls : RunTask(w, c) PROVE Orderly'
  BY <1>4, WorkTurns, TaskTurns
<1>5. CASE Die \/ Stop \/ \E w \in Workers, c \in Calls : DieInCommit(w, c)
  BY <1>5, DeathTurns DEF Die, Stop, DieInCommit, Known
<1>6. CASE Start
  BY <1>6, StartTurns
<1> QED
  BY <1>1, <1>2, <1>3, <1>4, <1>5, <1>6 DEF Next, Agents

LEMMA OrderlyInit == Init => Orderly
<1> SUFFICES ASSUME Init PROVE Orderly
  OBVIOUS
<1>1. \A a \in Agents : fiber[a] = Idle
  BY DEF Init, Agents
<1>2. \A w \in Workers, c \in Calls : task[w][c] = NoTask
  BY DEF Init
<1>3. \A a \in Agents : AtRest(a)
  BY <1>1 DEF AtRest, Idle
<1>4. TasksFit
  BY <1>2 DEF TasksFit, TaskFits, NoTask, Underway, Uncommitted
<1> QED
  BY <1>1, <1>2, <1>3, <1>4
     DEF Init, Fresh, Orderly, OneAtWork, AgentsFit, ControlFits, Halting, DownIsEmpty

LEMMA OrderlyAlways == "resubmit" \notin Faults => (Spec => [](Known /\ Orderly))
<1> SUFFICES ASSUME "resubmit" \notin Faults PROVE Spec => [](Known /\ Orderly)
  OBVIOUS
<1>1. Init => Orderly
  BY OrderlyInit
<1>2. Known /\ Orderly /\ [Next]_vars => Orderly'
  BY OrderlyStep
<1>3. Known <=> TInv /\ (up => IndexOK)
  BY DEF Known
<1> QED
  BY <1>1, <1>2, <1>3, Always, IndexAlways, PTL DEF Spec

-----------------------------------------------------------------------------
(* What a step appends to the journal.                                     *)

\* What may be appended while the journal stands as it does.
InTurn(r) ==
    \/ r.event = "hook"
    \/ r.event = "accept" /\ r.turn \notin AcceptedTurns
    \/ r.event = "response" /\ r.turn = Pending
    \/ r.event = "terminal" /\ r.turn \in {NoTurn, Pending}
    \/ r.event = "result" /\ r.turn = Pending /\ r.item \notin Recorded("result")

Says == UNCHANGED journal \/ \E r \in Record : Log(r) /\ InTurn(r)

LEMMA TerminalSays ==
    ASSUME NEW t \in SomeTurn, NEW how \in {"success", "failure", "cancelled"},
           LogTerminal(t, how), ~session.terminal => t \in {NoTurn, Pending}
    PROVE  Says
<1>1. CASE session.terminal
  BY <1>1 DEF LogTerminal, store, Says
<1>2. CASE ~session.terminal
  <2> DEFINE r == Event("terminal", t, how)
  <2>1. r \in Record /\ Log(r)
    BY <1>2, EventsAreRecords DEF LogTerminal
  <2>2. r.event = "terminal" /\ r.turn = t
    BY DEF Event
  <2>3. InTurn(r)
    BY <1>2, <2>2 DEF InTurn
  <2> QED
    BY <2>1, <2>3 DEF Says
<1> QED
  BY <1>1, <1>2

LEMMA AcceptSays ==
    ASSUME NEW a, NEW t \in Turns, t \notin AcceptedTurns, AcceptIn(a, t)
    PROVE  Says
<1> DEFINE r == Event("accept", t, NoCall)
<1>1. r \in Record /\ Log(r)
  BY EventsAreRecords DEF AcceptIn
<1>2. r.event = "accept" /\ r.turn = t
  BY DEF Event
<1>3. InTurn(r)
  BY <1>2 DEF InTurn
<1> QED
  BY <1>1, <1>3 DEF Says

LEMMA EngagedSpeaks ==
    ASSUME TInv, Orderly, NEW w \in Workers,
           fiber[w].at \in {"top", "post", "finish", "failed"}
    PROVE  /\ Turn(w) \in Turns /\ Turn(w) \in SomeTurn
           /\ ~session.terminal => Turn(w) = Pending
<1>1. w \in Agents /\ ~AtRest(w)
  BY DEF Agents, AtRest
<1>2. Engaged(w)
  BY <1>1 DEF Orderly, AgentsFit
<1>3. fiber[w].turn \in Turns
  BY <1>1, AgentsAreTyped
<1> QED
  BY <1>2, <1>3 DEF Engaged, Turn, SomeTurn

LEMMA WorkSays ==
    ASSUME Known, Orderly, NEW w \in Workers, Work(w) PROVE Says
<1>0. TInv
  BY DEF Known
<1>1. CASE ReadPending(w) \/ ModelErrs(w) \/ PrepareCall(w) \/ Join(w) \/ EndTurn(w)
  <2>1. UNCHANGED store
    BY <1>1 DEF ReadPending, ModelErrs, PrepareCall, Join, EndTurn
  <2> QED
    BY <2>1 DEF store, Says
<1>2. CASE RequestModel(w) \/ ModelFails(w) \/ Finish(w) \/ WorkerFails(w)
  <2>1. fiber[w].at \in {"top", "post", "finish", "failed"}
    BY <1>2 DEF RequestModel, ModelFails, Finish, WorkerFails, At
  <2>2. \/ UNCHANGED store
        \/ \E how \in {"success", "failure"} : LogTerminal(Turn(w), how)
    BY <1>2 DEF RequestModel, ModelFails, Finish, WorkerFails
  <2>3. Turn(w) \in SomeTurn /\ (~session.terminal => Turn(w) = Pending)
    BY <1>0, <2>1, EngagedSpeaks
  <2>4. UNCHANGED store => Says
    BY DEF store, Says
  <2> QED
    BY <2>2, <2>3, <2>4, TerminalSays
<1>3. CASE ModelReplies(w)
  <2>1. fiber[w].at = "post"
    BY <1>3 DEF ModelReplies, At
  <2>2. CASE UNCHANGED store
    BY <2>2 DEF store, Says
  <2>3. CASE ~ShouldStop /\ Log(Event("response", Turn(w), NoCall))
    <3> DEFINE r == Event("response", Turn(w), NoCall)
    <3>1. Turn(w) \in Turns /\ Turn(w) = Pending
      BY <1>0, <2>1, <2>3, EngagedSpeaks DEF ShouldStop
    <3>2. r \in Record /\ Log(r)
      BY <2>3, <3>1, EventsAreRecords
    <3>3. r.event = "response" /\ r.turn = Turn(w)
      BY DEF Event
    <3>4. InTurn(r)
      BY <3>1, <3>3 DEF InTurn
    <3> QED
      BY <3>2, <3>4 DEF Says
  <2> QED
    BY <1>3, <2>2, <2>3 DEF ModelReplies
<1>4. CASE TakeQueued(w)
  <2>1. fiber[w].next \in Turns /\ IndexOK
    BY <1>0, <1>4, NextLeaves DEF TakeQueued, At, Known
  <2>2. CASE UNCHANGED store
    BY <2>2 DEF store, Says
  <2>3. CASE /\ AcceptIn(w, fiber[w].next)
             /\ ~session.closed /\ fiber[w].next \notin session.keys
    <3>1. fiber[w].next \notin AcceptedTurns
      BY <2>1, <2>3 DEF IndexOK
    <3> QED
      BY <2>1, <2>3, <3>1, AcceptSays
  <2> QED
    BY <1>4, <2>2, <2>3 DEF TakeQueued
<1> QED
  BY <1>1, <1>2, <1>3, <1>4 DEF Work

LEMMA RequestSays ==
    ASSUME Known, Orderly, Request PROVE Says
<1>1. ASSUME NEW t \in Turns, Submit(t) PROVE Says
  <2>1. IndexOK /\ AcceptIn(Rpc, t) /\ ~session.closed /\ t \notin session.keys
    BY <1>1 DEF Submit, At, Known
  <2>2. t \notin AcceptedTurns
    BY <2>1 DEF IndexOK
  <2> QED
    BY <2>1, <2>2, AcceptSays
<1>2. CASE Cancel
  <2>1. LogTerminal(NoTurn, "cancelled") /\ NoTurn \in SomeTurn
    BY <1>2 DEF Cancel, SomeTurn
  <2> QED
    BY <2>1, TerminalSays
<1>3. CASE \/ \E t \in Turns : Queue(t)
           \/ Resume \/ Close \/ \E c \in Calls : Release(c)
  <2>1. UNCHANGED store
    BY <1>3 DEF Queue, Resume, Close, Release
  <2> QED
    BY <2>1 DEF store, Says
<1> QED
  BY <1>1, <1>2, <1>3 DEF Request

LEMMA HookSays ==
    ASSUME Known, NEW a \in Agents, RunHook(a) PROVE Says
<1>1. UNCHANGED store => Says
  BY DEF store, Says
<1>2. CASE HookEnds(a)
  <2>1. CASE Log(Event("hook", fiber[a].turn, ThisHook(a)))
    <3> DEFINE r == Event("hook", fiber[a].turn, ThisHook(a))
    <3>1. fiber[a] \in Fibers /\ fiber[a].at = "fired"
      BY <1>2, AgentsAreTyped DEF Known, HookEnds, At
    <3>2. fiber[a].turn \in Turns /\ ThisHook(a) \in Hooks
      BY <3>1 DEF Fibers, ThisHook, Hooks
    <3>3. r \in Record /\ Log(r)
      BY <2>1, <3>2, EventsAreRecords
    <3>4. InTurn(r)
      BY DEF InTurn, Event
    <3> QED
      BY <3>3, <3>4 DEF Says
  <2> QED
    BY <1>1, <1>2, <2>1 DEF HookEnds
<1>3. CASE SkipHook(a) \/ FireHook(a)
  BY <1>1, <1>3 DEF SkipHook, FireHook
<1> QED
  BY <1>2, <1>3 DEF RunHook

\* The result that a call's task appends, or dies appending.
LEMMA ResultSays ==
    ASSUME Known, Orderly, NEW w \in Workers, NEW c \in Calls,
           TaskAt(w, c, "run"), ~ShouldStop, ~task[w][c].known,
           Log(Event("result", task[w][c].turn, c))
    PROVE  Says
<1> DEFINE r == Event("result", task[w][c].turn, c)
<1>0. TInv /\ IndexOK /\ task[w][c].at = "run"
  BY DEF Known, TaskAt
<1>1. task[w][c].at \in Underway /\ ~Halting /\ ~session.terminal
  BY <1>0 DEF Underway, ShouldStop, Halting
<1>2. /\ TaskFits(w, c) /\ fiber[w].at = "join" /\ task[w][c].turn = fiber[w].turn
      /\ Engaged(w)
  BY <1>0, <1>1, LiveTask
<1>3. task[w][c].turn = Pending
  BY <1>1, <1>2 DEF Engaged
<1>4. c \notin Recorded("result")
  BY <1>0, <1>2 DEF TaskFits, Uncommitted, IndexOK
<1>5. task[w][c].turn \in Turns
  BY <1>0, TasksAreTyped
<1>6. r \in Record /\ Log(r)
  BY <1>5, EventsAreRecords
<1>7. r.event = "result" /\ r.turn = task[w][c].turn /\ r.item = c
  BY DEF Event
<1>8. InTurn(r)
  BY <1>3, <1>4, <1>7 DEF InTurn
<1> QED
  BY <1>6, <1>8 DEF Says

LEMMA TaskSays ==
    ASSUME Known, Orderly, NEW w \in Workers, NEW c \in Calls,
           RunTask(w, c) \/ DieInCommit(w, c)
    PROVE  Says
<1>1. UNCHANGED store => Says
  BY DEF store, Says
<1>2. CASE StartTask(w, c) \/ ReachCheckpoint(w, c) \/ LeaveCheckpoint(w, c)
  BY <1>1, <1>2 DEF StartTask, ReachCheckpoint, LeaveCheckpoint
<1>3. CASE CommitCall(w, c)
  BY <1>1, <1>3, ResultSays DEF CommitCall
<1>4. CASE DieInCommit(w, c)
  BY <1>4, ResultSays DEF DieInCommit
<1> QED
  BY <1>2, <1>3, <1>4 DEF RunTask

LEMMA StepSays ==
    ASSUME Known, Orderly, [Next]_vars PROVE Says
<1>1. CASE Die \/ Start \/ UNCHANGED vars
  BY <1>1 DEF Die, Start, vars, store, Says
<1>2. CASE Stop
  <2>1. UNCHANGED store \/ LogTerminal(NoTurn, "cancelled")
    BY <1>2 DEF Stop
  <2>2. NoTurn \in SomeTurn
    BY DEF SomeTurn
  <2> QED
    BY <2>1, <2>2, TerminalSays DEF store, Says
<1> QED
  BY <1>1, <1>2, RequestSays, HookSays, WorkSays, TaskSays DEF Next, Agents

-----------------------------------------------------------------------------
(* The turn that was open at each record.                                  *)

LEMMA GreatestExists ==
    ASSUME NEW n \in Nat, NEW S \in SUBSET (1 .. n), S # {}
    PROVE  NewestExists(S)
<1> DEFINE T == {n - i : i \in S}
<1>1. T \in SUBSET Nat /\ T # {}
  <2>1. \A i \in S : n - i \in Nat
    OBVIOUS
  <2> QED
    BY <2>1
<1> HIDE DEF T
<1>2. PICK m \in T : \A j \in T : m <= j
  BY <1>1, LeastExists
<1>3. PICK k \in S : m = n - k
  BY <1>2 DEF T
<1>4. \A l \in S : l <= k
  <2> SUFFICES ASSUME NEW l \in S PROVE l <= k
    OBVIOUS
  <2>1. n - l \in T
    BY DEF T
  <2>2. n - k <= n - l
    BY <1>2, <1>3, <2>1
  <2> QED
    BY <2>2
<1> QED
  BY <1>4 DEF Newest, NewestExists

LEMMA OpenAtStays ==
    ASSUME TInv, NEW record \in Record, Log(record), NEW k \in DOMAIN journal
    PROVE  OpenAt(k)' = OpenAt(k)
<1> DEFINE before == {l \in Marks : l < k}
<1>1. /\ Len(journal) \in Nat /\ DOMAIN journal = 1 .. Len(journal)
      /\ DOMAIN journal' = DOMAIN journal \cup {Last}
      /\ \A l \in DOMAIN journal : journal'[l] = journal[l]
  BY LogMoves DEF TInv, Typed
<1>2. Marks \subseteq DOMAIN journal /\ ~(Last < k)
  BY <1>1 DEF Marks, Records, Last
<1>3. Marks' = Marks \/ Marks' = Marks \cup {Last}
  <2>1. /\ Records("accept")' = Records("accept") \/ Records("accept")' = Records("accept") \cup {Last}
        /\ \/ Records("terminal")' = Records("terminal")
           \/ Records("terminal")' = Records("terminal") \cup {Last}
    BY RecordsGrow DEF TInv, Typed
  <2> QED
    BY <2>1 DEF Marks
<1>4. {l \in Marks' : l < k} = before
  BY <1>2, <1>3
<1>5. before # {} => Newest(before) \in DOMAIN journal
  <2>1. before \in SUBSET (1 .. Len(journal))
    BY <1>1, <1>2
  <2> HIDE DEF before
  <2> QED
    BY <1>1, <2>1, GreatestExists DEF NewestExists
<1>6. OpenAt(k)' = IF before = {} \/ journal'[Newest(before)].event = "terminal" THEN NoTurn
                   ELSE journal'[Newest(before)].turn
  <2>1. OpenAt(k)' = IF {l \in Marks' : l < k} = {} \/ journal'[Newest({l \in Marks' : l < k})].event = "terminal"
                     THEN NoTurn ELSE journal'[Newest({l \in Marks' : l < k})].turn
    BY DEF OpenAt, Newest
  <2> QED
    BY <1>4, <2>1
<1>7. OpenAt(k) = IF before = {} \/ journal[Newest(before)].event = "terminal" THEN NoTurn
                  ELSE journal[Newest(before)].turn
  BY DEF OpenAt
<1> HIDE DEF before
<1> QED
  BY <1>1, <1>5, <1>6, <1>7

\* The new record finds open what was pending.
LEMMA OpenAtLast ==
    ASSUME TInv, NEW record \in Record, Log(record), NEW n \in Nat, n = Last
    PROVE  OpenAt(n)' = Pending
<1>1. /\ Len(journal) \in Nat /\ DOMAIN journal = 1 .. Len(journal)
      /\ \A l \in DOMAIN journal : journal'[l] = journal[l]
  BY LogMoves DEF TInv, Typed
<1>2. Marks \subseteq DOMAIN journal
  BY DEF Marks, Records
<1>3. Marks' = Marks \/ Marks' = Marks \cup {Last}
  <2>1. /\ Records("accept")' = Records("accept") \/ Records("accept")' = Records("accept") \cup {Last}
        /\ \/ Records("terminal")' = Records("terminal")
           \/ Records("terminal")' = Records("terminal") \cup {Last}
    BY RecordsGrow DEF TInv, Typed
  <2> QED
    BY <2>1 DEF Marks
<1>4. {l \in Marks' : l < n} = Marks
  BY <1>1, <1>2, <1>3 DEF Last
<1>5. Marks # {} => Newest(Marks) \in DOMAIN journal
  BY <1>2 DEF TInv, MarksOK, NewestExists
<1>6. OpenAt(n)' = IF Marks = {} \/ journal'[Newest(Marks)].event = "terminal" THEN NoTurn
                   ELSE journal'[Newest(Marks)].turn
  <2>1. OpenAt(n)' = IF {l \in Marks' : l < n} = {} \/ journal'[Newest({l \in Marks' : l < n})].event = "terminal"
                     THEN NoTurn ELSE journal'[Newest({l \in Marks' : l < n})].turn
    BY DEF OpenAt, Newest
  <2> QED
    BY <1>4, <2>1
<1> QED
  BY <1>1, <1>5, <1>6 DEF Pending

LEMMA SpeaksStep ==
    ASSUME TInv, OnlyTheOpenTurnSpeaks, Says PROVE OnlyTheOpenTurnSpeaks'
<1>1. CASE UNCHANGED journal
  <2>1. Marks' = Marks
    BY <1>1, UnchangedJournal DEF Marks
  <2>2. ASSUME NEW k \in DOMAIN journal PROVE OpenAt(k)' = OpenAt(k)
    BY <1>1, <2>1 DEF OpenAt, Newest
  <2> QED
    BY <1>1, <2>2 DEF OnlyTheOpenTurnSpeaks
<1>2. ASSUME NEW r \in Record, Log(r), InTurn(r) PROVE OnlyTheOpenTurnSpeaks'
  <2>1. /\ Len(journal) \in Nat
        /\ DOMAIN journal' = DOMAIN journal \cup {Last}
        /\ \A l \in DOMAIN journal : journal'[l] = journal[l]
        /\ journal'[Last] = r
    BY <1>2, LogMoves DEF TInv, Typed
  <2>2. ASSUME NEW k \in DOMAIN journal',
               journal'[k].event \in {"response", "result", "terminal"}, journal'[k].turn # NoTurn
        PROVE  OpenAt(k)' = journal'[k].turn
    <3>1. CASE k \in DOMAIN journal
      <4>1. OpenAt(k)' = OpenAt(k)
        BY <1>2, <3>1, OpenAtStays
      <4> QED
        BY <2>1, <2>2, <3>1, <4>1 DEF OnlyTheOpenTurnSpeaks
    <3>2. CASE k = Last
      <4>1. OpenAt(k)' = Pending
        BY <1>2, <2>1, <3>2, OpenAtLast DEF Last
      <4> QED
        BY <1>2, <2>1, <2>2, <3>2, <4>1 DEF InTurn
    <3> QED
      BY <2>1, <3>1, <3>2
  <2> QED
    BY <2>2 DEF OnlyTheOpenTurnSpeaks
<1> QED
  BY <1>1, <1>2 DEF Says

(* For any number of turns, calls, workers, hooks and deaths: what the     *)
(* worker of a turn appends - a model's reply, a call's result, the end of *)
(* the turn - it appends while that turn is the open one.  The client does *)
(* not submit anew before the session it has cancelled is at rest.         *)
THEOREM OnlyTheOpenTurnIsHeard ==
    "resubmit" \notin Faults => (Spec => []OnlyTheOpenTurnSpeaks)
<1> SUFFICES ASSUME "resubmit" \notin Faults PROVE Spec => []OnlyTheOpenTurnSpeaks
  OBVIOUS
<1>1. Init => OnlyTheOpenTurnSpeaks
  BY DEF Init, OnlyTheOpenTurnSpeaks
<1>2. Known /\ Orderly /\ OnlyTheOpenTurnSpeaks /\ [Next]_vars => OnlyTheOpenTurnSpeaks'
  BY StepSays, SpeaksStep DEF Known
<1> QED
  BY <1>1, <1>2, OrderlyAlways, PTL DEF Spec

-----------------------------------------------------------------------------
(* The ledger.                                                             *)

LEMMA EffectsGrow ==
    ASSUME TInv, NEW r \in Record, Log(r)
    PROVE  Effects' = IF r.event = "result"
                      THEN Effects \cup {[at |-> Last, turn |-> r.turn, call |-> r.item]}
                      ELSE Effects
<1>1. /\ \A l \in DOMAIN journal : journal'[l] = journal[l]
      /\ journal'[Last] = r
  BY LogMoves DEF TInv, Typed
<1>2. Records("result")' = IF r.event = "result" THEN Records("result") \cup {Last}
                                                ELSE Records("result")
  BY RecordsGrow DEF TInv, Typed
<1>3. Effects' = {[at |-> k, turn |-> journal'[k].turn, call |-> journal'[k].item] :
                    k \in Records("result")'}
  BY DEF Effects
<1>4. \A k \in Records("result") : journal'[k] = journal[k]
  BY <1>1 DEF Records
<1>5. CASE r.event = "result"
  <2>1. Records("result")' = Records("result") \cup {Last}
    BY <1>2, <1>5
  <2> QED
    BY <1>1, <1>3, <1>4, <1>5, <2>1 DEF Effects
<1>6. CASE r.event # "result"
  <2>1. Records("result")' = Records("result")
    BY <1>2, <1>6
  <2> QED
    BY <1>3, <1>4, <1>6, <2>1 DEF Effects
<1> QED
  BY <1>5, <1>6

LEMMA EffectsAre ==
    ASSUME TInv
    PROVE  /\ \A e \in Effects : e.at < Last
           /\ \A e \in Effects : e.call \in Recorded("result")
<1>1. Len(journal) \in Nat /\ DOMAIN journal = 1 .. Len(journal)
  BY DEF TInv, Typed, StoreOK
<1>2. \A k \in Records("result") : k < Last
  BY <1>1 DEF Records, Last
<1> QED
  BY <1>2 DEF Effects, Recorded

\* Every record is the ledger's accept, commit or end, or says nothing to it.
LEMMA LedgerStep ==
    ASSUME TInv, Says
    PROVE  [Ledger!Next]_(Ledger!ledgerVars)
<1>1. CASE UNCHANGED journal
  <2>1. AcceptedTurns' = AcceptedTurns /\ Pending' = Pending
    BY <1>1, UnchangedJournal
  <2>2. Effects' = Effects
    BY <1>1 DEF Effects, Records
  <2> QED
    BY <2>1, <2>2 DEF Ledger!ledgerVars
<1>2. ASSUME NEW r \in Record, Log(r), InTurn(r)
      PROVE  [Ledger!Next]_(Ledger!ledgerVars)
  <2>1. AcceptedTurns' = IF r.event = "accept" THEN AcceptedTurns \cup {r.turn}
                                               ELSE AcceptedTurns
    BY <1>2, AcceptedGrow DEF TInv, Typed
  <2>2. Pending' = IF r.event = "accept" THEN r.turn
                   ELSE IF r.event = "terminal" THEN NoTurn ELSE Pending
    BY <1>2, MarksGrow DEF TInv, Typed
  <2>3. Effects' = IF r.event = "result"
                   THEN Effects \cup {[at |-> Last, turn |-> r.turn, call |-> r.item]}
                   ELSE Effects
    BY <1>2, EffectsGrow
  <2>4. CASE r.event = "accept"
    <3>1. r.turn \in Turns
      BY <2>4 DEF Record
    <3>2. /\ r.turn \notin AcceptedTurns /\ AcceptedTurns' = AcceptedTurns \cup {r.turn}
          /\ Pending' = r.turn /\ Effects' = Effects
      BY <1>2, <2>1, <2>2, <2>3, <2>4 DEF InTurn
    <3>3. Ledger!Accept(r.turn)
      BY <3>2 DEF Ledger!Accept
    <3> QED
      BY <3>1, <3>3 DEF Ledger!Next
  <2>5. CASE r.event = "terminal"
    <3>1. AcceptedTurns' = AcceptedTurns /\ Pending' = NoTurn /\ Effects' = Effects
      BY <2>1, <2>2, <2>3, <2>5
    <3> QED
      BY <3>1 DEF Ledger!Next, Ledger!End, Ledger!ledgerVars
  <2>6. CASE r.event = "result"
    <3> DEFINE new == [at |-> Last, turn |-> r.turn, call |-> r.item]
    <3>1. r.turn \in Turns /\ r.item \in Calls
      BY <2>6 DEF Record
    <3>2. r.turn = Pending /\ r.item \notin Recorded("result") /\ Pending # NoTurn
      BY <1>2, <2>6, <3>1, HarnessAssumption DEF InTurn
    <3>3. /\ AcceptedTurns' = AcceptedTurns /\ Pending' = Pending
          /\ Effects' = Effects \cup {new}
      BY <2>1, <2>2, <2>3, <2>6
    <3>4. new.turn = Pending /\ new.call = r.item /\ \A e \in Effects : e.at < new.at
      BY <3>2, EffectsAre
    <3>5. \A e \in Effects : e.call # r.item
      BY <3>2, EffectsAre
    <3> HIDE DEF new
    <3>6. Ledger!Commit(r.item)
      BY <3>2, <3>3, <3>4, <3>5 DEF Ledger!Commit
    <3> QED
      BY <3>1, <3>6 DEF Ledger!Next
  <2>7. CASE r.event \notin {"accept", "terminal", "result"}
    BY <2>1, <2>2, <2>3, <2>7 DEF Ledger!ledgerVars
  <2> QED
    BY <2>4, <2>5, <2>6, <2>7
<1> QED
  BY <1>1, <1>2 DEF Says

(* The mock harness implements the ledger, across deaths, resumes, torn    *)
(* records and repeated submits: a turn is accepted once, only the turn    *)
(* that is open has effects, and a call's effect is committed once.        *)
THEOREM JournalImplementsLedger ==
    "resubmit" \notin Faults => (Spec => LedgerSpec)
<1> SUFFICES ASSUME "resubmit" \notin Faults PROVE Spec => LedgerSpec
  OBVIOUS
<1>1. Init => Ledger!Init
  <2> SUFFICES ASSUME Init PROVE Ledger!Init
    OBVIOUS
  <2>1. \A e : Records(e) = {}
    BY DEF Init, Records
  <2>2. AcceptedTurns = {} /\ Pending = NoTurn /\ Effects = {}
    BY <2>1 DEF AcceptedTurns, Pending, Marks, Effects
  <2> QED
    BY <2>2 DEF Ledger!Init
<1>2. Known /\ Orderly /\ [Next]_vars => [Ledger!Next]_(Ledger!ledgerVars)
  BY StepSays, LedgerStep DEF Known
<1> QED
  BY <1>1, <1>2, OrderlyAlways, PTL DEF Spec, LedgerSpec, Ledger!Spec
=============================================================================
