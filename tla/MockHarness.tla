----------------------------- MODULE MockHarness -----------------------------
(***************************************************************************)
(* The built-in mock harness: a daemon with one session, whose journal on  *)
(* disk is the record of what happened and whose memory is an index of it. *)
(* The RPC loop handles one request at a time; workers run turns and spawn *)
(* a task per tool call.  Everything in between two acquisitions of the    *)
(* mutex of MockHarness is one action.  The daemon may die between any two *)
(* of them, or while it appends, and be started again.                     *)
(*                                                                         *)
(* The turn in a journal record says whose work appended it; the program   *)
(* does not write that.  Events that nothing reads back are left out.      *)
(***************************************************************************)
EXTENDS Naturals, Sequences

CONSTANTS
    Turns, Calls, Paths,
    Workers,      \* bounds the workers and their tasks that exist at one time
    Rpc, NoTurn, NoCall,
    Plan,         \* the model's replies to a turn: frames of calls, then content
    PathOf,       \* the fixture file each call writes
    Checkpoint,   \* "none", "before-effect" or "after-commit"
    HookKinds,    \* the hooks that are configured
    Ceiling,      \* model_request_ceiling
    MaxStarts, MaxQueued,
    Faults        \* "tear": a write is cut short by death; "hook": a hook fails;
                  \* "close": the session may be closed;
                  \* "resubmit": a client that cancelled submits at once

ASSUME HarnessAssumption ==
    /\ Rpc \notin Workers /\ NoTurn \notin Turns /\ NoCall \notin Calls
    /\ Plan \in [Turns -> Seq(Seq(Calls))]
    /\ PathOf \in [Calls -> Paths]
    /\ Checkpoint \in [Calls -> {"none", "before-effect", "after-commit"}]
    /\ HookKinds \subseteq {"acceptance", "completion"}
    /\ Ceiling \in Nat /\ MaxStarts \in Nat /\ MaxQueued \in Nat

VARIABLES
    journal,      \* the complete records
    torn,         \* the file ends in an incomplete one
    garbled,      \* a record was appended to that: the file cannot be read
    files,        \* the workspace: the call whose content a file has
    claims, fired,   \* hook claim files; how often each hook's program was run
    reached, tokens,   \* checkpoints reached and released, files on disk
    up, starts,   \* whether the daemon is running, how often it was started
    session,      \* SessionState
    fiber,        \* the RPC loop and the workers
    task          \* the tool calls a worker has spawned

store  == <<journal, torn, garbled>>
disk   == <<files, claims, fired, reached, tokens>>
daemon == <<up, starts>>
vars == <<store, disk, daemon, session, fiber, task>>

Event(event, turn, item) == [event |-> event, turn |-> turn, item |-> item]

Fresh == [results |-> {}, hooks |-> {}, keys |-> {}, terminal |-> FALSE,
          pending |-> NoTurn, queued |-> <<>>,
          active |-> FALSE, cancelled |-> FALSE, closed |-> FALSE]

Idle == [at |-> "idle", turn |-> NoTurn, round |-> 0, index |-> 0,
         hook |-> "none", next |-> NoTurn]

NoTask == [at |-> "none", known |-> FALSE, turn |-> NoTurn]

Hooks == HookKinds \X Turns

Init ==
    /\ journal = <<>> /\ torn = FALSE /\ garbled = FALSE
    /\ files = [p \in Paths |-> NoCall]
    /\ claims = {} /\ fired = [h \in Hooks |-> 0]
    /\ reached = {} /\ tokens = {}
    /\ up = TRUE /\ starts = 1
    /\ session = Fresh
    /\ fiber = [a \in Workers \cup {Rpc} |-> Idle]
    /\ task = [w \in Workers |-> [c \in Calls |-> NoTask]]

-----------------------------------------------------------------------------
(* The journal and what is read back from it.                              *)

Records(event) == {k \in DOMAIN journal : journal[k].event = event}

Newest(S) == CHOOSE k \in S : \A l \in S : l <= k

Marks == Records("accept") \cup Records("terminal")

\* recover_pending: the turn accepted since the last terminal.
Pending ==
    IF Marks = {} \/ journal[Newest(Marks)].event = "terminal" THEN NoTurn
    ELSE journal[Newest(Marks)].turn

TerminalSinceAccept == Marks # {} /\ journal[Newest(Marks)].event = "terminal"

Recorded(event) == {journal[k].item : k \in Records(event)}

AcceptedTurns == {journal[k].turn : k \in Records("accept")}

\* Mutant: the turn that was open is forgotten.
Recovered_NoPending ==
    [Fresh EXCEPT !.results  = Recorded("result"), !.hooks = Recorded("hook"),
                  !.keys     = AcceptedTurns, !.terminal = TerminalSinceAccept]

\* open_with_readiness: the session as the journal has it.
Recovered ==
    [Fresh EXCEPT !.results  = Recorded("result"),
                  !.hooks    = Recorded("hook"),
                  !.keys     = AcceptedTurns,
                  !.terminal = TerminalSinceAccept,
                  !.pending  = Pending]

WritesTo(p) == {k \in Records("result") : PathOf[journal[k].item] = p}

\* reconcile_durable_tool_effects: only the newest write to a path counts.
Reconciled ==
    [p \in Paths |-> IF WritesTo(p) = {} THEN files[p]
                     ELSE journal[Newest(WritesTo(p))].item]

\* DurableJournal::append.
Log(record) ==
    /\ journal' = Append(journal, record)
    /\ garbled' = (garbled \/ torn) /\ torn' = FALSE

\* Mutant: a terminal is appended whatever came before.
LogTerminal_Again(turn, how) == Log(Event("terminal", turn, how))

\* append_terminal: nothing if the turn has its terminal already.
LogTerminal(turn, how) ==
    IF session.terminal THEN UNCHANGED store
                        ELSE Log(Event("terminal", turn, how))

-----------------------------------------------------------------------------
ShouldStop == session.cancelled \/ session.closed \/ session.terminal

At(a, here) == up /\ fiber[a].at = here

Goto(a, there) == fiber' = [fiber EXCEPT ![a].at = there]

Live(w) == {c \in Calls :
              task[w][c].at \in {"start", "waiting", "woken", "run", "committed"}}

Free(w) == fiber[w].at = "idle" /\ Live(w) = {}

NoTasks(w) == task' = [task EXCEPT ![w] = [c \in Calls |-> NoTask]]

\* spawn_worker.
Spawn(w) ==
    /\ Free(w)
    /\ fiber' = [fiber EXCEPT ![w] = [Idle EXCEPT !.at = "read"], ![Rpc] = Idle]
    /\ NoTasks(w)

\* Mutant: the terminal of the turn before stays in the index.
AcceptIn_KeepsTerminal(a, t) ==
    /\ session' = [session EXCEPT !.keys = @ \cup {t}, !.pending = t, !.active = TRUE,
                                  !.cancelled = FALSE]
    /\ Log(Event("accept", t, NoCall))
    /\ fiber' = [fiber EXCEPT ![a] = [Idle EXCEPT !.at = "hook", !.turn = t,
                                                  !.hook = "acceptance"]]

\* The state that accept_turn leaves, and the record it appends.
AcceptIn(a, t) ==
    /\ session' = [session EXCEPT !.keys = @ \cup {t}, !.pending = t, !.active = TRUE,
                                  !.cancelled = FALSE, !.terminal = FALSE]
    /\ Log(Event("accept", t, NoCall))
    /\ fiber' = [fiber EXCEPT ![a] = [Idle EXCEPT !.at = "hook", !.turn = t,
                                                  !.hook = "acceptance"]]

-----------------------------------------------------------------------------
(* Hooks: run_hook_and_record, for the RPC loop and for workers.           *)

ThisHook(a) == <<fiber[a].hook, fiber[a].turn>>

\* What follows an acceptance or a completion hook.
AfterHook(a) ==
    IF a = Rpc THEN \E w \in Workers : Spawn(w)
    ELSE /\ UNCHANGED task
         /\ IF fiber[a].hook = "acceptance" THEN Goto(a, "read")
            ELSE Goto(a, IF fiber[a].next = NoTurn THEN "idle" ELSE "next")

\* The submit fails, or the worker does.
HookError(a) ==
    /\ UNCHANGED task
    /\ fiber' = IF a = Rpc THEN [fiber EXCEPT ![a] = Idle]
                           ELSE [fiber EXCEPT ![a].at = "failed"]

SkipHook(a) ==
    /\ At(a, "hook")
    /\ fiber[a].hook \notin HookKinds \/ ThisHook(a) \in session.hooks
    /\ AfterHook(a)
    /\ UNCHANGED <<store, disk, daemon, session>>

\* Mutant: a claim without a completion does not keep the hook from running.
FireHook_Again(a) ==
    /\ At(a, "hook")
    /\ fiber[a].hook \in HookKinds /\ ThisHook(a) \notin session.hooks
    /\ claims' = claims \cup {ThisHook(a)}
    /\ fired' = [fired EXCEPT ![ThisHook(a)] = @ + 1]
    /\ Goto(a, "fired")
    /\ UNCHANGED <<task, files, reached, tokens, store, daemon, session>>

\* The claim file is created, and the program started, at most once.
FireHook(a) ==
    /\ At(a, "hook")
    /\ fiber[a].hook \in HookKinds /\ ThisHook(a) \notin session.hooks
    /\ IF ThisHook(a) \in claims
       THEN HookError(a) /\ UNCHANGED <<claims, fired>>
       ELSE /\ claims' = claims \cup {ThisHook(a)}
            /\ fired' = [fired EXCEPT ![ThisHook(a)] = @ + 1]
            /\ Goto(a, "fired") /\ UNCHANGED task
    /\ UNCHANGED <<files, reached, tokens, store, daemon, session>>

HookEnds(a) ==
    /\ At(a, "fired")
    /\ \/ /\ Log(Event("hook", fiber[a].turn, ThisHook(a)))
          /\ session' = [session EXCEPT !.hooks = @ \cup {ThisHook(a)}]
          /\ AfterHook(a)
       \/ /\ "hook" \in Faults
          /\ HookError(a) /\ UNCHANGED <<store, session>>
    /\ UNCHANGED <<disk, daemon>>

-----------------------------------------------------------------------------
(* Requests.                                                               *)

\* A client that has cancelled or queued something, or configured hooks, waits
\* for the session to be at rest before it submits; another submits as soon as
\* it is let.
Patient ==
    \/ \A w \in Workers : Free(w)
    \/ /\ ~session.cancelled /\ session.queued = <<>> /\ HookKinds = {}
       /\ \A w \in Workers : fiber[w].next = NoTurn

Submit(t) ==
    /\ At(Rpc, "idle")
    /\ \E w \in Workers : Free(w)
    /\ Patient \/ "resubmit" \in Faults
    /\ ~session.closed /\ t \notin session.keys /\ ~session.active
    /\ AcceptIn(Rpc, t)
    /\ UNCHANGED <<disk, daemon, task>>

Resume ==
    /\ At(Rpc, "idle")
    /\ session.pending # NoTurn /\ ~session.active
    /\ session' = [session EXCEPT !.active = TRUE, !.cancelled = FALSE]
    /\ \E w \in Workers : Spawn(w)
    /\ UNCHANGED <<store, disk, daemon>>

Queue(t) ==
    /\ At(Rpc, "idle")
    /\ Len(session.queued) < MaxQueued
    /\ session' = [session EXCEPT !.queued = Append(@, t)]
    /\ UNCHANGED <<store, disk, daemon, fiber, task>>

Waiting(c) == {w \in Workers : task[w][c].at = "waiting"}

\* notify_one on the waiter of every checkpoint.
NotifyWaiters ==
    LET held == {c \in Calls : Waiting(c) # {}}
    IN \E chosen \in [held -> Workers] :
         /\ \A c \in held : chosen[c] \in Waiting(c)
         /\ task' = [w \in Workers |-> [c \in Calls |->
                       IF c \in held /\ chosen[c] = w
                       THEN [task[w][c] EXCEPT !.at = "woken"] ELSE task[w][c]]]

Halted == [session EXCEPT !.cancelled = TRUE, !.active = FALSE,
                          !.pending = NoTurn, !.queued = <<>>]

Cancel ==
    /\ At(Rpc, "idle")
    /\ session' = [Halted EXCEPT !.terminal = TRUE]
    /\ LogTerminal(NoTurn, "cancelled")
    /\ NotifyWaiters
    /\ UNCHANGED <<disk, daemon, fiber>>

\* No terminal is appended, and nothing on disk says that it is closed.
Close ==
    /\ "close" \in Faults
    /\ At(Rpc, "idle")
    /\ session' = [Halted EXCEPT !.closed = TRUE, !.keys = {}]
    /\ NotifyWaiters
    /\ UNCHANGED <<store, disk, daemon, fiber>>

\* checkpoint.release, whether or not anyone waits there now.  Waiters also
\* poll for the token, so that its notification changes nothing.
Release(c) ==
    /\ At(Rpc, "idle")
    /\ c \in reached
    /\ tokens' = tokens \cup {c}
    /\ UNCHANGED <<files, claims, fired, reached, store, daemon, session, fiber, task>>

-----------------------------------------------------------------------------
(* A worker: worker_loop and execute_turn.                                 *)

Turn(w) == fiber[w].turn

ReadPending(w) ==
    /\ At(w, "read")
    /\ fiber' = [fiber EXCEPT ![w] =
                   IF session.pending = NoTurn THEN Idle
                   ELSE [Idle EXCEPT !.at = "top", !.turn = session.pending]]
    /\ UNCHANGED <<store, disk, daemon, session, task>>

\* The next model request, or the turn limit.
RequestModel(w) ==
    /\ At(w, "top")
    /\ IF fiber[w].round = Ceiling
       THEN /\ LogTerminal(Turn(w), "failure")
            /\ session' = [session EXCEPT !.terminal = TRUE]
            /\ Goto(w, "done")
       ELSE /\ Goto(w, IF ShouldStop THEN "done" ELSE "post")
            /\ UNCHANGED <<store, session>>
    /\ UNCHANGED <<disk, daemon, task>>

\* A timeout, a status that is not to be retried or whose retries are used up.
ModelFails(w) ==
    /\ At(w, "post")
    /\ LogTerminal(Turn(w), "failure")
    /\ session' = [session EXCEPT !.terminal = TRUE]
    /\ Goto(w, "done")
    /\ UNCHANGED <<disk, daemon, task>>

\* Any other error is the worker's.
ModelErrs(w) ==
    /\ At(w, "post")
    /\ Goto(w, "failed")
    /\ UNCHANGED <<store, disk, daemon, session, task>>

HasFrame(w) == fiber[w].round < Len(Plan[Turn(w)])

Frame(w) == Plan[Turn(w)][fiber[w].round + 1]

ModelReplies(w) ==
    /\ At(w, "post")
    /\ IF ShouldStop THEN Goto(w, "done") /\ UNCHANGED store
       ELSE /\ Log(Event("response", Turn(w), NoCall))
            /\ IF HasFrame(w)
               THEN fiber' = [fiber EXCEPT ![w].at = "prepare", ![w].index = 1]
               ELSE Goto(w, "finish")
    /\ UNCHANGED <<disk, daemon, session, task>>

\* The content is the terminal's.
Finish(w) ==
    /\ At(w, "finish")
    /\ \E how \in {"success", "failure"} : LogTerminal(Turn(w), how)
    /\ session' = [session EXCEPT !.terminal = TRUE]
    /\ Goto(w, "done")
    /\ UNCHANGED <<disk, daemon, task>>

\* Mutant: a result that is in the journal is not looked for.
PrepareCall_NoLookup(w) ==
    /\ At(w, "prepare")
    /\ LET i == fiber[w].index
           c == Frame(w)[i]
           listed == [task[w] EXCEPT ![c] = [at |-> "listed", turn |-> Turn(w),
                                             known |-> FALSE]]
       IN IF ShouldStop THEN Goto(w, "done") /\ NoTasks(w)
          ELSE IF i < Len(Frame(w))
          THEN /\ fiber' = [fiber EXCEPT ![w].index = i + 1]
               /\ task' = [task EXCEPT ![w] = listed]
          ELSE /\ Goto(w, "join")
               /\ task' = [task EXCEPT ![w] = [d \in Calls |->
                             IF listed[d].at = "listed"
                             THEN [listed[d] EXCEPT !.at = "start"] ELSE listed[d]]]
    /\ UNCHANGED <<store, disk, daemon, session>>

\* One call after the other; the last of a frame starts the tasks of them all.
PrepareCall(w) ==
    /\ At(w, "prepare")
    /\ LET i == fiber[w].index
           c == Frame(w)[i]
           listed == [task[w] EXCEPT ![c] = [at |-> "listed", turn |-> Turn(w),
                                             known |-> c \in session.results]]
       IN IF ShouldStop THEN Goto(w, "done") /\ NoTasks(w)
          ELSE IF i < Len(Frame(w))
          THEN /\ fiber' = [fiber EXCEPT ![w].index = i + 1]
               /\ task' = [task EXCEPT ![w] = listed]
          ELSE /\ Goto(w, "join")
               /\ task' = [task EXCEPT ![w] = [d \in Calls |->
                             IF listed[d].at = "listed"
                             THEN [listed[d] EXCEPT !.at = "start"] ELSE listed[d]]]
    /\ UNCHANGED <<store, disk, daemon, session>>

\* The tasks are awaited in order; one that stopped or failed ends the turn,
\* and those after it are left running.
Join(w) ==
    /\ At(w, "join")
    /\ LET unfinished == {i \in DOMAIN Frame(w) : task[w][Frame(w)[i]].at # "ok"}
           first == CHOOSE i \in unfinished : \A j \in unfinished : i <= j
       IN IF unfinished = {}
          THEN /\ fiber' = [fiber EXCEPT ![w].at = "top", ![w].round = @ + 1]
               /\ NoTasks(w)
          ELSE /\ UNCHANGED task
               /\ \/ task[w][Frame(w)[first]].at = "stopped" /\ Goto(w, "done")
                  \/ task[w][Frame(w)[first]].at = "error" /\ Goto(w, "failed")
    /\ UNCHANGED <<store, disk, daemon, session>>

\* execute_turn has returned: the session is given up, or a queued turn taken.
EndTurn(w) ==
    /\ At(w, "done")
    /\ LET goesOn == ~session.cancelled /\ ~session.closed /\ session.queued # <<>>
       IN /\ session' = [session EXCEPT !.pending = NoTurn, !.active = FALSE,
                                        !.queued = IF goesOn THEN Tail(@) ELSE @]
          /\ fiber' = [fiber EXCEPT ![w].at = "hook", ![w].hook = "completion",
                         ![w].next = IF goesOn THEN Head(session.queued) ELSE NoTurn]
    /\ UNCHANGED <<store, disk, daemon, task>>

\* accept_turn from the queue: a key that is known is passed over.
TakeQueued(w) ==
    /\ At(w, "next")
    /\ LET t == fiber[w].next
       IN \/ /\ ~session.closed /\ t \notin session.keys
             /\ AcceptIn(w, t)
          \/ /\ ~session.closed /\ t \in session.keys
             /\ Goto(w, "read") /\ UNCHANGED <<store, session>>
          \/ /\ session.closed
             /\ Goto(w, "failed") /\ UNCHANGED <<store, session>>
    /\ UNCHANGED <<disk, daemon, task>>

\* The error of worker_loop becomes a terminal; pending is left as it is.
WorkerFails(w) ==
    /\ At(w, "failed")
    /\ LogTerminal(Turn(w), "failure")
    /\ session' = [session EXCEPT !.terminal = TRUE, !.active = FALSE]
    /\ fiber' = [fiber EXCEPT ![w] = Idle]
    /\ UNCHANGED <<disk, daemon, task>>

-----------------------------------------------------------------------------
(* The task of a call: execute_prepared_tool_call.                         *)

TaskAt(w, c, here) == up /\ task[w][c].at = here

TaskGoto(w, c, there) == task' = [task EXCEPT ![w][c].at = there]

StartTask(w, c) ==
    /\ TaskAt(w, c, "start")
    /\ Checkpoint[c] # "before-effect"
    /\ TaskGoto(w, c, "run")
    /\ UNCHANGED <<store, disk, daemon, session, fiber>>

\* record_checkpoint_and_wait up to where it waits.
ReachCheckpoint(w, c) ==
    /\ \/ TaskAt(w, c, "start") /\ Checkpoint[c] = "before-effect"
       \/ TaskAt(w, c, "committed")
    /\ reached' = reached \cup {c}
    /\ TaskGoto(w, c, IF ShouldStop THEN "stopped" ELSE "waiting")
    /\ UNCHANGED <<files, claims, fired, tokens, store, daemon, session, fiber>>

\* A notification or a token ends the wait; without a token it was for nothing.
LeaveCheckpoint(w, c) ==
    /\ TaskAt(w, c, "woken") \/ (TaskAt(w, c, "waiting") /\ c \in tokens)
    /\ TaskGoto(w, c, IF ShouldStop THEN "stopped"
                      ELSE IF c \notin tokens THEN "error"
                      ELSE IF Checkpoint[c] = "before-effect" THEN "run" ELSE "ok")
    /\ UNCHANGED <<store, disk, daemon, session, fiber>>

\* The result is durable before the file is written.
CommitCall(w, c) ==
    /\ TaskAt(w, c, "run")
    /\ LET finished == IF Checkpoint[c] = "after-commit" THEN "committed" ELSE "ok"
       IN \/ /\ ShouldStop
             /\ TaskGoto(w, c, "stopped") /\ UNCHANGED <<store, session, files>>
          \/ /\ ~ShouldStop /\ task[w][c].known
             /\ TaskGoto(w, c, finished) /\ UNCHANGED <<store, session, files>>
          \/ /\ ~ShouldStop /\ ~task[w][c].known
             /\ Log(Event("result", task[w][c].turn, c))
             /\ session' = [session EXCEPT !.results = @ \cup {c}]
             /\ files' = [files EXCEPT ![PathOf[c]] = c]
             /\ TaskGoto(w, c, finished)
    /\ UNCHANGED <<claims, fired, reached, tokens, daemon, fiber>>

-----------------------------------------------------------------------------
(* Death and start.                                                        *)

\* The memory is lost with the process.
Gone ==
    /\ up' = FALSE /\ session' = Fresh
    /\ fiber' = [a \in DOMAIN fiber |-> Idle]
    /\ task' = [w \in Workers |-> [c \in Calls |-> NoTask]]

Die ==
    /\ up /\ starts < MaxStarts
    /\ Gone
    /\ torn' \in IF "tear" \in Faults THEN {torn, TRUE} ELSE {torn}
    /\ UNCHANGED <<journal, garbled, disk, starts>>

\* Mutant: the file is written before the result is durable.
DieInCommit_FileFirst(w, c) ==
    /\ starts < MaxStarts
    /\ TaskAt(w, c, "run") /\ ~ShouldStop /\ ~task[w][c].known
    /\ files' = [files EXCEPT ![PathOf[c]] = c]
    /\ Gone
    /\ UNCHANGED <<store, claims, fired, reached, tokens, starts>>

\* Killed between the durable result and the file.
DieInCommit(w, c) ==
    /\ starts < MaxStarts
    /\ TaskAt(w, c, "run") /\ ~ShouldStop /\ ~task[w][c].known
    /\ Log(Event("result", task[w][c].turn, c))
    /\ Gone
    /\ UNCHANGED <<disk, starts>>

\* serve ends at the end of its input or a signal: terminalize_active_for_control.
Stop ==
    /\ At(Rpc, "idle") /\ starts < MaxStarts
    /\ IF session.active THEN LogTerminal(NoTurn, "cancelled") ELSE UNCHANGED store
    /\ Gone
    /\ UNCHANGED <<disk, starts>>

\* MockHarness::open fails if the journal cannot be read.
Start ==
    /\ ~up /\ ~garbled
    /\ up' = TRUE /\ starts' = starts + 1
    /\ session' = Recovered
    /\ files' = Reconciled
    /\ UNCHANGED <<store, claims, fired, reached, tokens, fiber, task>>

-----------------------------------------------------------------------------
Work(w) ==
    \/ ReadPending(w) \/ RequestModel(w)
    \/ ModelFails(w) \/ ModelErrs(w) \/ ModelReplies(w)
    \/ Finish(w) \/ PrepareCall(w) \/ Join(w)
    \/ EndTurn(w) \/ TakeQueued(w) \/ WorkerFails(w)

RunHook(a) == SkipHook(a) \/ FireHook(a) \/ HookEnds(a)

RunTask(w, c) ==
    StartTask(w, c) \/ ReachCheckpoint(w, c) \/ LeaveCheckpoint(w, c) \/ CommitCall(w, c)

Request ==
    \/ \E t \in Turns : Submit(t) \/ Queue(t)
    \/ Resume \/ Cancel \/ Close
    \/ \E c \in Calls : Release(c)

Next ==
    \/ Request
    \/ \E a \in Workers \cup {Rpc} : RunHook(a)
    \/ \E w \in Workers : Work(w) \/ \E c \in Calls : RunTask(w, c)
    \/ Die \/ Stop \/ Start
    \/ \E w \in Workers, c \in Calls : DieInCommit(w, c)

Spec == Init /\ [][Next]_vars

-----------------------------------------------------------------------------
Statuses == {"none", "listed", "start", "waiting", "woken", "run", "committed",
             "ok", "stopped", "error"}

Places == {"idle", "read", "top", "post", "finish", "prepare", "join", "done",
           "hook", "fired", "next", "failed"}

SomeTurn == Turns \cup {NoTurn}

Record ==
    [event : {"accept"}, turn : Turns, item : {NoCall}]
    \cup [event : {"response"}, turn : Turns, item : {NoCall}]
    \cup [event : {"result"}, turn : Turns, item : Calls]
    \cup [event : {"hook"}, turn : Turns, item : Hooks]
    \cup [event : {"terminal"}, turn : SomeTurn, item : {"success", "failure", "cancelled"}]

Sessions ==
    [results : SUBSET Calls, hooks : SUBSET Hooks, keys : SUBSET Turns,
     terminal : BOOLEAN, pending : SomeTurn, queued : Seq(Turns),
     active : BOOLEAN, cancelled : BOOLEAN, closed : BOOLEAN]

TypeOK ==
    /\ journal \in Seq(Record) /\ torn \in BOOLEAN /\ garbled \in BOOLEAN
    /\ files \in [Paths -> Calls \cup {NoCall}]
    /\ claims \subseteq Hooks /\ fired \in [Hooks -> Nat]
    /\ reached \subseteq Calls /\ tokens \subseteq reached
    /\ up \in BOOLEAN /\ starts \in Nat
    /\ session \in Sessions
    /\ fiber \in [Workers \cup {Rpc} ->
                    [at : Places, turn : SomeTurn, round : Nat, index : Nat,
                     hook : {"none", "acceptance", "completion"}, next : SomeTurn]]
    /\ task \in [Workers -> [Calls -> [at : Statuses, known : BOOLEAN, turn : SomeTurn]]]

(* The in-memory index of a daemon is what a fresh start would read back   *)
(* from the journal, at every moment: nothing that it has acted on is lost *)
(* by dying now.  A closed session's keys are cleared.  (SessionState,     *)
(* "updated only after the corresponding durable append")                  *)
IndexMatchesJournal ==
    up => /\ session.results = Recovered.results
          /\ session.hooks = Recovered.hooks
          /\ session.closed \/ session.keys = Recovered.keys
          /\ session.terminal = Recovered.terminal
          /\ session.active => session.pending = Recovered.pending
                               \/ session.terminal

(* No file of the workspace has content whose call is not durably          *)
(* committed, and a running daemon's files are those of the newest results.*)
(* (execute_prepared_tool_call, reconcile_durable_tool_effects)            *)
EffectsFollowJournal ==
    /\ \A p \in Paths : files[p] # NoCall => files[p] \in Recorded("result")
    /\ up => files = Reconciled

(* A hook's program is run at most once for a turn, also when the daemon   *)
(* died before it had recorded the completion.  (SPEC row 39)              *)
HookFiresOnce == \A h \in Hooks : fired[h] <= 1

(* What the worker of a turn appends, it appends while that turn is open:  *)
(* no late reply, result or terminal of a turn lands in another or after   *)
(* its own terminal.                                                       *)
OpenAt(k) ==
    LET before == {l \in Marks : l < k}
    IN IF before = {} \/ journal[Newest(before)].event = "terminal" THEN NoTurn
       ELSE journal[Newest(before)].turn

OnlyTheOpenTurnSpeaks ==
    \A k \in DOMAIN journal :
        journal[k].event \in {"response", "result", "terminal"} /\ journal[k].turn # NoTurn
            => OpenAt(k) = journal[k].turn

(* A journal can be read back whatever was cut short: "a non-newline-      *)
(* terminated final record is treated as a torn tail and ignored".         *)
JournalStaysReadable == ~garbled

(* The journal implements the ledger: across deaths, resumes and repeated  *)
(* submits a turn is accepted once and a call has one effect, in its turn. *)
Effects == {[at |-> k, turn |-> journal[k].turn, call |-> journal[k].item] :
              k \in Records("result")}

Ledger == INSTANCE TurnLedger
            WITH accepted <- AcceptedTurns, open <- Pending, effects <- Effects
LedgerSpec == Ledger!Spec

\* The scheduler runs every fiber and task, a daemon that died is started and
\* its pending turn resumed, and what waits at a checkpoint is released.
FairSpec ==
    /\ Spec
    /\ \A w \in Workers : WF_vars(Work(w))
    /\ \A w \in Workers, c \in Calls : WF_vars(RunTask(w, c))
    /\ \A a \in Workers \cup {Rpc} : WF_vars(RunHook(a))
    /\ \A c \in Calls : WF_vars(Release(c))
    /\ WF_vars(Start) /\ WF_vars(Resume)

(* An accepted turn is over some day, through however many deaths.         *)
AcceptedTurnEnds == \A t \in Turns : (Pending = t) ~> (Pending # t)
=============================================================================
