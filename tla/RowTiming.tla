------------------------------- MODULE RowTiming -------------------------------
(***************************************************************************)
(* The external row clocks of src/src/row_timing.rs, and the order in      *)
(* which runner::run_inner uses them.  A matrix row works either at the    *)
(* top level, on sessions of the main driver, or in a collection that      *)
(* times several rows together with drivers of its own.  All of it runs on *)
(* one task, the collections one after another.                            *)
(*                                                                         *)
(* A driver is known to the ledger by its address, and no two drivers here *)
(* share one.  A session's seen set clears when it is submitted and only   *)
(* matters while it is pending: one terminal ends that, so pending stands  *)
(* for both.                                                               *)
(***************************************************************************)
EXTENDS Naturals, FiniteSets

CONSTANTS
    Rows, Sessions,
    MainDrivers,     \* the main driver and those that replace it on recovery
    OtherDrivers,    \* drivers of collections
    Collections,     \* sets of rows timed by row_timing::rows
    Work,            \* session -> the rows it works for
    Recovering,      \* rows that run_inner may close with Ledger::complete
    MaxTime, MaxTurns,   \* bounds: clock ticks, submissions for a session
    NoTime, NoBounds, NoClock, NoDriver

Drivers == MainDrivers \cup OtherDrivers

Times  == Nat \cup {NoTime}
Bounds == [start : Nat, end : Times, submitted : BOOLEAN, finished : Times]
Clock  == [rows : SUBSET Rows, pending : BOOLEAN]

\* A session works for one row or for one collection, and the recovering rows
\* are in no collection.
ASSUME TimingAssumption ==
    /\ MaxTime \in Nat /\ MaxTurns \in Nat
    /\ MainDrivers \cap OtherDrivers = {} /\ NoDriver \notin Drivers
    /\ NoTime \notin Nat /\ NoBounds \notin Bounds /\ NoClock \notin Clock
    /\ Collections \subseteq SUBSET Rows /\ {} \notin Collections
    /\ Work \in [Sessions -> SUBSET Rows]
    /\ \A s \in Sessions : \A c \in Collections :
          Work[s] # {} /\ (Work[s] = c \/ Work[s] \cap c = {})
    /\ Recovering \subseteq Rows
    /\ \A c \in Collections : c \cap Recovering = {}
    /\ \A s \in Sessions : \A r \in Work[s] \cap Recovering : Work[s] = {r}

VARIABLES
    now,
    bounds,     \* State.rows
    clocks,     \* State.sessions: <<driver, session>> -> its clock
    scope,      \* the rows of the collection that is running, or {}
    over,       \* whether the top level is done and its driver shut down
    at,         \* the driver a session is spoken to through
    turns,      \* how often each session was submitted
    due,        \* submitted sessions whose terminal nobody has received
    heard       \* when the last terminal of each row's work was received

ledger == <<bounds, clocks>>
truth  == <<turns, due, heard>>
vars   == <<now, ledger, scope, over, at, truth>>

(* Types, and that only submitted rows have session clocks (submitted) and  *)
(* a collection's rows have bounds (rows).                                 *)
TypeOK ==
    /\ now \in 0 .. MaxTime
    /\ bounds \in [Rows -> Bounds \cup {NoBounds}]
    /\ clocks \in [Drivers \X Sessions -> Clock \cup {NoClock}]
    /\ scope \in Collections \cup {{}}
    /\ over \in BOOLEAN
    /\ at \in [Sessions -> Drivers \cup {NoDriver}]
    /\ turns \in [Sessions -> 0 .. MaxTurns]
    /\ due \subseteq Sessions
    /\ heard \in [Rows -> Times]
    /\ \A k \in DOMAIN clocks : clocks[k] # NoClock =>
          \A r \in clocks[k].rows : bounds[r] # NoBounds /\ bounds[r].submitted
    /\ \A r \in scope : bounds[r] # NoBounds

Init ==
    /\ now = 0
    /\ bounds = [r \in Rows |-> NoBounds]
    /\ clocks = [k \in Drivers \X Sessions |-> NoClock]
    /\ scope = {} /\ over = FALSE
    /\ at = [s \in Sessions |-> NoDriver]
    /\ turns = [s \in Sessions |-> 0]
    /\ due = {} /\ heard = [r \in Rows |-> NoTime]

Tick ==
    /\ now < MaxTime /\ now' = now + 1
    /\ UNCHANGED <<ledger, scope, over, at, truth>>

\* Top-level work goes on until the main driver is shut down, and never while
\* a collection runs.
MayWork(s) ==
    IF Work[s] \in Collections THEN scope = Work[s] ELSE scope = {} /\ ~over

DriversFor(s) == IF Work[s] \in Collections THEN OtherDrivers ELSE MainDrivers

-----------------------------------------------------------------------------
(* row_timing::rows around a collection, which runs once.                  *)

OpenRows(c) ==
    /\ scope = {} /\ \A r \in c : bounds[r] = NoBounds
    /\ scope' = c
    /\ bounds' = [r \in Rows |->
          IF r \in c THEN [start |-> now, end |-> NoTime, submitted |-> FALSE,
                           finished |-> NoTime]
                     ELSE bounds[r]]
    /\ UNCHANGED <<now, clocks, over, at, truth>>

CloseRows ==
    /\ scope # {}
    /\ scope' = {}
    /\ bounds' = [r \in Rows |->
          IF r \notin scope THEN bounds[r]
          ELSE [bounds[r] EXCEPT !.finished = now,
                                 !.end = IF bounds[r].submitted THEN @ ELSE now]]
    /\ UNCHANGED <<now, clocks, over, at, truth>>

-----------------------------------------------------------------------------
(* What the drivers report.                                                *)

\* Mutant: only rows that a collection has opened get bounds.
Reopen_Known(b) ==
    IF b = NoBounds THEN NoBounds
    ELSE [b EXCEPT !.start = IF b.submitted THEN @ ELSE now,
                   !.end = NoTime, !.submitted = TRUE, !.finished = NoTime]

\* A submission starts a row's clock, the first time, and reopens it.
Reopen(b) ==
    IF b # NoBounds /\ b.submitted
    THEN [b EXCEPT !.end = NoTime, !.finished = NoTime]
    ELSE [start |-> now, end |-> NoTime, submitted |-> TRUE, finished |-> NoTime]

\* Driver::submit.  A session is submitted again only through the driver that
\* has its clock: a collection that recovers a session replays it.
Submit(d, s) ==
    /\ MayWork(s) /\ turns[s] < MaxTurns
    /\ d \in DriversFor(s)
    /\ at[s] \in {d, NoDriver} /\ (at[s] = d => clocks[<<d, s>>] # NoClock)
    /\ bounds' = [r \in Rows |-> IF r \in Work[s] THEN Reopen(bounds[r]) ELSE bounds[r]]
    /\ clocks' = [clocks EXCEPT ![<<d, s>>] = [rows |-> Work[s], pending |-> TRUE]]
    /\ at' = [at EXCEPT ![s] = d]
    /\ turns' = [turns EXCEPT ![s] = @ + 1]
    /\ due' = due \cup {s}
    /\ UNCHANGED <<now, scope, over, heard>>

PendingKeys(s) ==
    {k \in Drivers \X {s} : clocks[k] # NoClock /\ clocks[k].pending}

\* Mutant: a driver's events belong to the sessions it submitted itself.
KeysFor_Exact(d, s) == {k \in {<<d, s>>} : clocks[k] # NoClock}

\* The clock of the driver itself, or the only one the session has pending.
KeysFor(d, s) ==
    IF clocks[<<d, s>>] # NoClock THEN {<<d, s>>}
    ELSE IF Cardinality(PendingKeys(s)) = 1 THEN PendingKeys(s) ELSE {}

\* attach, replay_persisted and the like return events with the terminal of the
\* session's last turn among them, for the first time or again.
Observe(s) ==
    LET hit  == {k \in KeysFor(at[s], s) : clocks[k].pending}
        rows == UNION {clocks[k].rows : k \in hit}
    IN
    /\ MayWork(s) /\ at[s] # NoDriver
    /\ clocks' = [k \in DOMAIN clocks |->
          IF k \in hit THEN [clocks[k] EXCEPT !.pending = FALSE] ELSE clocks[k]]
    /\ bounds' = [r \in Rows |->
          IF r \in rows THEN [bounds[r] EXCEPT !.end = now] ELSE bounds[r]]
    /\ due' = due \ {s}
    /\ heard' = [r \in Rows |-> IF s \in due /\ r \in Work[s] THEN now ELSE heard[r]]
    /\ UNCHANGED <<now, scope, over, at, turns>>

-----------------------------------------------------------------------------
(* Recovery.                                                               *)

Unused(d) == \A s \in Sessions : at[s] # d /\ clocks[<<d, s>>] = NoClock

MoveSessions(d, e) ==
    at' = [s \in Sessions |-> IF at[s] = d THEN e ELSE at[s]]

\* The top level recovers with a new driver and rebind_driver.
Rebind(d, e) ==
    /\ scope = {} /\ ~over
    /\ d \in MainDrivers /\ e \in MainDrivers /\ ~Unused(d) /\ Unused(e)
    /\ MoveSessions(d, e)
    /\ clocks' = [k \in DOMAIN clocks |->
          IF k[1] = e THEN clocks[<<d, k[2]>>]
          ELSE IF k[1] = d THEN NoClock ELSE clocks[k]]
    /\ UNCHANGED <<now, bounds, scope, over, truth>>

\* A collection that kills its harness goes on with a new driver.
Replace(d, e) ==
    /\ scope # {}
    /\ d \in OtherDrivers /\ e \in OtherDrivers /\ ~Unused(d) /\ Unused(e)
    /\ \E s \in Sessions : at[s] = d /\ Work[s] = scope
    /\ MoveSessions(d, e)
    /\ UNCHANGED <<now, ledger, scope, over, truth>>

-----------------------------------------------------------------------------
(* What the runner reports.                                                *)

\* row_timeout: Ledger::finish, which keeps an earlier stop.
Finish(r) ==
    /\ scope = {} /\ bounds[r] # NoBounds
    /\ bounds[r].finished = NoTime
    /\ bounds' = [bounds EXCEPT ![r].finished = now]
    /\ UNCHANGED <<now, clocks, scope, over, at, truth>>

\* Mutant: every session is retired.
Retire_All(k, rows) == [clocks[k] EXCEPT !.pending = FALSE]

Retire(k, rows) ==
    [clocks[k] EXCEPT !.pending = clocks[k].pending /\ clocks[k].rows \cap rows = {}]

\* The main driver is shut down, and Ledger::complete closes those recovering
\* rows that have a verdict, right or wrong.
EndTopLevel(completed) ==
    /\ scope = {} /\ ~over
    /\ over' = TRUE
    /\ clocks' = [k \in DOMAIN clocks |->
          IF clocks[k] # NoClock /\ completed # {} THEN Retire(k, completed)
                                                   ELSE clocks[k]]
    /\ bounds' = [r \in Rows |->
          IF r \in completed /\ bounds[r] # NoBounds
          THEN [bounds[r] EXCEPT !.end = now, !.finished = now] ELSE bounds[r]]
    /\ UNCHANGED <<now, scope, at, truth>>

Pending(r) ==
    \E k \in DOMAIN clocks :
        clocks[k] # NoClock /\ clocks[k].pending /\ r \in clocks[k].rows

\* Mutant: a row's clock is stopped by terminals only.
Reading_EndOnly(r) == bounds[r].end

\* Ledger::apply: where a row's clock stands; NoTime if it is still running.
Reading(r) == IF Pending(r) THEN bounds[r].finished ELSE bounds[r].end

Label(r) ==
    CASE bounds[r].submitted /\ ~Pending(r) /\ bounds[r].end # NoTime ->
            "submit-to-terminal"
      [] bounds[r].submitted /\ (Pending(r) \/ bounds[r].end = NoTime) ->
            "submit-to-interruption"
      [] ~bounds[r].submitted -> "operation"

Next ==
    \/ Tick \/ CloseRows
    \/ \E c \in Collections : OpenRows(c)
    \/ \E s \in Sessions : Observe(s) \/ \E d \in Drivers : Submit(d, s)
    \/ \E d, e \in Drivers : Rebind(d, e) \/ Replace(d, e)
    \/ \E r \in Rows : Finish(r)
    \/ \E completed \in SUBSET Recovering : EndTopLevel(completed)

Spec == Init /\ [][Next]_vars

-----------------------------------------------------------------------------
Launched == {r \in Rows : bounds[r] # NoBounds}

Unanswered(r) == \E s \in due : r \in Work[s]

(* Once a row was finished, by its collection's end or by a timeout, its    *)
(* clock stands still: what other rows do later is not part of its time.   *)
(* (rows, Ledger::finish, and how apply chooses between end and finished)   *)
FinishedRowsStandStill ==
    \A r \in Launched : bounds[r].finished # NoTime => Reading(r) # NoTime

(* A row counts as terminal exactly when all its submissions have been     *)
(* answered, whichever driver received the answer, and its clock stands at *)
(* the last answer - except for rows that Ledger::complete has closed.      *)
(* (submitted, observed and its fallback, rebind_driver)                   *)
LabelFollowsAnswers ==
    \A r \in Launched \ {q \in Recovering : over} :
        bounds[r].submitted =>
            /\ Label(r) = "submit-to-terminal" <=> ~Unanswered(r)
            /\ ~Unanswered(r) => Reading(r) = heard[r]

OwnWork(r) ==
    \/ \E s \in Sessions : r \in Work[s] /\ (turns'[s] # turns[s] \/ s \in due \ due')
    \/ r \in scope /\ scope' = {}
    \/ r \in Recovering /\ over' # over

(* A stopped clock is moved by its own row's submissions, first answers,   *)
(* collection and completion, and by nothing else: not by a terminal that  *)
(* is polled again, nor by a recovery, nor by another row.                 *)
(* (submitted, observed, rebind_driver, complete)                          *)
OnlyOwnWorkMovesAClock ==
    [][ \A r \in Launched :
          Reading(r) # NoTime /\ Reading(r)' # Reading(r) => OwnWork(r) ]_vars
=============================================================================
