------------------------------ MODULE RowSchedule ------------------------------
(***************************************************************************)
(* How runner::run_inner works through the selected rows of the matrix, and *)
(* what the report says of each row if the run gets to its end, if the     *)
(* deadline of the run drops run_inner at one of its awaits, or if an      *)
(* error ends it.  The report of an interrupted run is made from           *)
(* RunProgress, which run_inner keeps beside its local variables.          *)
(*                                                                         *)
(* Top-level rows have sessions of the main driver; collections measure a  *)
(* few rows together, on drivers of their own, before or after them.  A    *)
(* row may be in both.  Rows and sessions are taken in any order.          *)
(***************************************************************************)
EXTENDS Naturals, FiniteSets

CONSTANTS
    Rows,          \* the selected rows
    Supported,     \* those the manifest has the capability for
    Resource,      \* the rows measured before all others, or {}
    TopRows,       \* rows with actors on the main driver
    Actors,        \* how many actors, and so sessions, each of them has
    Precollected,  \* top-level rows that are collected ahead (16, 30, 37)
    Controlled,    \* top-level rows with a control operation (18, 31, 32, 33)
    Cancelled,     \* top-level rows whose turn is cancelled as they are launched (36)
    Recovering,    \* top-level rows that are to outlive a kill (35, 40)
    Collections,   \* the later sets of rows that are measured together
    Leader,        \* of some collections: the row whose capability they need
    Lenient,       \* collections whose every failure is the rows' own
    NoRow, NoCollection, NoReport

SessionsOf(r) == {r} \X (1 .. Actors[r])
Sessions == UNION {SessionsOf(r) : r \in TopRows}

Outcomes == {"measured", "missing", "error", "unsupported",
             "not launched", "active", "unevaluated", "aborted"}
Reports  == [kind : {"final", "deadline", "abort"}, rows : [Rows -> Outcomes]]

ASSUME ScheduleAssumption ==
    /\ IsFiniteSet(TopRows) /\ TopRows \subseteq Rows /\ Supported \subseteq Rows
    /\ Actors \in [TopRows -> Nat \ {0}]
    /\ Precollected \cup Controlled \cup Cancelled \cup Recovering \subseteq TopRows
    /\ Precollected \cap Controlled = {}
    /\ (Precollected \cup Controlled) \cap Recovering = {}
    /\ Resource \subseteq Rows /\ Resource \cap TopRows = {}
    /\ Collections \subseteq SUBSET (Rows \ Resource) /\ {} \notin Collections
    /\ DOMAIN Leader \subseteq Collections
    /\ \A c \in DOMAIN Leader : Leader[c] \in Rows
    /\ Lenient \subseteq Collections
    /\ NoRow \notin Rows /\ NoCollection \notin {Resource} \cup Collections
    /\ NoReport \notin Reports

VARIABLES
    step,        \* where run_inner is
    left,        \* rows still to be handled in this step
    launching,   \* the row whose sessions are being created
    pass,        \* sessions still to be attached in this pass of collect_terminals
    late,        \* whether collect_terminals has used up its time
    running,     \* the collection that runs
    toRun,       \* collections still to run
    launched, completed, rowErrors,   \* the fields of RunProgress
    errors,      \* run_inner's own row_errors
    failed,      \* collect_terminals: errors
    open,        \* rows with an entry in sessions
    pre,         \* rows with precollected_events
    held,        \* recovering rows whose events before the kill are there
    complete,    \* collect_terminals: sessions seen to terminalize
    resumed,     \* recovering rows whose recovery gave valid evidence
    trials,      \* collections that have returned their trials
    begun,       \* rows that any work was begun for
    report

place  == <<step, left, launching, pass, late, running, toRun>>
ledger == <<launched, completed, rowErrors>>
local  == <<errors, failed, open, pre, held, complete, resumed, trials>>
vars   == <<place, ledger, local, begun, report>>

Steps == {"start", "resource", "launch", "early", "collect", "expire", "kill",
          "recover", "shutdown", "derive", "evaluate", "over"}

TypeOK ==
    /\ step \in Steps
    /\ left \subseteq TopRows /\ launching \in TopRows \cup {NoRow}
    /\ pass \subseteq Sessions /\ late \in BOOLEAN
    /\ running \in {Resource, NoCollection} \cup Collections
    /\ toRun \subseteq Collections
    /\ launched \subseteq Rows /\ completed \subseteq Rows
    /\ rowErrors \subseteq Rows /\ errors \subseteq Rows
    /\ failed \subseteq TopRows /\ open \subseteq TopRows
    /\ pre \subseteq TopRows /\ held \subseteq TopRows
    /\ complete \subseteq Sessions /\ resumed \subseteq TopRows
    /\ trials \subseteq {Resource} \cup Collections
    /\ begun \subseteq Rows
    /\ report \in Reports \cup {NoReport}

\* Rows the manifest lacks the capability for have a result from the start.
Init ==
    /\ step = "start"
    /\ left = {} /\ launching = NoRow /\ pass = {} /\ late = FALSE
    /\ running = NoCollection /\ toRun = {}
    /\ launched = {} /\ completed = Rows \ Supported /\ rowErrors = {}
    /\ errors = {} /\ failed = {} /\ open = {} /\ pre = {} /\ held = {}
    /\ complete = {} /\ resumed = {} /\ trials = {}
    /\ begun = {} /\ report = NoReport

\* row_timeout, and what a lenient collection does with its errors.
RowsFail(rows) ==
    /\ errors' = errors \cup rows
    /\ rowErrors' = rowErrors \cup rows

-----------------------------------------------------------------------------
(* The resource rows and the launch of the top-level rows.                 *)

\* The model server and the main driver are started.
Ready ==
    /\ step = "start"
    /\ IF Resource \cap Supported # {}
       THEN /\ step' = "resource" /\ running' = Resource
            /\ begun' = begun \cup Resource
            /\ UNCHANGED left
       ELSE /\ step' = "launch" /\ left' = TopRows \cap Supported
            /\ UNCHANGED <<running, begun>>
    /\ UNCHANGED <<launching, pass, late, toRun, ledger, local, report>>

ResourceEnds ==
    /\ step = "resource"
    /\ step' = "launch" /\ left' = TopRows \cap Supported
    /\ running' = NoCollection
    /\ \/ /\ launched' = launched \cup Resource
          /\ completed' = completed \cup Resource
          /\ trials' = trials \cup {Resource}
          /\ UNCHANGED <<rowErrors, errors>>
       \/ /\ RowsFail(Resource)
          /\ UNCHANGED <<launched, completed, trials>>
    /\ UNCHANGED <<launching, pass, late, toRun, failed, open, pre, held, complete,
                   resumed, begun, report>>

Launch(r) ==
    /\ step = "launch" /\ launching = NoRow /\ r \in left
    /\ left' = left \ {r} /\ launching' = r
    /\ launched' = launched \cup {r} /\ begun' = begun \cup {r}
    /\ UNCHANGED <<step, pass, late, running, toRun, completed, rowErrors, local,
                   report>>

\* Its sessions are created and prompted, or one of these calls times out.  A
\* session to be cancelled stays open even if it cannot be cancelled in time.
LaunchEnds ==
    /\ step = "launch" /\ launching # NoRow
    /\ launching' = NoRow
    /\ \/ open' = open \cup {launching} /\ UNCHANGED <<rowErrors, errors>>
       \/ RowsFail({launching}) /\ UNCHANGED open
       \/ launching \in Cancelled /\ open' = open \cup {launching}
          /\ RowsFail({launching})
    /\ UNCHANGED <<step, left, pass, late, running, toRun, launched, completed,
                   failed, pre, held, complete, resumed, trials, begun, report>>

LaunchDone ==
    /\ step = "launch" /\ launching = NoRow /\ left = {}
    /\ step' = "early"
    /\ left' = open \cap (Precollected \cup Controlled \cup Recovering)
    /\ UNCHANGED <<launching, pass, late, running, toRun, ledger, local, begun,
                   report>>

-----------------------------------------------------------------------------
(* Rows with something of their own to be done before all are collected.   *)

EarlyStep(r) ==
    /\ step = "early" /\ r \in left
    /\ left' = left \ {r}
    /\ UNCHANGED <<step, launching, pass, late, running, toRun, launched, failed, open,
                   complete, resumed, trials, begun, report>>

Precollect(r) ==
    /\ r \in Precollected /\ EarlyStep(r)
    /\ completed' = completed \cup {r} /\ pre' = pre \cup {r}
    /\ UNCHANGED <<rowErrors, errors, held>>

Control(r) ==
    /\ r \in Controlled /\ EarlyStep(r)
    /\ UNCHANGED <<completed, rowErrors, errors, pre, held>>

\* What the row did before the kill: its terminal or a named checkpoint.
Hold(r) ==
    /\ r \in Recovering /\ EarlyStep(r)
    /\ held' = held \cup {r}
    /\ UNCHANGED <<completed, rowErrors, errors, pre>>

EarlyTimeout(r) ==
    /\ EarlyStep(r)
    /\ RowsFail({r})
    /\ UNCHANGED <<completed, pre, held>>

-----------------------------------------------------------------------------
(* collect_terminals.                                                      *)

\* sessions_to_collect, and needs_recovery.
ToCollect == open \ (pre \cup (IF held # {} THEN Recovering ELSE {}))
Expected  == UNION {SessionsOf(r) : r \in ToCollect}

StartCollecting ==
    /\ step = "early" /\ left = {}
    /\ step' = "collect" /\ pass' = Expected
    /\ UNCHANGED <<left, launching, late, running, toRun, ledger, local, begun,
                   report>>

CollectorClock ==
    /\ step = "collect" /\ ~late
    /\ late' = TRUE
    /\ UNCHANGED <<step, left, launching, pass, running, toRun, ledger, local, begun,
                   report>>

\* The session has not terminalized yet.
AttachPending(s) ==
    /\ step = "collect" /\ s \in pass
    /\ pass' = pass \ {s}
    /\ UNCHANGED <<step, left, launching, late, running, toRun, ledger, local, begun,
                   report>>

Answered(r, seen) == SessionsOf(r) \subseteq seen

\* Mutant: the first terminal completes the row.
AttachTerminal_First(s) ==
    /\ step = "collect" /\ s \in pass
    /\ pass' = pass \ {s}
    /\ complete' = complete \cup {s}
    /\ completed' = completed \cup {s[1]}
    /\ UNCHANGED <<step, left, launching, late, running, toRun, launched, rowErrors,
                   errors, failed, open, pre, held, resumed, trials, begun, report>>

AttachTerminal(s) ==
    /\ step = "collect" /\ s \in pass
    /\ pass' = pass \ {s}
    /\ complete' = complete \cup {s}
    /\ completed' = IF Answered(s[1], complete') THEN completed \cup {s[1]}
                                                 ELSE completed
    /\ UNCHANGED <<step, left, launching, late, running, toRun, launched, rowErrors,
                   errors, failed, open, pre, held, resumed, trials, begun, report>>

\* The call itself times out: the row fails, its other sessions are cancelled.
AttachTimeout(s) ==
    /\ step = "collect" /\ s \in pass
    /\ pass' = pass \ SessionsOf(s[1])
    /\ failed' = failed \cup {s[1]}
    /\ rowErrors' = rowErrors \cup {s[1]}
    /\ UNCHANGED <<step, left, launching, late, running, toRun, launched, completed,
                   errors, open, pre, held, complete, resumed, trials, begun, report>>

\* complete.len() + errored_sessions == expected
AllCounted ==
    Cardinality(complete) + Cardinality(UNION {SessionsOf(r) : r \in failed})
        = Cardinality(Expected)

\* Rows with an entry in the events that the collector and run_inner have.
WithEvents == {s[1] : s \in complete} \cup pre

\* The collector returns: run_inner takes over its errors, and marks as
\* completed what has events and no error.
Leave(marked) ==
    /\ errors' = errors \cup failed
    /\ completed' = completed \cup marked
                        \cup {r \in WithEvents \ Recovering : r \notin errors'}
    /\ step' = IF held # {} THEN "kill" ELSE "shutdown"

\* Mutant: the pass ends the collection when every row has been heard of.
AllIn_Rows ==
    /\ step = "collect" /\ pass = {}
    /\ {s[1] : s \in complete} \cup failed = ToCollect
    /\ Leave({s[1] : s \in complete})
    /\ UNCHANGED <<left, launching, pass, late, running, toRun, launched, rowErrors,
                   failed, open, pre, held, complete, resumed, trials, begun, report>>

AllIn ==
    /\ step = "collect" /\ pass = {} /\ AllCounted
    /\ Leave({s[1] : s \in complete})
    /\ UNCHANGED <<left, launching, pass, late, running, toRun, launched, rowErrors,
                   failed, open, pre, held, complete, resumed, trials, begun, report>>

\* Sessions that are still to be attached, in the next pass.
Outstanding == {s \in Expected : s \notin complete /\ s[1] \notin failed}

NextPass ==
    /\ step = "collect" /\ pass = {} /\ ~AllCounted /\ ~late
    /\ pass' = Outstanding
    /\ UNCHANGED <<step, left, launching, late, running, toRun, ledger, local, begun,
                   report>>

\* Mutant: a collection waits for its last session.
TimeUp_Never ==
    /\ step = "collect" /\ pass = {} /\ ~AllCounted /\ late
    /\ pass' = Outstanding
    /\ UNCHANGED <<step, left, launching, late, running, toRun, ledger, local, begun,
                   report>>

TimeUp ==
    /\ step = "collect" /\ pass = {} /\ ~AllCounted /\ late
    /\ step' = "expire" /\ left' = ToCollect
    /\ UNCHANGED <<launching, pass, late, running, toRun, ledger, local, begun, report>>

\* One row after the other: complete, or failed and cancelled.
Expire(r) ==
    /\ step = "expire" /\ r \in left
    /\ left' = left \ {r}
    /\ IF r \in failed
       THEN UNCHANGED <<completed, rowErrors, failed>>
       ELSE IF Answered(r, complete)
       THEN completed' = completed \cup {r} /\ UNCHANGED <<rowErrors, failed>>
       ELSE /\ failed' = failed \cup {r} /\ rowErrors' = rowErrors \cup {r}
            /\ UNCHANGED completed
    /\ UNCHANGED <<step, launching, pass, late, running, toRun, launched, errors, open,
                   pre, held, complete, resumed, trials, begun, report>>

ExpireDone ==
    /\ step = "expire" /\ left = {}
    /\ Leave({})
    /\ UNCHANGED <<left, launching, pass, late, running, toRun, launched, rowErrors,
                   failed, open, pre, held, complete, resumed, trials, begun, report>>

-----------------------------------------------------------------------------
(* The recovery.                                                           *)

Runnable == {c \in Collections : c \in DOMAIN Leader => Leader[c] \in Supported}

\* The owned tree is killed.  If it does not go, nothing is recovered.
Kill ==
    /\ step = "kill"
    /\ \/ step' = "derive" /\ toRun' = Runnable /\ UNCHANGED left
       \/ step' = "recover" /\ left' = open \cap Recovering /\ UNCHANGED toRun
    /\ UNCHANGED <<launching, pass, late, running, ledger, local, begun, report>>

\* A new daemon resumes or replays the row: validly, too late, or not validly.
Recover(r) ==
    /\ step = "recover" /\ r \in left
    /\ left' = left \ {r}
    /\ \/ /\ completed' = completed \cup {r} /\ resumed' = resumed \cup {r}
          /\ UNCHANGED <<rowErrors, errors>>
       \/ RowsFail({r}) /\ UNCHANGED <<completed, resumed>>
       \/ UNCHANGED <<completed, rowErrors, errors, resumed>>
    /\ UNCHANGED <<step, launching, pass, late, running, toRun, launched, failed, open,
                   pre, held, complete, trials, begun, report>>

RecoverDone ==
    /\ step = "recover" /\ left = {}
    /\ step' = "shutdown"
    /\ UNCHANGED <<left, launching, pass, late, running, toRun, ledger, local, begun,
                   report>>

ShutDown ==
    /\ step = "shutdown"
    /\ step' = "derive" /\ toRun' = Runnable
    /\ UNCHANGED <<left, launching, pass, late, running, ledger, local, begun, report>>

-----------------------------------------------------------------------------
(* The collections and the end.                                            *)

RunCollection(c) ==
    /\ step = "derive" /\ running = NoCollection /\ c \in toRun
    /\ toRun' = toRun \ {c} /\ running' = c
    /\ begun' = begun \cup c
    /\ UNCHANGED <<step, left, launching, pass, late, ledger, local, report>>

\* An error that is not the rows' own aborts the run instead.
CollectionEnds ==
    /\ step = "derive" /\ running # NoCollection
    /\ running' = NoCollection
    /\ \/ trials' = trials \cup {running} /\ UNCHANGED <<rowErrors, errors>>
       \/ RowsFail(running) /\ UNCHANGED trials
    /\ UNCHANGED <<step, left, launching, pass, late, toRun, launched, completed,
                   failed, open, pre, held, complete, resumed, begun, report>>

DeriveDone ==
    /\ step = "derive" /\ running = NoCollection /\ toRun = {}
    /\ step' = "evaluate"
    /\ UNCHANGED <<left, launching, pass, late, running, toRun, ledger, local, begun,
                   report>>

Measuring(r) == {c \in {Resource} \cup Collections : r \in c}

HasEvidence(r) ==
    IF Measuring(r) # {} THEN Measuring(r) \cap trials # {}
                         ELSE r \in WithEvents \cup held \cup resumed

\* Mutant: evidence that came in after a timeout is judged nevertheless.
FinalOutcome_Late(r) ==
    IF r \notin Supported THEN "unsupported"
    ELSE IF HasEvidence(r) THEN "measured"
    ELSE IF r \in errors THEN "error" ELSE "missing"

\* The evaluation of a row.
FinalOutcome(r) ==
    IF r \in errors THEN "error"
    ELSE IF r \notin Supported THEN "unsupported"
    ELSE IF HasEvidence(r) THEN "measured" ELSE "missing"

\* write_interrupted_report, for a deadline: row errors and results first.
\* "not launched" and "active" have the outcome "deadline".
DeadlineOutcome(r) ==
    IF r \in rowErrors THEN "error"
    ELSE IF r \notin Supported THEN "unsupported"
    ELSE IF r \in completed THEN "unevaluated"
    ELSE IF r \in launched THEN "active" ELSE "not launched"

End(kind, outcomes) ==
    /\ step' = "over"
    /\ report' = [kind |-> kind, rows |-> outcomes]
    /\ UNCHANGED <<left, launching, pass, late, running, toRun, ledger, local, begun>>

Finish == step = "evaluate" /\ End("final", [r \in Rows |-> FinalOutcome(r)])

\* Where run_inner waits for something and can be dropped, or fail.
Waiting ==
    \/ step \in {"start", "collect", "expire", "kill", "recover", "shutdown", "evaluate"}
    \/ step = "launch" /\ launching # NoRow
    \/ step \in {"resource", "derive"} /\ running # NoCollection
    \/ step = "early" /\ left # {}

Deadline == Waiting /\ End("deadline", [r \in Rows |-> DeadlineOutcome(r)])

\* An error that is no row's own.  Its report ignores what is in the ledger.
Abort ==
    /\ Waiting
    /\ running \notin Lenient
    /\ End("abort", [r \in Rows |-> "aborted"])

-----------------------------------------------------------------------------
Work ==
    \/ Ready \/ ResourceEnds
    \/ \E r \in TopRows : Launch(r)
    \/ LaunchEnds \/ LaunchDone
    \/ \E r \in TopRows : Precollect(r) \/ Control(r) \/ Hold(r) \/ EarlyTimeout(r)
    \/ StartCollecting
    \/ \E s \in Sessions : AttachPending(s) \/ AttachTerminal(s) \/ AttachTimeout(s)
    \/ AllIn \/ NextPass \/ TimeUp
    \/ \E r \in TopRows : Expire(r) \/ Recover(r)
    \/ ExpireDone \/ Kill \/ RecoverDone \/ ShutDown
    \/ \E c \in Collections : RunCollection(c)
    \/ CollectionEnds \/ DeriveDone \/ Finish

Next == Work \/ CollectorClock \/ Deadline \/ Abort

Spec == Init /\ [][Next]_vars

\* Every call of a driver returns, in time or with a timeout, and time passes.
\* No session need terminalize; neither the deadline nor an error is needed.
FairSpec == Spec /\ WF_vars(Work) /\ WF_vars(CollectorClock)

-----------------------------------------------------------------------------
\* A row whose error was noted after some of its sessions had terminalized.
\* AllCounted counts those twice.
Miscounted == \E s \in complete : s[1] \in failed

(* What RunProgress knows of failed rows is what run_inner and its          *)
(* collector know, at every await at which the run may be interrupted.     *)
(* (row_timeout, collect_terminals, the error branches of the collections)  *)
ErrorsReachTheLedger == rowErrors = errors \cup failed

Collected == step \in {"kill", "recover", "shutdown", "derive", "evaluate"}

(* A row-local timeout does not stop other rows: when the collection is    *)
(* over every row has terminalized or has an error of its own.             *)
(* (collect_terminals)                                                     *)
CollectionDecidesEveryRow ==
    Collected => \A r \in ToCollect : r \in failed \/ Answered(r, complete)

(* So it is, unless the collector has counted a session twice.             *)
(* (collect_terminals: complete.len() + errored_sessions == expected)       *)
OnlyMiscountsLoseRows == ~Miscounted => CollectionDecidesEveryRow

\* The row's own work is finished, and successfully.
Done(r) ==
    IF Measuring(r) # {} THEN Measuring(r) \cap trials # {}
    ELSE r \in pre \cup resumed \/ (r \in ToCollect /\ Answered(r, complete))

PlainRows == {r \in TopRows \cap Supported : Measuring(r) = {}}

(* The final report judges a row by all its sessions, or calls it an error *)
(* because it timed out, be it that its answer came afterwards.            *)
(* (evaluation, collect_terminals, row_timeout)                            *)
FinalReportIsFounded ==
    report # NoReport /\ report.kind = "final" =>
        /\ \A r \in Rows : report.rows[r] = "error" <=> r \in rowErrors
        /\ ~Miscounted => \A r \in PlainRows \ Recovering :
               report.rows[r] = "error" \/ (report.rows[r] = "measured" /\ Done(r))

(* The report of a run that its deadline ended tells of each row that has  *)
(* only sessions of the main driver whether it was launched, active or had *)
(* terminalized.  (RunProgress, write_interrupted_report)                   *)
DeadlineReportIsRight ==
    report # NoReport /\ report.kind = "deadline" /\ ~Miscounted =>
        \A r \in PlainRows \ rowErrors :
            report.rows[r] = CASE Done(r) -> "unevaluated"
                               [] r \in begun /\ ~Done(r) -> "active"
                               [] r \notin begun /\ ~Done(r) -> "not launched"

(* Every run reports, though no session ever terminalizes and the run's    *)
(* own deadline never comes.  (collect_terminals)                           *)
EveryRunReports == <>(report # NoReport)
=============================================================================
