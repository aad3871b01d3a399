--------------------------- MODULE RunPersistence ---------------------------
(***************************************************************************)
(* How a run of AHRB ends: runner::run and its siblings of the other       *)
(* pillars, results::persist_report with the shared results/index.jsonl,   *)
(* RunRootGuard and the end of main.  Each run is an operating-system      *)
(* process; the runs share the index, whose lock is flock's.  Any write    *)
(* may fail, a line of the index may be written in part, and a process may *)
(* die between any two steps - the signal watchdog calls _exit.            *)
(*                                                                         *)
(* A report is what report.json says of the run: the final results, the    *)
(* rows of an abort or a deadline, a pillar's provisional results or its   *)
(* failure.  Every run has an output directory of its own.                 *)
(***************************************************************************)
EXTENDS Integers, Sequences

CONSTANTS
    Runs,
    Kind,            \* what each run runs: "matrix", "storage", or "pillar"
                     \* for economy and fidelity
    Saves,           \* runs that are saved to results/, not --no-save
    DefaultOutput,   \* runs without --output
    Keeps,           \* runs with --keep-run-root
    NoRun

ASSUME PersistenceAssumption ==
    /\ Kind \in [Runs -> {"matrix", "pillar", "storage"}]
    /\ Saves \subseteq Runs /\ DefaultOutput \subseteq Runs /\ Keeps \subseteq Runs
    /\ NoRun \notin Runs

VARIABLES
    pc,         \* where each process is
    why,        \* the report it is about to write
    report,     \* report.json in its output directory
    mirror,     \* report.json in its results directory, if that is another
    confirmed,  \* RunRootGuard.persistence_confirmed
    root,       \* its run root under /tmp
    exit,       \* how the process ended
    lines, torn,   \* results/index.jsonl: whole lines, a torn last one
    lock,       \* who holds the flock
    occ         \* the occurrence number computed from the lines read

index    == <<lines, torn, lock, occ>>
files    == <<report, mirror>>
vars == <<pc, why, files, confirmed, root, exit, index>>

Reports == {"none", "provisional", "final", "failure", "abort", "deadline"}

Line == [run : Runs, occurrence : Nat, report : Reports]

TypeOK ==
    /\ pc \in [Runs -> {"new", "inner", "diagnose", "provisional", "finalize",
                        "persist", "mirror", "flock", "read", "write", "sync",
                        "cleanup", "drop", "main", "end"}]
    /\ why \in [Runs -> Reports]
    /\ report \in [Runs -> Reports] /\ mirror \in [Runs -> Reports]
    /\ confirmed \in [Runs -> BOOLEAN]
    /\ root \in [Runs -> {"absent", "live", "removed"}]
    /\ exit \in [Runs -> {"running", "suite", "two", "dead"}]
    /\ lines \in Seq(Line)
    /\ torn \in BOOLEAN
    /\ lock \in Runs \cup {NoRun}
    /\ occ \in [Runs -> Nat]

Init ==
    /\ pc = [r \in Runs |-> "new"]
    /\ why = [r \in Runs |-> "none"]
    /\ report = [r \in Runs |-> "none"] /\ mirror = [r \in Runs |-> "none"]
    /\ confirmed = [r \in Runs |-> FALSE]
    /\ root = [r \in Runs |-> "absent"]
    /\ exit = [r \in Runs |-> "running"]
    /\ lines = <<>> /\ torn = FALSE
    /\ lock = NoRun
    /\ occ = [r \in Runs |-> 0]

At(r, here) == pc[r] = here

Goto(r, there) == pc' = [pc EXCEPT ![r] = there]

\* The process goes on to write a report, or to the diagnostic that precedes it.
Report(r, what, there) == why' = [why EXCEPT ![r] = what] /\ Goto(r, there)

-----------------------------------------------------------------------------
(* The workload.                                                           *)

\* RunRootGuard::new creates the root, or refuses.
NewRoot(r) ==
    /\ At(r, "new")
    /\ \/ root' = [root EXCEPT ![r] = "live"] /\ Goto(r, "inner")
       \/ UNCHANGED root /\ Goto(r, "main")
    /\ UNCHANGED <<why, files, confirmed, exit, index>>

\* run_inner reaches persist_report, which it does not await; a pillar first
\* writes its report without publishing it.
WorkloadEnds(r) ==
    /\ At(r, "inner")
    /\ IF Kind[r] = "pillar" THEN Report(r, "provisional", "provisional")
                             ELSE Report(r, "final", "persist")
    /\ UNCHANGED <<files, confirmed, root, exit, index>>

WorkloadFails(r) ==
    /\ At(r, "inner")
    /\ \/ Kind[r] = "matrix"  /\ Report(r, "abort", "diagnose")
       \/ Kind[r] = "pillar"  /\ Report(r, "failure", "diagnose")
       \/ Kind[r] = "storage" /\ Goto(r, "drop") /\ UNCHANGED why
    /\ UNCHANGED <<files, confirmed, root, exit, index>>

\* The workload is dropped where it awaits.
DeadlinePasses(r) ==
    /\ At(r, "inner")
    /\ \/ Kind[r] = "matrix"  /\ Report(r, "deadline", "diagnose")
       \/ Kind[r] = "pillar"  /\ Report(r, "failure", "diagnose")
       \/ Kind[r] = "storage" /\ Report(r, "deadline", "persist")
    /\ UNCHANGED <<files, confirmed, root, exit, index>>

\* write_failure_diagnostic, after the teardown audit.
Diagnose(r) ==
    /\ At(r, "diagnose")
    /\ \/ Goto(r, IF Kind[r] = "pillar" THEN "provisional" ELSE "persist")
       \/ Goto(r, "drop")
    /\ UNCHANGED <<why, files, confirmed, root, exit, index>>

\* A pillar's own report.json.  Failing inside the workload is a failure of it.
WriteProvisional(r) ==
    /\ At(r, "provisional")
    /\ \/ report' = [report EXCEPT ![r] = why[r]] /\ Goto(r, "finalize")
          /\ UNCHANGED why
       \/ /\ report' \in {report, [report EXCEPT ![r] = why[r]]}
          /\ IF why[r] = "provisional" THEN Report(r, "failure", "diagnose")
                                       ELSE Goto(r, "drop") /\ UNCHANGED why
    /\ UNCHANGED <<mirror, confirmed, root, exit, index>>

\* finalize_pillar_teardown_report reads it back to add the final teardown.
Finalize(r) ==
    /\ At(r, "finalize")
    /\ \/ Report(r, IF report[r] = "provisional" THEN "final" ELSE "failure", "persist")
       \/ Goto(r, "cleanup") /\ UNCHANGED why
    /\ UNCHANGED <<files, confirmed, root, exit, index>>

-----------------------------------------------------------------------------
(* persist_report.                                                         *)

Confirm(r) == confirmed' = [confirmed EXCEPT ![r] = TRUE]

\* Closing the file gives the lock up on every path.
Unlock(r) == lock' = IF lock = r THEN NoRun ELSE lock

Persisted(r) == Confirm(r) /\ Goto(r, "cleanup") /\ UNCHANGED why

\* An error of persist_report: within the workload a matrix run aborts.
PersistFails(r) ==
    /\ UNCHANGED confirmed
    /\ \/ Kind[r] = "matrix" /\ why[r] = "final" /\ Report(r, "abort", "diagnose")
       \/ Kind[r] = "pillar" /\ Goto(r, "cleanup") /\ UNCHANGED why
       \/ /\ Kind[r] = "storage" \/ why[r] \in {"abort", "deadline"}
          /\ Goto(r, "drop") /\ UNCHANGED why

\* write_bundle to the output directory: report.json is renamed into place
\* before the rest of the bundle is written.
WriteBundle(r) ==
    /\ At(r, "persist")
    /\ \/ /\ report' = [report EXCEPT ![r] = why[r]]
          /\ IF r \notin Saves THEN Persisted(r)
             ELSE /\ Goto(r, IF r \in DefaultOutput THEN "flock" ELSE "mirror")
                  /\ UNCHANGED <<why, confirmed>>
       \/ report' = [report EXCEPT ![r] = why[r]] /\ PersistFails(r)
       \/ UNCHANGED report /\ PersistFails(r)
    /\ UNCHANGED <<mirror, root, exit, index>>

\* The second copy, in the results directory.
WriteMirror(r) ==
    /\ At(r, "mirror")
    /\ \/ mirror' = [mirror EXCEPT ![r] = why[r]] /\ Goto(r, "flock")
          /\ UNCHANGED <<why, confirmed>>
       \/ mirror' = [mirror EXCEPT ![r] = why[r]] /\ PersistFails(r)
       \/ UNCHANGED mirror /\ PersistFails(r)
    /\ UNCHANGED <<report, root, exit, index>>

Saved(r) == IF r \in DefaultOutput THEN report[r] ELSE mirror[r]

\* Mutant: a shared lock, LOCK_SH.
TakeLock_Shared(r) ==
    /\ At(r, "flock")
    /\ lock' = r /\ Goto(r, "read")
    /\ UNCHANGED <<why, confirmed, files, root, exit, lines, torn, occ>>

\* append_index: flock waits for as long as anyone has the index locked.
TakeLock(r) ==
    /\ At(r, "flock")
    /\ lock = NoRun /\ lock' = r /\ Goto(r, "read")
    /\ UNCHANGED <<why, confirmed, files, root, exit, lines, torn, occ>>

\* The index cannot be opened, or flock fails.
LockFails(r) ==
    /\ At(r, "flock")
    /\ PersistFails(r)
    /\ UNCHANGED <<files, root, exit, index>>

\* Mutant: an occurrence counted from before the first line.
ReadIndex_OffByOne(r) ==
    /\ At(r, "read")
    /\ \/ /\ ~torn /\ occ' = [occ EXCEPT ![r] = Len(lines) - 1] /\ Goto(r, "write")
          /\ UNCHANGED <<why, confirmed, lock>>
       \/ UNCHANGED occ /\ Unlock(r) /\ PersistFails(r)
    /\ UNCHANGED <<files, root, exit, lines, torn>>

\* The whole index must end in a newline; the lines are counted.
ReadIndex(r) ==
    /\ At(r, "read")
    /\ \/ /\ ~torn /\ occ' = [occ EXCEPT ![r] = Len(lines) + 1] /\ Goto(r, "write")
          /\ UNCHANGED <<why, confirmed, lock>>
       \/ UNCHANGED occ /\ Unlock(r) /\ PersistFails(r)
    /\ UNCHANGED <<files, root, exit, lines, torn>>

NewLine(r) == [run |-> r, occurrence |-> occ[r], report |-> Saved(r)]

\* Mutant: a short write is not an error.
WriteLine_Short(r) ==
    /\ At(r, "write")
    /\ \/ lines' = Append(lines, NewLine(r)) /\ UNCHANGED torn
       \/ torn' = TRUE /\ UNCHANGED lines
    /\ Goto(r, "sync")
    /\ UNCHANGED <<why, confirmed, lock, files, root, exit, occ>>

\* write_all: the whole line, a part of it, or nothing.
WriteLine(r) ==
    /\ At(r, "write")
    /\ \/ lines' = Append(lines, NewLine(r)) /\ Goto(r, "sync")
          /\ UNCHANGED <<why, confirmed, torn, lock>>
       \/ torn' \in {torn, TRUE} /\ UNCHANGED lines /\ Unlock(r) /\ PersistFails(r)
    /\ UNCHANGED <<files, root, exit, occ>>

\* Mutant: a line that could not be synced is appended again.
SyncLine_Retry(r) ==
    /\ At(r, "sync")
    /\ Unlock(r)
    /\ \/ Persisted(r)
       \/ Goto(r, "flock") /\ UNCHANGED <<why, confirmed>>
    /\ UNCHANGED <<files, root, exit, lines, torn, occ>>

\* sync_data, and LOCK_UN whatever it returned.
SyncLine(r) ==
    /\ At(r, "sync")
    /\ Unlock(r)
    /\ Persisted(r) \/ PersistFails(r)
    /\ UNCHANGED <<files, root, exit, lines, torn, occ>>

-----------------------------------------------------------------------------
(* The end of a run.                                                       *)

\* Mutant: the guard does not ask whether the report was persisted.
GuardCleanup_Unconfirmed(r) ==
    IF r \in Keeps THEN UNCHANGED root
    ELSE root' \in {root, [root EXCEPT ![r] = "removed"]}

\* RunRootGuard::cleanup.  What it could not remove, Drop tries again.
GuardCleanup(r) ==
    IF r \in Keeps \/ ~confirmed[r] THEN UNCHANGED root
    ELSE root' \in {root, [root EXCEPT ![r] = "removed"]}

Exit(r, code) == exit' = [exit EXCEPT ![r] = code] /\ Goto(r, "end")

\* The final teardown audit, the guard, and what is returned: an error of
\* either or of the pillar's own goes to main.
Cleanup(r) ==
    /\ At(r, "cleanup")
    /\ GuardCleanup(r)
    /\ \/ UNCHANGED exit /\ Goto(r, "main")
       \/ /\ confirmed[r] /\ why[r] # "failure"
          /\ r \in Keeps \/ root'[r] = "removed"
          /\ \E code \in {"suite", "two"} :
                /\ code = "suite" => why[r] = "final"
                /\ Exit(r, code)
    /\ UNCHANGED <<why, files, confirmed, index>>

\* An early return drops the guard.
DropGuard(r) ==
    /\ At(r, "drop")
    /\ GuardCleanup(r)
    /\ Goto(r, "main")
    /\ UNCHANGED <<why, files, confirmed, exit, index>>

\* main prints the error, with a diagnostic of its own, and exits 2.
MainFails(r) ==
    /\ At(r, "main")
    /\ Exit(r, "two")
    /\ UNCHANGED <<why, files, confirmed, root, index>>

\* Mutant: a lock file in place of flock, which stays when its owner dies.
Die_LockFile(r) ==
    /\ exit[r] = "running"
    /\ Exit(r, "dead")
    /\ UNCHANGED <<why, files, confirmed, root, index>>

\* The process dies; the kernel closes its files.
Die(r) ==
    /\ exit[r] = "running"
    /\ Exit(r, "dead")
    /\ Unlock(r)
    /\ \/ UNCHANGED <<lines, torn>>
       \/ At(r, "write") /\ torn' = TRUE /\ UNCHANGED lines
       \/ At(r, "write") /\ lines' = Append(lines, NewLine(r)) /\ UNCHANGED torn
    /\ UNCHANGED <<why, files, confirmed, root, occ>>

Step(r) ==
    \/ NewRoot(r) \/ WorkloadEnds(r) \/ WorkloadFails(r) \/ DeadlinePasses(r)
    \/ Diagnose(r) \/ WriteProvisional(r) \/ Finalize(r)
    \/ WriteBundle(r) \/ WriteMirror(r) \/ TakeLock(r) \/ ReadIndex(r)
    \/ WriteLine(r) \/ SyncLine(r)
    \/ Cleanup(r) \/ DropGuard(r) \/ MainFails(r)

Done == (\A r \in Runs : exit[r] # "running") /\ UNCHANGED vars

Next == (\E r \in Runs : Step(r) \/ LockFails(r) \/ Die(r)) \/ Done

Spec == Init /\ [][Next]_vars

\* A process that is alive goes on; its deadline ends a workload that does not.
\* That flock fails is not to be counted on.
FairSpec == Spec /\ \A r \in Runs : WF_vars(Step(r))

-----------------------------------------------------------------------------
(* A run root is removed only when a report of the run is on disk and,     *)
(* for a saved run, in the history: evidence is never lost between the     *)
(* two, whichever step failed.  (RunRootGuard, "Deletion remains disarmed  *)
(* until ... persisted successfully")                                      *)
Recorded(r) ==
    /\ report[r] # "none"
    /\ r \in Saves => Saved(r) # "none" /\ \E k \in 1 .. Len(lines) : lines[k].run = r

RootOutlivesEvidence == \A r \in Runs : root[r] = "removed" => Recorded(r)

(* A suite exit code is only ever given for results that can be read back: *)
(* the final report is on disk and the history has a line that was made    *)
(* from it.                                                                *)
SuiteCodeIsRecorded ==
    \A r \in Runs : exit[r] = "suite" =>
        /\ report[r] = "final"
        /\ r \in Saves => \E k \in 1 .. Len(lines) :
                              lines[k].run = r /\ lines[k].report = "final"

(* The index that several processes append to under flock is an append-    *)
(* only history with lines numbered in order, closed by a torn line.       *)
History == INSTANCE ResultsHistory
             WITH history <- [k \in 1 .. Len(lines) |->
                                [run |-> lines[k].run, occurrence |-> lines[k].occurrence]],
                  closed <- torn
HistorySpec == History!Spec

(* persist_report: "append exactly one history line for an auto-saved run" *)
(* - of a pillar or of storage, which have no abort report to fall back to *)
(* when a line that was written cannot be synced.                          *)
OneLinePerRun ==
    \A j, k \in 1 .. Len(lines) :
        lines[j].run = lines[k].run /\ Kind[lines[j].run] # "matrix" => j = k

(* Every run comes to an end, also when another dies with the index locked *)
(* or leaves it torn.                                                      *)
EveryRunEnds == \A r \in Runs : <>(exit[r] # "running")
=============================================================================
