---------------------------- MODULE ManagedChild ----------------------------
(***************************************************************************)
(* The children that src/src/driver.rs starts and waits for: commands      *)
(* whose output is captured (run_owned_output), invocations whose output   *)
(* goes to files (PerInvocationDriver), and stop_managed_child, which      *)
(* takes the child and its process group from TERM to KILL.  What they do  *)
(* to processes and to the registry is that of OwnedProcesses; no cleanup  *)
(* runs meanwhile.                                                         *)
(*                                                                         *)
(* A job is one call, a task of its own.  The driver signals a group by    *)
(* its number, which is the PID of the child that leads it.                *)
(***************************************************************************)
EXTENDS OwnedProcesses

CONSTANTS
    Jobs,
    Kind,         \* "command" or "invocation"
    NoPid

ASSUME ManagedAssumption ==
    /\ Kind \in [Jobs -> {"command", "invocation"}]
    /\ NoPid \notin Pids

VARIABLES
    job,          \* what each call knows of its child
    pipes         \* who holds the writing end of a command's stdout or stderr

managedVars == <<procs, births, registry, tasks, cleanupVars, foreignHit, job, pipes>>

Unstarted == [at |-> "new", pid |-> NoPid, born |-> 0,
              waited |-> FALSE,     \* wait has returned: child.id() is None
              stopped |-> FALSE,    \* stop_managed_child has signalled the group
              ended |-> 0]          \* births when the call ended

ManagedInit ==
    /\ Init
    /\ job = [t \in Jobs |-> Unstarted]
    /\ pipes = [t \in Jobs |-> {}]

-----------------------------------------------------------------------------
At(t, here) == job[t].at = here

Goto(t, there) == job' = [job EXCEPT ![t].at = there]

End(t, how) == job' = [job EXCEPT ![t].at = how, ![t].ended = births]

Leader(t) == <<job[t].pid, job[t].born>>

LeaderIs(t, state) == Present(Leader(t)) /\ procs[job[t].pid].state = state

\* read_to_end returns when the last holder has gone.
EndOfFile(t) ==
    \A i \in {k \in pipes[t] : Present(k)} : procs[i[1]].state = "zombie"

\* kill(-pid, signal): whoever is in a group of that number.
SignalGroup(g, final) ==
    /\ foreignHit' = (foreignHit \/ \E p \in Pids :
                        procs[p] # Free /\ procs[p].group = g /\ ~procs[p].own)
    /\ procs' = IF ~final THEN procs
                ELSE [p \in Pids |->
                        IF procs[p] # Free /\ procs[p].group = g
                           /\ procs[p].state = "running"
                        THEN [procs[p] EXCEPT !.state = "killed"] ELSE procs[p]]

\* The child's status is collected, and with it its PID given back.
Collected(t) ==
    /\ LeaderIs(t, "zombie")
    /\ procs' = [procs EXCEPT ![job[t].pid] = Free]
    /\ toRetire' = toRetire \cup {job[t].pid}

Unmoved == UNCHANGED <<births, groups, observed, toRegister, cleanupVars, pipes>>

-----------------------------------------------------------------------------
(* Programs.                                                               *)

\* A forked process keeps the pipes of its parent or closes them.
ForkPipes(q, p) ==
    /\ Fork(q, p)
    /\ LET heirs == {t \in Jobs : Id(q) \in pipes[t]}
       IN \E keeps \in {heirs, {}} :
            pipes' = [t \in Jobs |-> IF t \in keeps THEN pipes[t] \cup {<<p, births'>>}
                                                    ELSE pipes[t]]
    /\ UNCHANGED job

Programs ==
    \E p \in Pids :
        \/ (StartForeign(p) \/ Exit(p)) /\ UNCHANGED <<job, pipes>>
        \/ \E q \in Pids : ForkPipes(q, p)

-----------------------------------------------------------------------------
(* Start, and the wait for a command or an invocation.                     *)

Launch(t) ==
    /\ At(t, "new")
    /\ \E p \in Pids :
         /\ Spawn(p)
         /\ job' = [job EXCEPT ![t].at = "register", ![t].pid = p, ![t].born = births']
         /\ pipes' = [pipes EXCEPT ![t] = IF Kind[t] = "command" THEN {<<p, births'>>}
                                                                 ELSE {}]

RegisterChild(t) ==
    /\ At(t, "register")
    /\ Register(job[t].pid)
    /\ Goto(t, "wait")
    /\ UNCHANGED pipes

\* child.wait() returns while the pipes are still read: child.id() is None.
CommandExits(t) ==
    /\ At(t, "wait") /\ Kind[t] = "command" /\ ~job[t].waited
    /\ Collected(t)
    /\ job' = [job EXCEPT ![t].waited = TRUE]
    /\ UNCHANGED foreignHit /\ Unmoved

\* try_join: status and both outputs are there.
CommandCompletes(t) ==
    /\ At(t, "wait") /\ Kind[t] = "command" /\ job[t].waited
    /\ EndOfFile(t)
    /\ Goto(t, "retire")
    /\ UNCHANGED <<procs, toRetire, foreignHit>> /\ Unmoved

\* stop_managed_child finds that the child has been waited for: no more is done.
TimesOutAfterExit(t) ==
    /\ At(t, "wait") /\ Kind[t] = "command" /\ job[t].waited
    /\ ~EndOfFile(t)
    /\ End(t, "stopped")
    /\ toRetire' = toRetire \ {job[t].pid}
    /\ UNCHANGED <<procs, foreignHit>> /\ Unmoved

\* stop_managed_child, after the time of a command, to cancel an invocation or
\* to stop it by force.
Stop(t) ==
    /\ At(t, "wait") /\ ~job[t].waited
    /\ SignalGroup(job[t].pid, FALSE)
    /\ job' = [job EXCEPT ![t].at = "grace", ![t].stopped = TRUE]
    /\ UNCHANGED toRetire /\ Unmoved

\* attach: try_wait.
InvocationExits(t) ==
    /\ At(t, "wait") /\ Kind[t] = "invocation"
    /\ Collected(t)
    /\ Goto(t, "retire")
    /\ UNCHANGED foreignHit /\ Unmoved

\* attach: the invocation has run for too long.
InvocationExpires(t) ==
    /\ At(t, "wait") /\ Kind[t] = "invocation" /\ ~LeaderIs(t, "zombie")
    /\ SignalGroup(job[t].pid, TRUE)
    /\ Goto(t, "expired")
    /\ UNCHANGED toRetire /\ Unmoved

ExpiredExits(t) ==
    /\ At(t, "expired")
    /\ Collected(t)
    /\ Goto(t, "retire")
    /\ UNCHANGED foreignHit /\ Unmoved

-----------------------------------------------------------------------------
(* stop_managed_child after its TERM.                                      *)

\* Mutant: TERM again where KILL is due.
GraceOver_Term(t) ==
    /\ At(t, "grace")
    /\ SignalGroup(job[t].pid, FALSE)
    /\ Goto(t, "killed")
    /\ UNCHANGED toRetire /\ Unmoved

GraceOver(t) ==
    /\ At(t, "grace")
    /\ SignalGroup(job[t].pid, TRUE)
    /\ Goto(t, "killed")
    /\ UNCHANGED toRetire /\ Unmoved

\* Mutant: the leader's end is taken for the end of its group.
StoppedExits_NoSweep(t) ==
    /\ At(t, "grace") \/ At(t, "killed")
    /\ Collected(t)
    /\ Goto(t, "retire")
    /\ UNCHANGED foreignHit /\ Unmoved

StoppedExits(t) ==
    /\ At(t, "grace") \/ At(t, "killed")
    /\ Collected(t)
    /\ Goto(t, "sweep")
    /\ UNCHANGED foreignHit /\ Unmoved

\* Mutant: the group is swept once more when the child has been retired.
Sweep_AfterRetire(t) ==
    /\ At(t, "sweep") \/ (At(t, "done") /\ job[t].stopped)
    /\ SignalGroup(job[t].pid, TRUE)
    /\ job' = IF At(t, "sweep") THEN [job EXCEPT ![t].at = "retire"]
                                ELSE [job EXCEPT ![t].stopped = FALSE]
    /\ UNCHANGED toRetire /\ Unmoved

\* "A daemon leader can exit before workers in its process group."
Sweep(t) ==
    /\ At(t, "sweep")
    /\ SignalGroup(job[t].pid, TRUE)
    /\ Goto(t, "retire")
    /\ UNCHANGED toRetire /\ Unmoved

\* Mutant: the child is forgotten with whatever it left in its group.
RetireChild_Forget(t) ==
    /\ At(t, "retire")
    /\ End(t, "done")
    /\ toRetire' = toRetire \ {job[t].pid}
    /\ groups' = [groups EXCEPT ![job[t].pid] = NoLeader]
    /\ observed' = observed \ {Leader(t)}
    /\ UNCHANGED <<procs, births, toRegister, cleanupVars, foreignHit, pipes>>

RetireChild(t) ==
    /\ At(t, "retire")
    /\ Retire(job[t].pid)
    /\ End(t, "done")
    /\ UNCHANGED pipes

\* An error ends the call, or its future is dropped: kill_on_drop.
Abandon(t) ==
    /\ job[t].at \in {"register", "wait", "grace", "killed", "expired"}
    /\ End(t, "dropped")
    /\ procs' = IF LeaderIs(t, "running")
                THEN [procs EXCEPT ![job[t].pid].state = "killed"] ELSE procs
    /\ toRegister' = toRegister \ {job[t].pid}
    /\ toRetire' = toRetire \ {job[t].pid}
    /\ UNCHANGED <<births, registry, cleanupVars, foreignHit, pipes>>

\* tokio waits for the children whose handle was dropped.
RuntimeReaps(t) ==
    /\ At(t, "dropped") /\ LeaderIs(t, "zombie")
    /\ procs' = [procs EXCEPT ![job[t].pid] = Free]
    /\ UNCHANGED <<job, toRetire, foreignHit>> /\ Unmoved

-----------------------------------------------------------------------------
JobStep(t) ==
    \/ RegisterChild(t)
    \/ CommandExits(t) \/ CommandCompletes(t) \/ TimesOutAfterExit(t)
    \/ InvocationExits(t) \/ InvocationExpires(t) \/ ExpiredExits(t)
    \/ GraceOver(t) \/ StoppedExits(t) \/ Sweep(t) \/ RetireChild(t)

ManagedNext ==
    \/ Programs
    \/ \E t \in Jobs : Launch(t) \/ JobStep(t) \/ Stop(t) \/ Abandon(t) \/ RuntimeReaps(t)

ManagedSpec == ManagedInit /\ [][ManagedNext]_managedVars

\* Tasks run, timers fire, and the kernel carries a KILL out.  A command is
\* stopped when its time is over; an invocation is polled until then.
ManagedFairSpec ==
    /\ ManagedSpec
    /\ \A t \in Jobs : WF_managedVars(JobStep(t))
    /\ \A t \in Jobs : WF_managedVars(Kind[t] = "command" /\ Stop(t))
    /\ \A p \in Pids : WF_managedVars(procs[p] # Free /\ procs[p].state = "killed"
                                      /\ Exit(p) /\ UNCHANGED <<job, pipes>>)

-----------------------------------------------------------------------------
Ended == {"done", "stopped", "dropped"}

ManagedTypeOK ==
    /\ TypeOK
    /\ job \in [Jobs -> [at : {"new", "register", "wait", "grace", "killed", "expired",
                               "sweep", "retire"} \cup Ended,
                         pid : Pids \cup {NoPid}, born : Nat, waited : BOOLEAN,
                         stopped : BOOLEAN, ended : Nat]]
    /\ pipes \in [Jobs -> SUBSET Identities]

\* Who runs in the group that the child of an ended call led.
LeftRunning(t) ==
    {Id(p) : p \in {q \in Pids : /\ procs[q] # Free /\ procs[q].state = "running"
                                 /\ procs[q].group = job[t].pid
                                 /\ procs[q].born \in job[t].born .. job[t].ended}}

(* A call that retired its child leaves in the child's group only what the *)
(* final cleanup will find, and nothing at all if it had to stop it.       *)
(* (wait_owned_output, stop_managed_child, attach, retire_process)         *)
RetiredGroupsAreSettled ==
    \A t \in Jobs : At(t, "done") =>
        /\ LeftRunning(t) \subseteq LiveOwned(groups, observed)
        /\ job[t].stopped => LeftRunning(t) = {}

(* stop_managed_child: "Sweep the still-owned group after reaping the      *)
(* leader so a child cannot outlive the run."                              *)
StoppedLeavesNoOne ==
    \A t \in Jobs : At(t, "stopped") \/ (At(t, "done") /\ job[t].stopped)
        => LeftRunning(t) = {}

(* Every call that started a child ends: the child exits, its time is over *)
(* or KILL reaches it, whoever ignores TERM or keeps a pipe open.          *)
EveryCallEnds == \A t \in Jobs : At(t, "register") ~> job[t].at \in Ended
=============================================================================
