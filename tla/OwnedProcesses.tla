--------------------------- MODULE OwnedProcesses ---------------------------
(***************************************************************************)
(* The owned-process registry of src/src/process/mod.rs and its TERM-to-   *)
(* KILL cleanup, against an operating system that forks, exits and gives   *)
(* process IDs out again.  Cleanup runs on whatever thread needs it - the  *)
(* end of main, the signal watchdog, the panic hook - while driver and     *)
(* sampler tasks go on registering, reaping and retiring.                  *)
(*                                                                         *)
(* A process is identified by its PID and start time.  signal_identity     *)
(* reads the start time immediately before kill, and the check and the     *)
(* kill are one step here; so are the reads of one group's verified        *)
(* members.  A process whose parent is not AHRB is reaped as it exits.     *)
(***************************************************************************)
EXTENDS Naturals, FiniteSets

CONSTANTS
    Pids,         \* process IDs, which are also process-group IDs
    MaxBirths,    \* bound: how many processes ever start
    Recycle,      \* may a PID that AHRB has just reaped be given out again
                  \* before the reaping task has called retire_process
    Free,         \* a PID no process has
    NoLeader,     \* a group that is not registered
    ObservedSweep \* the pass over snapshot.observed that follows the groups

ASSUME ProcessAssumption ==
    /\ MaxBirths \in Nat
    /\ Recycle \in BOOLEAN
    /\ Free \notin [born : Nat, group : Pids, child : BOOLEAN, own : BOOLEAN,
                    state : {"running", "killed", "zombie"}]
    /\ NoLeader \notin Pids \X Nat
    /\ ObservedSweep \notin Pids

VARIABLES
    procs,        \* the process table
    births,       \* processes started so far: the clock of start times
    groups,       \* OwnedRegistry.groups: process group -> leader identity
    observed,     \* OwnedRegistry.observed
    toRegister,   \* children spawned, register_child not called yet
    toRetire,     \* children reaped, retire_process not called yet
    cl,           \* where the cleanup is
    snapGroups, snapObserved,   \* its clone of the registry
    todo,         \* groups, then the observed sweep, still to be signalled
    targets,      \* identities enumerated and not signalled yet
    seen,         \* evidence: live identities before the first signal
    survivors,    \* evidence: live identities after the last one
    foreignHit    \* whether a process that AHRB does not own was signalled

registry    == <<groups, observed>>
tasks       == <<toRegister, toRetire>>
cleanupVars == <<cl, snapGroups, snapObserved, todo, targets, seen, survivors>>
vars == <<procs, births, registry, tasks, cleanupVars, foreignHit>>

Identities == Pids \X Nat

Process == [born : Nat, group : Pids,
            child : BOOLEAN,      \* is it a direct child of AHRB
            own   : BOOLEAN,      \* does it descend from AHRB
            state : {"running", "killed", "zombie"}]

TypeOK ==
    /\ procs \in [Pids -> Process \cup {Free}]
    /\ births \in Nat
    /\ groups \in [Pids -> Identities \cup {NoLeader}]
    /\ observed \subseteq Identities
    /\ toRegister \subseteq Pids /\ toRetire \subseteq Pids
    /\ cl \in {"idle", "failed", "term", "kill", "poll", "settle"}
    /\ snapGroups \in [Pids -> Identities \cup {NoLeader}]
    /\ snapObserved \subseteq Identities
    /\ todo \subseteq Pids \cup {ObservedSweep}
    /\ targets \subseteq Identities
    /\ seen \subseteq Identities /\ survivors \subseteq Identities
    /\ foreignHit \in BOOLEAN

Init ==
    /\ procs = [p \in Pids |-> Free]
    /\ births = 0
    /\ groups = [g \in Pids |-> NoLeader] /\ observed = {}
    /\ toRegister = {} /\ toRetire = {}
    /\ cl = "idle"
    /\ snapGroups = [g \in Pids |-> NoLeader] /\ snapObserved = {}
    /\ todo = {} /\ targets = {} /\ seen = {} /\ survivors = {}
    /\ foreignHit = FALSE

-----------------------------------------------------------------------------
(* What the platform tells: process_identity_and_group and friends.        *)

Id(p) == <<p, procs[p].born>>

\* identity_is_live: a zombie still has its entry.
Present(i) == procs[i[1]] # Free /\ procs[i[1]].born = i[2]
Running(i) == Present(i) /\ procs[i[1]].state = "running"

InGroup(i, g) == Present(i) /\ procs[i[1]].group = g

GroupMembers(g, start) ==
    {Id(p) : p \in {q \in Pids :
        procs[q] # Free /\ procs[q].group = g /\ procs[q].born >= start}}

\* Mutant: a registered group is taken to be AHRB's.
VerifiedGroupMembers_Trusted(leaders, known, g) ==
    GroupMembers(g, leaders[g][2])

\* A group is AHRB's while its leader or some observed member is still in it.
VerifiedGroupMembers(leaders, known, g) ==
    IF InGroup(leaders[g], g) \/ \E i \in known : InGroup(i, g)
    THEN GroupMembers(g, leaders[g][2])
    ELSE {}

Registered(leaders) == {g \in Pids : leaders[g] # NoLeader}

LiveOwned(leaders, known) ==
    (UNION {VerifiedGroupMembers(leaders, known, g) : g \in Registered(leaders)})
    \cup {i \in known : Present(i)}

-----------------------------------------------------------------------------
(* The operating system and the programs it runs.                          *)

\* A PID is not given out while a process or a group has it.
Available(p) ==
    /\ births < MaxBirths
    /\ procs[p] = Free
    /\ \A q \in Pids : procs[q] # Free => procs[q].group # p
    /\ Recycle \/ p \notin toRegister \cup toRetire

Start(p, g, child, own) ==
    /\ Available(p)
    /\ births' = births + 1
    /\ procs' = [procs EXCEPT ![p] = [born |-> births', group |-> g,
                      child |-> child, own |-> own, state |-> "running"]]

\* A process forks; the new one stays in its group or becomes a leader itself.
Fork(q, p) ==
    /\ procs[q] # Free /\ procs[q].state = "running"
    /\ \E g \in {procs[q].group, p} : Start(p, g, FALSE, procs[q].own)
    /\ UNCHANGED <<registry, tasks, cleanupVars, foreignHit>>

StartForeign(p) ==
    /\ Start(p, p, FALSE, FALSE)
    /\ UNCHANGED <<registry, tasks, cleanupVars, foreignHit>>

Exit(p) ==
    /\ procs[p] # Free /\ procs[p].state # "zombie"
    /\ procs' = [procs EXCEPT ![p] = IF procs[p].child
                                     THEN [procs[p] EXCEPT !.state = "zombie"]
                                     ELSE Free]
    /\ UNCHANGED <<births, registry, tasks, cleanupVars, foreignHit>>

-----------------------------------------------------------------------------
(* Drivers and samplers.                                                   *)

\* Every command AHRB spawns leads a process group of its own.
Spawn(p) ==
    /\ Start(p, p, TRUE, TRUE)
    /\ toRegister' = toRegister \cup {p}
    /\ UNCHANGED <<registry, toRetire, cleanupVars, foreignHit>>

\* Mutant: the registry remembers bare PIDs.
RegisterIdentity_Pid(p) ==
    /\ groups' = [groups EXCEPT ![procs[p].group] = IF @ = NoLeader THEN p ELSE @]
    /\ observed' = observed \cup {p}

RegisterIdentity(p) ==
    LET g == procs[p].group IN
    /\ groups' = [groups EXCEPT ![g] = IF @ = NoLeader THEN Id(p) ELSE @]
    /\ observed' = observed \cup {Id(p)}

\* register_process: a child that is gone already needs no registration.
Register(p) ==
    /\ p \in toRegister
    /\ toRegister' = toRegister \ {p}
    /\ IF procs[p] = Free THEN UNCHANGED registry ELSE RegisterIdentity(p)
    /\ UNCHANGED <<procs, births, toRetire, cleanupVars, foreignHit>>

\* register_external_process: the daemon a launcher left behind in a group of
\* its own.
Adopt(p) ==
    /\ procs[p] # Free /\ procs[p].own /\ ~procs[p].child /\ procs[p].group = p
    /\ RegisterIdentity(p)
    /\ UNCHANGED <<procs, births, tasks, cleanupVars, foreignHit>>

\* track_process_tree, track_profile_owned_processes: a sampler has attributed
\* a process to AHRB's tree.
Track(p) ==
    /\ procs[p] # Free /\ procs[p].own
    /\ observed' = observed \cup {Id(p)}
    /\ UNCHANGED <<procs, births, groups, tasks, cleanupVars, foreignHit>>

\* A task's wait returns.  A task that is dropped instead leaves the reaping
\* to the runtime and never retires the child.
Reap(p) ==
    /\ procs[p] # Free /\ procs[p].child /\ procs[p].state = "zombie"
    /\ p \notin toRegister
    /\ procs' = [procs EXCEPT ![p] = Free]
    /\ toRetire' \in {toRetire, toRetire \cup {p}}
    /\ UNCHANGED <<births, registry, toRegister, cleanupVars, foreignHit>>

\* retire_process: drop the groups the child led unless something lives there,
\* and observe what does.
Retire(p) ==
    LET led == {g \in Registered(groups) : groups[g][1] = p}
        left(g) == GroupMembers(g, groups[g][2])
    IN
    /\ p \in toRetire
    /\ toRetire' = toRetire \ {p}
    /\ groups' = [g \in Pids |-> IF g \in led /\ left(g) = {} THEN NoLeader
                                                              ELSE groups[g]]
    /\ observed' = {i \in observed \cup (UNION {left(g) : g \in led}) :
                        i[1] # p \/ Present(i)}
    /\ UNCHANGED <<procs, births, toRegister, cleanupVars, foreignHit>>

-----------------------------------------------------------------------------
(* cleanup_owned_processes_with_evidence, under CLEANUP_LOCK.              *)

\* Clone the registry; record what is live before the first signal.
\* With nothing registered it returns at once.
CleanupStart ==
    /\ cl \in {"idle", "failed"}
    /\ Registered(groups) # {} \/ observed # {}
    /\ cl' = "term"
    /\ snapGroups' = groups /\ snapObserved' = observed
    /\ seen' = LiveOwned(groups, observed)
    /\ todo' = Registered(groups) \cup {ObservedSweep}
    /\ UNCHANGED <<procs, births, registry, tasks, targets, survivors, foreignHit>>

\* What the cleanup held is gone when it returns.
Return(outcome) ==
    /\ cl' = outcome
    /\ snapGroups' = [g \in Pids |-> NoLeader] /\ snapObserved' = {}
    /\ todo' = {} /\ targets' = {} /\ seen' = {} /\ survivors' = {}

Signalling == cl \in {"term", "kill"}

\* The groups come first, whose members are looked up one group at a time.
EnumerateGroup(g) ==
    /\ Signalling /\ targets = {} /\ g \in todo \ {ObservedSweep}
    /\ targets' = VerifiedGroupMembers(snapGroups, snapObserved, g)
    /\ todo' = todo \ {g}
    /\ UNCHANGED <<procs, births, registry, tasks, cl, snapGroups, snapObserved,
                   seen, survivors, foreignHit>>

\* Mutant: a KILL pass over the groups alone.
EnumerateObserved_TermOnly ==
    /\ Signalling /\ targets = {} /\ todo = {ObservedSweep}
    /\ targets' = IF cl = "term" THEN snapObserved ELSE {}
    /\ todo' = {}
    /\ UNCHANGED <<procs, births, registry, tasks, cl, snapGroups, snapObserved,
                   seen, survivors, foreignHit>>

\* Then every identity a sampler observed, whatever group it is in now.
EnumerateObserved ==
    /\ Signalling /\ targets = {} /\ todo = {ObservedSweep}
    /\ targets' = snapObserved
    /\ todo' = {}
    /\ UNCHANGED <<procs, births, registry, tasks, cl, snapGroups, snapObserved,
                   seen, survivors, foreignHit>>

\* Mutant: the signal goes to whatever process has the PID now.
SignalIdentity_ByPid(i) ==
    /\ Signalling /\ i \in targets
    /\ targets' = targets \ {i}
    /\ IF procs[i[1]] # Free
       THEN /\ foreignHit' = (foreignHit \/ ~procs[i[1]].own)
            /\ procs' = IF cl = "kill" /\ procs[i[1]].state = "running"
                        THEN [procs EXCEPT ![i[1]].state = "killed"]
                        ELSE procs
       ELSE UNCHANGED <<procs, foreignHit>>
    /\ UNCHANGED <<births, registry, tasks, cl, snapGroups, snapObserved, todo,
                   seen, survivors>>

\* signal_identity: nothing is sent to a PID whose start time has changed.
\* TERM asks, and the process may exit or ignore it; KILL is final.
SignalIdentity(i) ==
    /\ Signalling /\ i \in targets
    /\ targets' = targets \ {i}
    /\ IF Present(i)
       THEN /\ foreignHit' = (foreignHit \/ ~procs[i[1]].own)
            /\ procs' = IF cl = "kill" /\ procs[i[1]].state = "running"
                        THEN [procs EXCEPT ![i[1]].state = "killed"]
                        ELSE procs
       ELSE UNCHANGED <<procs, foreignHit>>
    /\ UNCHANGED <<births, registry, tasks, cl, snapGroups, snapObserved, todo,
                   seen, survivors>>

\* After the TERM pass the grace period, cut short when nothing is left, and
\* the KILL pass over the same snapshot; after that the wait for the kills.
PassEnds ==
    /\ Signalling /\ todo = {} /\ targets = {}
    /\ \/ /\ cl = "term" /\ cl' = "kill"
          /\ todo' = Registered(snapGroups) \cup {ObservedSweep}
       \/ /\ cl = "kill" /\ cl' = "poll"
          /\ UNCHANGED todo
    /\ UNCHANGED <<procs, births, registry, tasks, snapGroups, snapObserved,
                   targets, seen, survivors, foreignHit>>

\* reap_direct_child for every leader of the snapshot.
ReapLeaders ==
    /\ cl = "poll"
    /\ procs' = [p \in Pids |->
          IF /\ \E g \in Registered(snapGroups) : snapGroups[g][1] = p
             /\ procs[p] # Free /\ procs[p].child /\ procs[p].state = "zombie"
          THEN Free ELSE procs[p]]
    /\ UNCHANGED <<births, registry, tasks, cleanupVars, foreignHit>>

\* The polling loop ends: nothing is left, or the deadline has passed.
Poll ==
    /\ cl = "poll"
    /\ cl' = "settle"
    /\ survivors' = LiveOwned(snapGroups, snapObserved)
    /\ UNCHANGED <<procs, births, registry, tasks, snapGroups, snapObserved, todo,
                   targets, seen, foreignHit>>

\* Mutant: the registry is cleared whatever survived.
Settle_Clear ==
    /\ cl = "settle"
    /\ Return("idle")
    /\ groups' = [g \in Pids |-> NoLeader] /\ observed' = {}
    /\ UNCHANGED <<procs, births, tasks, foreignHit>>

\* Under the registry lock: keep the survivors, and the groups someone is in.
Settle ==
    /\ cl = "settle"
    /\ Return("idle")
    /\ observed' = survivors
    /\ groups' = [g \in Pids |->
          IF /\ survivors # {} /\ groups[g] # NoLeader
             /\ GroupMembers(g, groups[g][2]) # {}
          THEN groups[g] ELSE NoLeader]
    /\ UNCHANGED <<procs, births, tasks, foreignHit>>

\* A process lookup or a kill fails: the error returns from where it happened.
CleanupFails ==
    /\ cl \in {"term", "kill", "poll"}
    /\ Return("failed")
    /\ UNCHANGED <<procs, births, registry, tasks, foreignHit>>

-----------------------------------------------------------------------------
CleanupStep ==
    \/ \E g \in Pids : EnumerateGroup(g)
    \/ EnumerateObserved
    \/ \E i \in targets : SignalIdentity(i)
    \/ PassEnds \/ Poll \/ Settle

Next ==
    \/ \E p \in Pids : StartForeign(p) \/ Exit(p) \/ \E q \in Pids : Fork(q, p)
    \/ \E p \in Pids : Spawn(p) \/ Register(p) \/ Adopt(p) \/ Track(p)
    \/ \E p \in Pids : Reap(p) \/ Retire(p)
    \/ CleanupStart \/ CleanupStep \/ ReapLeaders \/ CleanupFails

Spec == Init /\ [][Next]_vars

\* The cleanup is a bounded loop on a thread of its own, and the kernel
\* carries a KILL out.  No program has to exit, and none has to be spawned.
FairSpec ==
    /\ Spec
    /\ WF_vars(CleanupStep)
    /\ \A p \in Pids : WF_vars(procs[p] # Free /\ procs[p].state = "killed" /\ Exit(p))

-----------------------------------------------------------------------------
(* AHRB signals only processes that descend from it, however often PIDs    *)
(* and group IDs are given out again while the registry still names their  *)
(* earlier owners.  (signal_identity, verified_group_members)              *)
NoForeignSignal == ~foreignHit

(* Whatever the registry, its snapshot or the signal queue names is dead   *)
(* or AHRB's own: no stale entry ever comes to mean someone else's process.*)
MeansOwn(i) == Present(i) => procs[i[1]].own

RegistryMeansOwn ==
    \A i \in observed \cup snapObserved \cup targets \cup survivors : MeansOwn(i)

(* When the signal passes are over, every process the snapshot had observed *)
(* has been killed or is gone, wherever it moved while they ran.           *)
KillReachesObserved ==
    cl \in {"poll", "settle"} => \A i \in snapObserved : ~Running(i)

(* A cleanup that ends does not forget a process it knew at its start and  *)
(* could not kill: that process stays observed for the next cleanup.       *)
SurvivorsStayObserved ==
    [][ cl = "settle" /\ cl' = "idle" =>
          \A i \in snapObserved : Present(i) => i \in observed' ]_vars

(* A process that is observed when a cleanup starts dies, unless the       *)
(* cleanup fails on an operating-system error.                             *)
ObservedProcessesDie ==
    \A i \in Pids \X (1 .. MaxBirths) :
        (cl = "term" /\ i \in snapObserved) ~> (~Present(i) \/ cl = "failed"
                               \/ procs[i[1]].state = "zombie")
=============================================================================
