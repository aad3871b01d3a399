-------------------------- MODULE ManagedChildProofs --------------------------
(***************************************************************************)
(* Proofs about the children a driver waits for and stops: whatever else   *)
(* starts and exits meanwhile, the group that a call signals by its number *)
(* is still its child's, and what a retired child leaves in its group is   *)
(* known to the registry, provided that the kernel gives no PID out again  *)
(* between the wait for a child and its retirement.                        *)
(***************************************************************************)
EXTENDS ManagedChild, OwnedProcessesProofs

Launched(t) == ~At(t, "new")

\* The call still has its child, dead or alive.
Holds(t) ==
    job[t].at \in {"register", "wait", "grace", "killed", "expired", "sweep", "retire"}

Gathered(t) == job[t].waited \/ At(t, "sweep") \/ At(t, "retire")

JobsTyped ==
    /\ job \in [Jobs -> [at : {"new", "register", "wait", "grace", "killed", "expired",
                               "sweep", "retire"} \cup Ended,
                         pid : Pids \cup {NoPid}, born : Nat, waited : BOOLEAN,
                         stopped : BOOLEAN, ended : Nat]]
    /\ pipes \in [Jobs -> SUBSET Identities]

\* No two calls ever have the same child.
ChildrenDiffer ==
    /\ \A t \in Jobs : Launched(t) => job[t].pid \in Pids /\ job[t].born <= births
    /\ \A t, u \in Jobs :
          t # u /\ Launched(t) /\ Launched(u) => job[t].born # job[u].born

WaitedEnds ==
    \A t \in Jobs : job[t].waited =>
        /\ Kind[t] = "command"
        /\ job[t].at \in {"wait", "retire"} \cup Ended

\* A child that was not waited for is there; the PID of one that was is kept
\* for its call until it is retired.
HolderOK(t) ==
    IF Gathered(t) THEN job[t].pid \in toRetire
                   ELSE Present(Leader(t)) /\ procs[job[t].pid].child

HoldersOK ==
    /\ \A t \in Jobs : Holds(t) => HolderOK(t)
    /\ \A t, u \in Jobs : t # u /\ Holds(t) /\ Holds(u) => job[t].pid # job[u].pid

OnlyNewRegister == toRegister = {job[t].pid : t \in {u \in Jobs : At(u, "register")}}

\* The process that a call started is a child of AHRB for as long as it is there.
LeadersAreChildren ==
    \A t \in Jobs : Launched(t) /\ Present(Leader(t)) => procs[job[t].pid].child

JobInv == /\ JobsTyped /\ ChildrenDiffer /\ WaitedEnds /\ HoldersOK /\ OnlyNewRegister
          /\ LeadersAreChildren

MInv == OwnInv /\ JobInv

-----------------------------------------------------------------------------
(* Steps that only kill, and give up what is between two calls.            *)

KillsOnly ==
    /\ UNCHANGED <<births, registry, cleanupVars, foreignHit>>
    /\ toRegister' \subseteq toRegister /\ toRetire' \subseteq toRetire
    /\ \E P \in SUBSET Pids :
         /\ \A p \in P : procs[p] # Free
         /\ procs' = [p \in Pids |-> IF p \in P THEN [procs[p] EXCEPT !.state = "killed"]
                                               ELSE procs[p]]

LEMMA KillsTable ==
    ASSUME TypeOK, KillsOnly
    PROVE  /\ procs' \in [Pids -> Process \cup {Free}]
           /\ \A p \in Pids :
                 /\ procs'[p] = Free <=> procs[p] = Free
                 /\ procs[p] # Free =>
                       /\ procs'[p].born = procs[p].born /\ procs'[p].group = procs[p].group
                       /\ procs'[p].child = procs[p].child /\ procs'[p].own = procs[p].own
<1>1. PICK P \in SUBSET Pids :
         /\ \A p \in P : procs[p] # Free
         /\ procs' = [p \in Pids |-> IF p \in P THEN [procs[p] EXCEPT !.state = "killed"]
                                               ELSE procs[p]]
  BY DEF KillsOnly
<1>2. \A p \in Pids : procs[p] # Free => procs[p] \in Process
  BY DEF TypeOK
<1>3. ASSUME NEW p \in P
      PROVE  /\ procs'[p] \in Process
             /\ procs'[p].born = procs[p].born /\ procs'[p].group = procs[p].group
             /\ procs'[p].child = procs[p].child /\ procs'[p].own = procs[p].own
  BY <1>1, <1>2 DEF Process
<1>4. \A p \in Pids \ P : procs'[p] = procs[p]
  BY <1>1
<1>5. \A p \in P : procs'[p] # Free
  BY <1>3, ProcessIsNotFree
<1>6. \A p \in Pids : procs'[p] \in Process \cup {Free}
  BY <1>2, <1>3, <1>4
<1>7. procs' \in [Pids -> Process \cup {Free}]
  BY <1>1, <1>6
<1> QED
  BY <1>1, <1>3, <1>4, <1>5, <1>7

LEMMA KillsKeepOwn ==
    ASSUME OwnInv, KillsOnly PROVE OwnInv'
<1>1. TypeOK
  BY DEF OwnInv
<1>2. /\ procs' \in [Pids -> Process \cup {Free}]
      /\ \A p \in Pids :
            /\ procs'[p] = Free <=> procs[p] = Free
            /\ procs[p] # Free =>
                  /\ procs'[p].born = procs[p].born /\ procs'[p].group = procs[p].group
                  /\ procs'[p].child = procs[p].child /\ procs'[p].own = procs[p].own
  BY <1>1, KillsTable
<1>3. /\ UNCHANGED <<births, groups, observed, cl, snapGroups, snapObserved, todo, targets,
                     seen, survivors, foreignHit>>
      /\ toRegister' \subseteq toRegister /\ toRetire' \subseteq toRetire
  BY DEF KillsOnly, registry, cleanupVars
<1>4. TypeOK'
  BY <1>1, <1>2, <1>3 DEF TypeOK
<1>5. UNCHANGED Named
  BY <1>3 DEF Named, Leaders, Registered
<1>6. BornInTime'
  BY <1>2, <1>3, <1>5 DEF OwnInv, BornInTime
<1>7. GroupsPure' /\ ChildrenLead'
  BY <1>2 DEF OwnInv, GroupsPure, ChildrenLead
<1>8. PendingTasks'
  BY <1>1, <1>2, <1>3 DEF OwnInv, PendingTasks, TypeOK
<1>9. RegisteredLead'
  BY <1>3 DEF OwnInv, RegisteredLead, Registered
<1>10. NamesMeanOwn'
  <2>1. \A i \in Named : i[1] \in Pids /\ MeansOwn(i)
    BY <1>1, NamedAreIdentities DEF OwnInv, NamesMeanOwn, Identities
  <2> QED
    BY <1>2, <1>5, <2>1 DEF NamesMeanOwn, MeansOwn, Present
<1> QED
  BY <1>3, <1>4, <1>6, <1>7, <1>8, <1>9, <1>10 DEF OwnInv

-----------------------------------------------------------------------------
(* The steps of a call that has its child already.                         *)

\* Only this call moves, and its child stays its child.
Advance(t) ==
    /\ UNCHANGED <<births, pipes>>
    /\ \A u \in Jobs \ {t} : job'[u] = job[u]
    /\ job' \in [Jobs -> [at : {"new", "register", "wait", "grace", "killed", "expired",
                               "sweep", "retire"} \cup Ended,
                         pid : Pids \cup {NoPid}, born : Nat, waited : BOOLEAN,
                         stopped : BOOLEAN, ended : Nat]]
    /\ job'[t].pid = job[t].pid /\ job'[t].born = job[t].born
    /\ Launched(t) /\ Launched(t)'

\* Of the processes at most the child goes, and of the PIDs kept for a
\* retirement at most the child's.
OthersKept(t) ==
    /\ \A p \in Pids : procs[p] # Free =>
          \/ /\ procs'[p] # Free
             /\ procs'[p].born = procs[p].born /\ procs'[p].child = procs[p].child
          \/ p = job[t].pid /\ procs[p].born = job[t].born
    /\ \A p \in toRetire : p \in toRetire' \/ (Holds(t) /\ p = job[t].pid)

\* The process table gains only processes with a new start time.
OldOrNew ==
    \A p \in Pids : procs'[p] # Free =>
        \/ /\ procs[p] # Free
           /\ procs'[p].born = procs[p].born /\ procs'[p].child = procs[p].child
        \/ procs'[p].born = births + 1

RegisterOK(t) ==
    /\ ~At(t, "register")'
    /\ \/ Holds(t) /\ toRegister' = toRegister \ {job[t].pid}
       \/ ~At(t, "register") /\ toRegister' = toRegister

LEMMA LeaderStaysChild ==
    ASSUME TypeOK, JobInv, OldOrNew, NEW t \in Jobs, Launched(t),
           job'[t].pid = job[t].pid, job'[t].born = job[t].born, Present(Leader(t))'
    PROVE  procs'[job'[t].pid].child
<1>1. job[t].pid \in Pids /\ job[t].born <= births /\ job[t].born \in Nat /\ births \in Nat
  BY DEF JobInv, ChildrenDiffer, JobsTyped, TypeOK
<1>2. procs'[job[t].pid] # Free /\ procs'[job[t].pid].born = job[t].born
  BY DEF Present, Leader
<1>3. Present(Leader(t)) /\ procs'[job[t].pid].child = procs[job[t].pid].child
  BY <1>1, <1>2 DEF OldOrNew, Present, Leader
<1> QED
  BY <1>3 DEF JobInv, LeadersAreChildren

LEMMA AdvanceKeeps ==
    ASSUME TypeOK, JobInv, NEW t \in Jobs, Advance(t), OthersKept(t), RegisterOK(t), OldOrNew,
           Holds(t)' => Holds(t) /\ HolderOK(t)',
           job'[t].waited => /\ Kind[t] = "command"
                             /\ job'[t].at \in {"wait", "retire"} \cup Ended
    PROVE  JobInv'
<1>1. JobsTyped'
  BY DEF Advance, JobInv, JobsTyped
<1>2. \A u \in Jobs : /\ Launched(u)' <=> Launched(u)
                      /\ job'[u].pid = job[u].pid /\ job'[u].born = job[u].born
  BY DEF Advance, Launched, At
<1>3. ChildrenDiffer'
  BY <1>2 DEF Advance, JobInv, ChildrenDiffer
<1>4. WaitedEnds'
  BY DEF Advance, JobInv, WaitedEnds
<1>5. \A u \in Jobs : Holds(u)' => Holds(u)
  BY DEF Advance, Holds
<1>6. ASSUME NEW u \in Jobs \ {t}, Holds(u)' PROVE HolderOK(u)'
  <2>1. /\ Holds(u) /\ HolderOK(u) /\ Launched(u) /\ Launched(t)
        /\ job'[u] = job[u] /\ (Gathered(u)' <=> Gathered(u))
        /\ job[u].pid \in Pids /\ job[u].born # job[t].born
        /\ (Holds(t) => job[u].pid # job[t].pid)
    BY <1>5, <1>6 DEF Advance, Gathered, At, JobInv, HoldersOK, ChildrenDiffer, Launched,
         Holds
  <2>2. CASE Gathered(u)
    BY <2>1, <2>2 DEF HolderOK, OthersKept
  <2>3. CASE ~Gathered(u)
    BY <2>1, <2>3 DEF HolderOK, OthersKept, Present, Leader
  <2> QED
    BY <2>2, <2>3
<1>7. \A u, v \in Jobs : u # v /\ Holds(u)' /\ Holds(v)' => job'[u].pid # job'[v].pid
  BY <1>2, <1>5 DEF JobInv, HoldersOK
<1>8. HoldersOK'
  <2>1. \A u \in Jobs : Holds(u)' => HolderOK(u)'
    BY <1>6
  <2> QED
    BY <1>7, <2>1 DEF HoldersOK
<1>9. OnlyNewRegister'
  <2>1. \A u \in Jobs : At(u, "register")' <=> u # t /\ At(u, "register")
    BY DEF Advance, RegisterOK, At
  <2>2. \A u \in Jobs : At(u, "register") => Holds(u)
    BY DEF At, Holds
  <2>3. \A u \in Jobs : u # t /\ Holds(u) /\ Holds(t) => job[u].pid # job[t].pid
    BY DEF JobInv, HoldersOK
  <2>4. \A p : p \in toRegister <=> \E u \in Jobs : At(u, "register") /\ p = job[u].pid
    BY DEF JobInv, OnlyNewRegister
  <2>5. \A p : p \in toRegister' <=>
                 \E u \in Jobs : u # t /\ At(u, "register") /\ p = job[u].pid
    BY <2>2, <2>3, <2>4 DEF RegisterOK
  <2>6. \A p : p \in toRegister' <=>
                 \E u \in Jobs : At(u, "register")' /\ p = job'[u].pid
    BY <1>2, <2>1, <2>5
  <2>7. toRegister' = {job'[u].pid : u \in {v \in Jobs : At(v, "register")'}}
    BY <2>6
  <2> QED
    BY <2>7 DEF OnlyNewRegister, At
<1>10. LeadersAreChildren'
  BY <1>2, LeaderStaysChild DEF LeadersAreChildren
<1> QED
  BY <1>1, <1>3, <1>4, <1>8, <1>9, <1>10 DEF JobInv

-----------------------------------------------------------------------------
(* The number of a call's child is its group's while the call has it.      *)

LEMMA GroupIsOwn ==
    ASSUME OwnInv, JobInv, NEW t \in Jobs, Holds(t)
    PROVE  \A p \in Pids : procs[p] # Free /\ procs[p].group = job[t].pid => procs[p].own
<1>1. HolderOK(t) /\ job[t].pid \in Pids
  BY DEF JobInv, HoldersOK, ChildrenDiffer, Launched, Holds, At
<1>2. CASE Gathered(t)
  BY <1>1, <1>2 DEF HolderOK, OwnInv, PendingTasks
<1>3. CASE ~Gathered(t)
  BY <1>1, <1>3 DEF HolderOK, Present, Leader, OwnInv, ChildrenLead, GroupsPure
<1> QED
  BY <1>2, <1>3

LEMMA SignalGroupKills ==
    ASSUME OwnInv, JobInv, NEW t \in Jobs, Holds(t), NEW final \in BOOLEAN,
           SignalGroup(job[t].pid, final), UNCHANGED toRetire, Unmoved
    PROVE  KillsOnly
<1>1. foreignHit' = foreignHit
  BY GroupIsOwn DEF SignalGroup, OwnInv, TypeOK
<1>2. UNCHANGED <<births, registry, cleanupVars, toRegister>>
  BY DEF Unmoved, registry
<1> DEFINE hit == {p \in Pids : final /\ procs[p] # Free /\ procs[p].group = job[t].pid
                               /\ procs[p].state = "running"}
<1>3. procs' = [p \in Pids |-> IF p \in hit THEN [procs[p] EXCEPT !.state = "killed"]
                                           ELSE procs[p]]
  BY DEF SignalGroup, OwnInv, TypeOK
<1>4. hit \in SUBSET Pids /\ \A p \in hit : procs[p] # Free
  OBVIOUS
<1> QED
  BY <1>1, <1>2, <1>3, <1>4 DEF KillsOnly

LEMMA KillsKeepOthers ==
    ASSUME TypeOK, KillsOnly, NEW t \in Jobs, UNCHANGED toRetire \/
              (Holds(t) /\ toRetire' = toRetire \ {job[t].pid})
    PROVE  OthersKept(t)
  BY KillsTable DEF OthersKept

\* A child of its own that was killed but not waited for is still a holder's.
LEMMA KillsKeepLeader ==
    ASSUME TypeOK, KillsOnly, NEW t \in Jobs, job[t].pid \in Pids,
           job'[t].pid = job[t].pid, job'[t].born = job[t].born,
           Present(Leader(t)) /\ procs[job[t].pid].child
    PROVE  (Present(Leader(t)) /\ procs[job[t].pid].child)'
  BY KillsTable DEF Present, Leader
LEMMA KillsTableOld == ASSUME TypeOK, KillsOnly PROVE OldOrNew
  BY KillsTable DEF OldOrNew

LEMMA NextTableOld == ASSUME TypeOK, [Next]_vars PROVE OldOrNew
  BY TableMoves DEF TableStep, OldOrNew

LEMMA GotoAdvances ==
    ASSUME JobsTyped, NEW t \in Jobs, Launched(t), UNCHANGED <<births, pipes>>,
           NEW there \in {"wait", "grace", "killed", "expired", "sweep", "retire"},
           Goto(t, there)
    PROVE  Advance(t) /\ job'[t].at = there /\ job'[t].waited = job[t].waited
  BY DEF JobsTyped, Goto, Advance, Launched, At

LEMMA EndAdvances ==
    ASSUME TypeOK, JobsTyped, NEW t \in Jobs, Launched(t), UNCHANGED <<births, pipes>>,
           NEW how \in Ended, End(t, how)
    PROVE  Advance(t) /\ job'[t].at = how /\ job'[t].waited = job[t].waited
<1>1. births \in Nat
  BY DEF TypeOK
<1> QED
  BY <1>1 DEF JobsTyped, End, Ended, Advance, Launched, At

LEMMA WaitedAdvances ==
    ASSUME JobsTyped, NEW t \in Jobs, Launched(t), UNCHANGED <<births, pipes>>,
           job' = [job EXCEPT ![t].waited = TRUE]
    PROVE  Advance(t) /\ job'[t].at = job[t].at /\ job'[t].waited = TRUE
  BY DEF JobsTyped, Advance, Launched, At

LEMMA StopAdvances ==
    ASSUME JobsTyped, NEW t \in Jobs, Launched(t), UNCHANGED <<births, pipes>>,
           job' = [job EXCEPT ![t].at = "grace", ![t].stopped = TRUE]
    PROVE  Advance(t) /\ job'[t].at = "grace" /\ job'[t].waited = job[t].waited
  BY DEF JobsTyped, Advance, Launched, At

-----------------------------------------------------------------------------
(* Waits.                                                                  *)

LEMMA HolderKnown ==
    ASSUME JobInv, NEW t \in Jobs, Launched(t)
    PROVE  /\ job[t].pid \in Pids
           /\ Holds(t) => HolderOK(t)
           /\ job[t].waited => Kind[t] = "command"
                               /\ job[t].at \in {"wait", "retire"} \cup Ended
  BY DEF JobInv, ChildrenDiffer, HoldersOK, WaitedEnds

\* A child that is waited for is registered, or its call was dropped before.
LEMMA WaitIsReap ==
    ASSUME TypeOK, JobInv, NEW t \in Jobs, Launched(t), ~At(t, "register"),
           LeaderIs(t, "zombie"), procs' = [procs EXCEPT ![job[t].pid] = Free],
           toRetire' \in {toRetire, toRetire \cup {job[t].pid}},
           Unmoved, UNCHANGED foreignHit
    PROVE  Reap(job[t].pid)
<1>1. job[t].pid \in Pids
  BY HolderKnown
<1>2. /\ procs[job[t].pid] # Free /\ procs[job[t].pid].state = "zombie"
      /\ procs[job[t].pid].child
  BY DEF LeaderIs, Present, Leader, JobInv, LeadersAreChildren
<1>3. job[t].pid \notin toRegister
  <2>1. ASSUME NEW u \in Jobs, At(u, "register"), job[u].pid = job[t].pid PROVE FALSE
    <3>1. Launched(u) /\ Holds(u) /\ u # t
      BY <2>1 DEF Launched, Holds, At
    <3>2. ~Gathered(u)
      BY <2>1, <3>1, HolderKnown DEF Gathered, At, Ended
    <3>3. Present(Leader(u))
      BY <3>1, <3>2, HolderKnown DEF HolderOK
    <3>4. job[u].born = job[t].born
      BY <2>1, <3>3 DEF LeaderIs, Present, Leader
    <3> QED
      BY <3>1, <3>4 DEF JobInv, ChildrenDiffer
  <2> QED
    BY <2>1 DEF JobInv, OnlyNewRegister
<1>4. UNCHANGED <<births, registry, toRegister, cleanupVars, foreignHit>>
  BY DEF Unmoved, registry
<1> QED
  BY <1>2, <1>3, <1>4 DEF Reap

LEMMA WaitKeeps ==
    ASSUME OwnInv, JobInv, NEW t \in Jobs, Launched(t), ~At(t, "register"), Advance(t),
           ~At(t, "register")',
           LeaderIs(t, "zombie"), procs' = [procs EXCEPT ![job[t].pid] = Free],
           toRetire' \in {toRetire, toRetire \cup {job[t].pid}},
           Unmoved, UNCHANGED foreignHit,
           Holds(t)' => Holds(t) /\ Gathered(t)' /\ job[t].pid \in toRetire',
           job'[t].waited => /\ Kind[t] = "command"
                             /\ job'[t].at \in {"wait", "retire"} \cup Ended
    PROVE  Next /\ JobInv'
<1>0. TypeOK
  BY DEF OwnInv
<1>1. Reap(job[t].pid) /\ job[t].pid \in Pids
  BY <1>0, WaitIsReap, HolderKnown
<1>2. Next
  BY <1>1 DEF Next
<1>3. OldOrNew
  BY <1>0, <1>2, NextTableOld
<1>4. OthersKept(t)
  BY <1>0, <1>1 DEF OthersKept, LeaderIs, Present, Leader, TypeOK
<1>5. RegisterOK(t)
  BY DEF RegisterOK, Unmoved
<1>6. Holds(t)' => Holds(t) /\ HolderOK(t)'
  BY DEF HolderOK, Advance
<1>7. JobInv'
  BY <1>0, <1>3, <1>4, <1>5, <1>6, AdvanceKeeps
<1> QED
  BY <1>2, <1>7
LEMMA WaitsKeep ==
    ASSUME OwnInv, JobInv, NEW t \in Jobs,
           \/ CommandExits(t) \/ InvocationExits(t) \/ ExpiredExits(t) \/ StoppedExits(t)
           \/ RuntimeReaps(t)
    PROVE  Next /\ JobInv'
<1>0. JobsTyped /\ TypeOK
  BY DEF OwnInv, JobInv
<1>1. Launched(t) /\ ~At(t, "register")
  BY DEF CommandExits, InvocationExits, ExpiredExits, StoppedExits, RuntimeReaps, Launched, At
<1>2. UNCHANGED <<births, pipes>> /\ UNCHANGED foreignHit /\ Unmoved
  BY DEF CommandExits, InvocationExits, ExpiredExits, StoppedExits, RuntimeReaps, Unmoved
<1>3. /\ LeaderIs(t, "zombie") /\ procs' = [procs EXCEPT ![job[t].pid] = Free]
      /\ toRetire' \in {toRetire, toRetire \cup {job[t].pid}}
      /\ ~RuntimeReaps(t) => toRetire' = toRetire \cup {job[t].pid}
  BY DEF CommandExits, InvocationExits, ExpiredExits, StoppedExits, RuntimeReaps, Collected
<1>4. CASE CommandExits(t)
  <2>1. Advance(t) /\ job'[t].at = "wait" /\ job'[t].waited = TRUE
    BY <1>0, <1>1, <1>2, <1>4, WaitedAdvances DEF CommandExits, At
  <2>2. Holds(t) /\ Gathered(t)' /\ job[t].pid \in toRetire' /\ ~At(t, "register")'
    BY <1>3, <1>4, <2>1 DEF CommandExits, RuntimeReaps, Holds, Gathered, At, Collected
  <2>3. Kind[t] = "command"
    BY <1>4 DEF CommandExits
  <2> QED
    BY <1>1, <1>2, <1>3, <2>1, <2>2, <2>3, WaitKeeps
<1>5. CASE InvocationExits(t) \/ ExpiredExits(t) \/ StoppedExits(t)
  <2>1. PICK there \in {"retire", "sweep"} : Goto(t, there)
    BY <1>5 DEF InvocationExits, ExpiredExits, StoppedExits
  <2>2. /\ Advance(t) /\ job'[t].at = there /\ job'[t].waited = job[t].waited
    BY <1>0, <1>1, <1>2, <2>1, GotoAdvances
  <2>3. Holds(t) /\ ~job[t].waited
    <3>1. job[t].waited => Kind[t] = "command"
                           /\ job[t].at \in {"wait", "retire"} \cup Ended
      BY <1>1, HolderKnown
    <3>2. CASE InvocationExits(t)
      <4>1. Kind[t] # "command" /\ job[t].at = "wait"
        BY <3>2 DEF InvocationExits, At
      <4> QED
        BY <3>1, <4>1 DEF Holds
    <3>3. CASE ExpiredExits(t) \/ StoppedExits(t)
      BY <3>1, <3>3 DEF ExpiredExits, StoppedExits, At, Holds, Ended
    <3> QED
      BY <1>5, <3>2, <3>3
  <2>4. Gathered(t)' /\ ~At(t, "register")'
    BY <2>2 DEF Gathered, At
  <2>5. job[t].pid \in toRetire'
    BY <1>5 DEF InvocationExits, ExpiredExits, StoppedExits, Collected
  <2> QED
    BY <1>1, <1>2, <1>3, <2>2, <2>3, <2>4, <2>5, WaitKeeps
<1>6. CASE RuntimeReaps(t)
  <2>1. UNCHANGED job /\ job[t].at = "dropped"
    BY <1>6 DEF RuntimeReaps, At
  <2>2. Advance(t)
    BY <1>0, <1>1, <1>2, <2>1 DEF Advance, JobsTyped, Launched, At
  <2>3. ~Holds(t)' /\ ~At(t, "register")'
    BY <2>1 DEF Holds, At
  <2>4. job'[t].waited => Kind[t] = "command"
                         /\ job'[t].at \in {"wait", "retire"} \cup Ended
    BY <1>1, <2>1, HolderKnown
  <2> QED
    BY <1>1, <1>2, <1>3, <2>2, <2>3, <2>4, WaitKeeps
<1> QED
  BY <1>4, <1>5, <1>6

-----------------------------------------------------------------------------
(* Signals.                                                                *)

LEMMA SignalsKeep ==
    ASSUME OwnInv, JobInv, NEW t \in Jobs,
           Stop(t) \/ InvocationExpires(t) \/ GraceOver(t) \/ Sweep(t)
    PROVE  KillsOnly /\ OwnInv' /\ JobInv'
<1>0. JobsTyped /\ TypeOK
  BY DEF OwnInv, JobInv
<1>1. Launched(t) /\ Holds(t) /\ ~At(t, "register")
  BY DEF Stop, InvocationExpires, GraceOver, Sweep, Launched, Holds, At
<1>2. /\ UNCHANGED <<births, pipes>> /\ Unmoved /\ UNCHANGED toRetire
      /\ UNCHANGED toRegister
  BY DEF Stop, InvocationExpires, GraceOver, Sweep, Unmoved
<1>3. \E final \in BOOLEAN : SignalGroup(job[t].pid, final)
  BY DEF Stop, InvocationExpires, GraceOver, Sweep
<1>4. KillsOnly
  BY <1>1, <1>2, <1>3, SignalGroupKills
<1>5. OthersKept(t) /\ OldOrNew
  BY <1>0, <1>2, <1>4, KillsKeepOthers, KillsTableOld
<1>6. /\ job[t].pid \in Pids /\ HolderOK(t)
      /\ job[t].waited => Kind[t] = "command"
                          /\ job[t].at \in {"wait", "retire"} \cup Ended
  BY <1>1, HolderKnown
<1>7. /\ Advance(t) /\ job'[t].waited = job[t].waited
      /\ job'[t].at \in {"grace", "expired", "killed", "retire"}
      /\ job'[t].at = "retire" <=> Sweep(t)
  <2>1. CASE Stop(t)
    BY <1>0, <1>1, <1>2, <2>1, StopAdvances DEF Stop, Sweep, At
  <2>2. CASE InvocationExpires(t)
    BY <1>0, <1>1, <1>2, <2>2, GotoAdvances DEF InvocationExpires, Sweep, At
  <2>3. CASE GraceOver(t)
    BY <1>0, <1>1, <1>2, <2>3, GotoAdvances DEF GraceOver, Sweep, At
  <2>4. CASE Sweep(t)
    BY <1>0, <1>1, <1>2, <2>4, GotoAdvances DEF Sweep
  <2> QED
    BY <2>1, <2>2, <2>3, <2>4
<1>8. ~job[t].waited
  <2>1. CASE Stop(t)
    BY <2>1 DEF Stop
  <2>2. CASE InvocationExpires(t)
    <3>1. Kind[t] # "command"
      BY <2>2 DEF InvocationExpires
    <3> QED
      BY <1>6, <3>1
  <2>3. CASE GraceOver(t) \/ Sweep(t)
    BY <1>6, <2>3 DEF GraceOver, Sweep, At, Ended
  <2> QED
    BY <2>1, <2>2, <2>3
<1>9. HolderOK(t)'
  <2>1. CASE Sweep(t)
    <3>1. job[t].pid \in toRetire
      BY <1>6, <2>1 DEF HolderOK, Gathered, Sweep
    <3>2. Gathered(t)' /\ job'[t].pid = job[t].pid
      BY <1>7, <2>1 DEF Gathered, At, Advance
    <3> QED
      BY <1>2, <3>1, <3>2 DEF HolderOK
  <2>2. CASE ~Sweep(t)
    <3>1. ~Gathered(t)
      BY <1>8, <2>2 DEF Gathered, Stop, InvocationExpires, GraceOver, At
    <3>2. ~Gathered(t)'
      BY <1>7, <1>8, <2>2 DEF Gathered, At
    <3>3. job'[t].pid = job[t].pid /\ job'[t].born = job[t].born
      BY <1>7 DEF Advance
    <3>4. (Present(Leader(t)) /\ procs[job[t].pid].child)'
      BY <1>0, <1>4, <1>6, <3>1, <3>3, KillsKeepLeader DEF HolderOK
    <3> QED
      BY <3>2, <3>4 DEF HolderOK
  <2> QED
    BY <2>1, <2>2
<1>10. RegisterOK(t)
  BY <1>1, <1>2, <1>7 DEF RegisterOK, At
<1>11. JobInv'
  BY <1>0, <1>1, <1>5, <1>7, <1>8, <1>9, <1>10, AdvanceKeeps
<1> QED
  BY <1>4, <1>11, KillsKeepOwn
-----------------------------------------------------------------------------
(* Calls that end early, and the steps that keep the processes.            *)

LEMMA GiveUpsKeep ==
    ASSUME OwnInv, JobInv, NEW t \in Jobs, TimesOutAfterExit(t) \/ Abandon(t)
    PROVE  KillsOnly /\ OwnInv' /\ JobInv'
<1>0. JobsTyped /\ TypeOK
  BY DEF OwnInv, JobInv
<1>1. Launched(t) /\ Holds(t)
  BY DEF TimesOutAfterExit, Abandon, Launched, Holds, At
<1>2. /\ UNCHANGED <<births, registry, cleanupVars, foreignHit, pipes>>
      /\ toRetire' = toRetire \ {job[t].pid}
      /\ End(t, "stopped") \/ End(t, "dropped")
  BY DEF TimesOutAfterExit, Abandon, Unmoved, registry
<1>3. job[t].pid \in Pids /\ (job[t].waited => Kind[t] = "command")
  BY <1>1, HolderKnown
<1>4. /\ Advance(t) /\ job'[t].at \in {"stopped", "dropped"}
      /\ job'[t].waited = job[t].waited
  BY <1>0, <1>1, <1>2, EndAdvances DEF Ended
<1>5. toRegister' = toRegister \ {job[t].pid} \/ (~At(t, "register") /\ toRegister' = toRegister)
  BY DEF TimesOutAfterExit, Abandon, Unmoved, At
<1>6. KillsOnly
  <2> DEFINE hit == IF Abandon(t) /\ LeaderIs(t, "running") THEN {job[t].pid} ELSE {}
  <2>1. hit \in SUBSET Pids /\ \A p \in hit : procs[p] # Free
    BY <1>3 DEF LeaderIs, Present, Leader
  <2>2. procs' = [p \in Pids |-> IF p \in hit THEN [procs[p] EXCEPT !.state = "killed"]
                                            ELSE procs[p]]
    <3>1. CASE Abandon(t) /\ LeaderIs(t, "running")
      BY <1>0, <1>3, <3>1 DEF Abandon, TypeOK
    <3>2. CASE ~(Abandon(t) /\ LeaderIs(t, "running"))
      <4>1. procs' = procs
        BY <3>2 DEF Abandon, TimesOutAfterExit
      <4> QED
        BY <1>0, <3>2, <4>1 DEF TypeOK
    <3> QED
      BY <3>1, <3>2
  <2>3. toRegister' \subseteq toRegister /\ toRetire' \subseteq toRetire
    BY <1>2, <1>5
  <2> HIDE DEF hit
  <2> QED
    BY <1>2, <2>1, <2>2, <2>3 DEF KillsOnly
<1>7. OthersKept(t) /\ OldOrNew
  BY <1>0, <1>1, <1>2, <1>6, KillsKeepOthers, KillsTableOld
<1>8. RegisterOK(t) /\ ~Holds(t)'
  BY <1>1, <1>4, <1>5 DEF RegisterOK, At, Holds
<1>9. JobInv'
  BY <1>0, <1>3, <1>4, <1>7, <1>8, AdvanceKeeps DEF Ended
<1> QED
  BY <1>6, <1>9, KillsKeepOwn

LEMMA CompletionKeeps ==
    ASSUME OwnInv, JobInv, NEW t \in Jobs, CommandCompletes(t)
    PROVE  UNCHANGED vars /\ JobInv'
<1>0. JobsTyped /\ TypeOK
  BY DEF OwnInv, JobInv
<1>1. /\ UNCHANGED <<procs, births, registry, tasks, cleanupVars, foreignHit, pipes>>
      /\ UNCHANGED <<toRegister, toRetire>>
  BY DEF CommandCompletes, Unmoved, registry, tasks
<1>2. Launched(t) /\ Holds(t) /\ Kind[t] = "command" /\ job[t].waited /\ ~At(t, "register")
  BY DEF CommandCompletes, Launched, Holds, At
<1>3. /\ Advance(t) /\ job'[t].at = "retire" /\ job'[t].waited = job[t].waited
  BY <1>0, <1>1, <1>2, GotoAdvances DEF CommandCompletes
<1>4. OthersKept(t) /\ OldOrNew /\ RegisterOK(t)
  BY <1>1, <1>2, <1>3 DEF OthersKept, OldOrNew, RegisterOK, At
<1>5. HolderOK(t)'
  <2>1. Gathered(t)' /\ Gathered(t)
    BY <1>2, <1>3 DEF Gathered, At
  <2> QED
    BY <1>1, <1>2, <1>3, <2>1, HolderKnown DEF HolderOK, Advance
<1>6. JobInv'
  BY <1>0, <1>2, <1>3, <1>4, <1>5, AdvanceKeeps
<1> QED
  BY <1>1, <1>6 DEF vars

LEMMA RegistrationKeeps ==
    ASSUME OwnInv, JobInv, NEW t \in Jobs, RegisterChild(t)
    PROVE  Next /\ JobInv'
<1>0. JobsTyped /\ TypeOK
  BY DEF OwnInv, JobInv
<1>1. /\ Launched(t) /\ Holds(t) /\ ~Gathered(t) /\ ~job[t].waited
      /\ job[t].pid \in Pids /\ HolderOK(t)
  <2>1. job[t].at = "register" /\ Launched(t) /\ Holds(t)
    BY DEF RegisterChild, Launched, Holds, At
  <2> QED
    BY <2>1, HolderKnown DEF Gathered, At, Ended
<1>2. /\ Register(job[t].pid)
      /\ UNCHANGED <<procs, births, toRetire, pipes>>
      /\ toRegister' = toRegister \ {job[t].pid}
  BY DEF RegisterChild, Register
<1>3. Next
  BY <1>1, <1>2 DEF Next
<1>4. Advance(t) /\ job'[t].at = "wait" /\ job'[t].waited = job[t].waited
  BY <1>0, <1>1, <1>2, GotoAdvances DEF RegisterChild
<1>5. OthersKept(t) /\ OldOrNew /\ RegisterOK(t)
  BY <1>1, <1>2, <1>4 DEF OthersKept, OldOrNew, RegisterOK, At
<1>6. HolderOK(t)'
  <2>1. ~Gathered(t)'
    BY <1>1, <1>4 DEF Gathered, At
  <2> QED
    BY <1>1, <1>2, <1>4, <2>1 DEF HolderOK, Advance, Present, Leader
<1>7. JobInv'
  BY <1>0, <1>1, <1>4, <1>5, <1>6, AdvanceKeeps
<1> QED
  BY <1>3, <1>7

LEMMA RetirementKeeps ==
    ASSUME OwnInv, JobInv, NEW t \in Jobs, RetireChild(t)
    PROVE  Next /\ JobInv'
<1>0. JobsTyped /\ TypeOK
  BY DEF OwnInv, JobInv
<1>1. /\ Launched(t) /\ Holds(t) /\ ~At(t, "register")
  BY DEF RetireChild, Launched, Holds, At
<1>2. job[t].pid \in Pids /\ (job[t].waited => Kind[t] = "command")
  BY <1>1, HolderKnown
<1>3. /\ Retire(job[t].pid) /\ End(t, "done")
      /\ UNCHANGED <<procs, births, toRegister, pipes>>
      /\ toRetire' = toRetire \ {job[t].pid}
  BY DEF RetireChild, Retire
<1>4. Next
  BY <1>2, <1>3 DEF Next
<1>5. Advance(t) /\ job'[t].at = "done" /\ job'[t].waited = job[t].waited
  BY <1>0, <1>1, <1>3, EndAdvances DEF Ended
<1>6. OthersKept(t) /\ OldOrNew /\ RegisterOK(t) /\ ~Holds(t)'
  BY <1>1, <1>3, <1>5 DEF OthersKept, OldOrNew, RegisterOK, Holds, At
<1>7. JobInv'
  BY <1>0, <1>2, <1>5, <1>6, AdvanceKeeps DEF Ended
<1> QED
  BY <1>4, <1>7
-----------------------------------------------------------------------------
(* New processes.                                                          *)

LEMMA LaunchKeeps ==
    ASSUME ~Recycle, OwnInv, JobInv, NEW t \in Jobs, Launch(t)
    PROVE  Next /\ JobInv'
<1>0. JobsTyped /\ TypeOK
  BY DEF OwnInv, JobInv
<1>1. PICK p \in Pids :
         /\ Spawn(p)
         /\ job' = [job EXCEPT ![t].at = "register", ![t].pid = p, ![t].born = births']
         /\ pipes' = [pipes EXCEPT ![t] = IF Kind[t] = "command" THEN {<<p, births'>>}
                                                                 ELSE {}]
  BY DEF Launch
<1>2. Next
  BY <1>1 DEF Next
<1>3. /\ births' = births + 1 /\ births \in Nat /\ births' \in Nat /\ Available(p)
      /\ procs'[p] = [born |-> births', group |-> p, child |-> TRUE, own |-> TRUE,
                      state |-> "running"]
      /\ \A q \in Pids \ {p} : procs'[q] = procs[q]
      /\ toRegister' = toRegister \cup {p} /\ toRetire' = toRetire
  BY <1>0, <1>1 DEF Spawn, Start, TypeOK
<1>4. procs[p] = Free /\ p \notin toRegister /\ p \notin toRetire
  BY <1>3 DEF Available
<1>5. /\ At(t, "new")
      /\ \A u \in Jobs \ {t} : job'[u] = job[u]
      /\ job'[t] = [job[t] EXCEPT !.at = "register", !.pid = p, !.born = births']
  BY <1>0, <1>1 DEF Launch, JobsTyped
<1>6. /\ job'[t].at = "register" /\ job'[t].pid = p /\ job'[t].born = births'
      /\ job'[t].waited = job[t].waited
  BY <1>0, <1>5 DEF JobsTyped
<1>7. ~job[t].waited
  BY <1>5 DEF JobInv, WaitedEnds, At, Ended
<1>8. JobsTyped'
  <2>1. <<p, births'>> \in Identities
    BY <1>3 DEF Identities
  <2>2. pipes' \in [Jobs -> SUBSET Identities]
    BY <1>0, <1>1, <2>1 DEF JobsTyped
  <2>3. job' \in [Jobs -> [at : {"new", "register", "wait", "grace", "killed", "expired",
                               "sweep", "retire"} \cup Ended,
                         pid : Pids \cup {NoPid}, born : Nat, waited : BOOLEAN,
                         stopped : BOOLEAN, ended : Nat]]
    <3> DEFINE Known == [at : {"new", "register", "wait", "grace", "killed", "expired",
                               "sweep", "retire"} \cup Ended,
                         pid : Pids \cup {NoPid}, born : Nat, waited : BOOLEAN,
                         stopped : BOOLEAN, ended : Nat]
    <3>1. job \in [Jobs -> Known]
      BY <1>0 DEF JobsTyped
    <3>2. job'[t] \in Known
      <4>1. job[t] \in Known
        BY <3>1
      <4>2. [job[t] EXCEPT !.at = "register", !.pid = p, !.born = births'] \in Known
        BY <1>3, <4>1
      <4> QED
        BY <1>5, <4>2
    <3>3. \A u \in Jobs \ {t} : job'[u] \in Known
      BY <1>5, <3>1
    <3>4. DOMAIN job' = Jobs /\ job' = [u \in Jobs |-> job'[u]]
      <4> HIDE DEF Known
      <4>1. DOMAIN job = Jobs
        BY <3>1
      <4> QED
        BY <1>1, <4>1
    <3> HIDE DEF Known
    <3>5. job' \in [Jobs -> Known]
      BY <3>2, <3>3, <3>4
    <3> QED
      BY <3>5 DEF Known
  <2> QED
    BY <2>2, <2>3 DEF JobsTyped
<1>9. \A u \in Jobs \ {t} : /\ Launched(u)' <=> Launched(u)
                            /\ Holds(u)' <=> Holds(u)
                            /\ Gathered(u)' <=> Gathered(u)
                            /\ At(u, "register")' <=> At(u, "register")
  BY <1>5 DEF Launched, Holds, Gathered, At
<1>10. \A u \in Jobs : Launched(u) => job[u].pid \in Pids /\ job[u].born <= births
                                     /\ job[u].born \in Nat
  BY <1>0 DEF JobInv, ChildrenDiffer, JobsTyped
<1>11. ChildrenDiffer'
  <2>1. \A u \in Jobs : Launched(u)' => job'[u].pid \in Pids /\ job'[u].born <= births'
    <3>1. job'[t].pid \in Pids /\ job'[t].born <= births'
      BY <1>3, <1>6
    <3>2. ASSUME NEW u \in Jobs \ {t}, Launched(u)'
          PROVE  job'[u].pid \in Pids /\ job'[u].born <= births'
      <4>1. job[u].pid \in Pids /\ job[u].born <= births /\ job[u].born \in Nat
        BY <1>9, <1>10, <3>2
      <4>2. job'[u] = job[u]
        BY <1>5
      <4> QED
        BY <1>3, <4>1, <4>2
    <3> QED
      BY <3>1, <3>2
  <2>2. \A u \in Jobs \ {t} : Launched(u)' => job'[u].born # births'
    BY <1>3, <1>5, <1>9, <1>10
  <2>3. \A u, v \in Jobs \ {t} : u # v /\ Launched(u)' /\ Launched(v)'
                                   => job'[u].born # job'[v].born
    BY <1>5, <1>9 DEF JobInv, ChildrenDiffer
  <2> QED
    BY <1>6, <2>1, <2>2, <2>3 DEF ChildrenDiffer
<1>12. WaitedEnds'
  BY <1>5, <1>6, <1>7 DEF JobInv, WaitedEnds
<1>13. ASSUME NEW u \in Jobs \ {t}, Holds(u)' PROVE HolderOK(u)' /\ job'[u].pid # p
  <2>1. Holds(u) /\ HolderOK(u) /\ job'[u] = job[u] /\ job[u].pid \in Pids
    BY <1>5, <1>9, <1>10, <1>13 DEF JobInv, HoldersOK, Holds, Launched, At
  <2>2. CASE Gathered(u)
    BY <1>3, <1>4, <1>9, <2>1, <2>2 DEF HolderOK
  <2>3. CASE ~Gathered(u)
    <3>1. Present(Leader(u)) /\ procs[job[u].pid].child
      BY <2>1, <2>3 DEF HolderOK
    <3>2. job[u].pid # p
      BY <1>4, <3>1 DEF Present, Leader
    <3> QED
      BY <1>3, <1>9, <2>1, <2>3, <3>1, <3>2 DEF HolderOK, Present, Leader
  <2> QED
    BY <2>2, <2>3
<1>14. HolderOK(t)'
  <2>1. ~Gathered(t)'
    BY <1>6, <1>7 DEF Gathered, At
  <2>2. Present(Leader(t))' /\ procs'[job'[t].pid].child
    <3>1. procs'[p] # Free
      BY <1>1, StartMakesOne, <1>0, ProcessIsNotFree DEF Spawn
    <3> QED
      BY <1>3, <1>6, <3>1 DEF Present, Leader
  <2> QED
    BY <2>1, <2>2 DEF HolderOK
<1>15. HoldersOK'
  <2>1. \A u, v \in Jobs \ {t} : u # v /\ Holds(u)' /\ Holds(v)'
                                   => job'[u].pid # job'[v].pid
    BY <1>5, <1>9 DEF JobInv, HoldersOK
  <2> QED
    BY <1>6, <1>13, <1>14, <2>1 DEF HoldersOK
<1>16. OnlyNewRegister'
  <2>1. \A u \in Jobs : At(u, "register")' <=> u = t \/ At(u, "register")
    BY <1>6, <1>9 DEF At
  <2>2. ~At(t, "register")
    BY <1>5 DEF At
  <2>3. \A q : q \in toRegister <=> \E u \in Jobs : At(u, "register") /\ q = job[u].pid
    BY DEF JobInv, OnlyNewRegister
  <2>4. \A q : q \in toRegister' <=>
                 \E u \in Jobs : At(u, "register")' /\ q = job'[u].pid
    <3>1. \A q : (\E u \in Jobs : At(u, "register")' /\ q = job'[u].pid)
                 <=> q = p \/ \E u \in Jobs : At(u, "register") /\ q = job[u].pid
      <4>1. At(t, "register")' /\ job'[t].pid = p
        BY <1>6, <2>1
      <4>2. \A u \in Jobs : At(u, "register") => u # t /\ job'[u] = job[u]
        BY <1>5, <2>2
      <4> QED
        BY <2>1, <4>1, <4>2
    <3>2. toRegister' = toRegister \cup {p}
      BY <1>3
    <3> SUFFICES ASSUME NEW q
                 PROVE  q \in toRegister' <=>
                           \E u \in Jobs : At(u, "register")' /\ q = job'[u].pid
      OBVIOUS
    <3>3. q \in toRegister' <=> q = p \/ q \in toRegister
      BY <3>2
    <3>4. q \in toRegister <=> \E u \in Jobs : At(u, "register") /\ q = job[u].pid
      BY <2>3
    <3> QED
      BY <3>1, <3>3, <3>4, Zenon
  <2>5. toRegister' = {job'[u].pid : u \in {v \in Jobs : At(v, "register")'}}
    BY <2>4
  <2> QED
    BY <2>5 DEF OnlyNewRegister, At
<1>17. LeadersAreChildren'
  <2>1. OldOrNew
    BY <1>0, <1>2, NextTableOld
  <2>2. ASSUME NEW u \in Jobs \ {t}, Launched(u)', Present(Leader(u))'
        PROVE  procs'[job'[u].pid].child
    BY <1>0, <1>5, <1>9, <2>1, <2>2, LeaderStaysChild
  <2>3. procs'[job'[t].pid].child
    BY <1>3, <1>6
  <2> QED
    BY <2>2, <2>3 DEF LeadersAreChildren
<1> QED
  BY <1>2, <1>8, <1>11, <1>12, <1>15, <1>16, <1>17 DEF JobInv

\* A program's step leaves the children of the calls where they are.
LEMMA ProgramTable ==
    ASSUME TypeOK, Programs, NEW p \in Pids, procs[p] # Free, procs[p].child
    PROVE  procs'[p] # Free /\ procs'[p].born = procs[p].born /\ procs'[p].child
<1>1. procs[p] \in Process
  BY DEF TypeOK
<1>2. ASSUME NEW q \in Pids, Exit(q)
      PROVE  procs'[p] # Free /\ procs'[p].born = procs[p].born /\ procs'[p].child
  <2>1. [procs[p] EXCEPT !.state = "zombie"] \in Process
    BY <1>1 DEF Process
  <2>2. [procs[p] EXCEPT !.state = "zombie"] # Free
    BY <2>1, ProcessIsNotFree
  <2>3. procs'[p] \in {procs[p], [procs[p] EXCEPT !.state = "zombie"]}
    BY <1>2 DEF Exit, TypeOK
  <2> QED
    BY <1>1, <2>2, <2>3 DEF Process
<1>3. ASSUME NEW q \in Pids, StartForeign(q) \/ \E r \in Pids : Fork(r, q)
      PROVE  procs'[p] = procs[p]
  BY <1>3 DEF StartForeign, Fork, Start, Available, TypeOK
<1> QED
  BY <1>2, <1>3 DEF Programs, ForkPipes

LEMMA ProgramsKeep ==
    ASSUME OwnInv, JobInv, Programs
    PROVE  Next /\ JobInv'
<1>0. JobsTyped /\ TypeOK
  BY DEF OwnInv, JobInv
<1>1. Next /\ UNCHANGED job
  BY DEF Programs, ForkPipes, Next
<1>2. UNCHANGED <<toRegister, toRetire>>
  BY DEF Programs, ForkPipes, StartForeign, Exit, Fork, tasks
<1>3. births' \in Nat /\ births \in Nat /\ births <= births'
  BY <1>0, <1>1, TableMoves DEF TableStep, TypeOK
<1>4. pipes' \in [Jobs -> SUBSET Identities]
  <2>1. CASE UNCHANGED pipes
    BY <1>0, <2>1 DEF JobsTyped
  <2>2. CASE \E p, q \in Pids : ForkPipes(q, p)
    <3>1. PICK p \in Pids, q \in Pids : ForkPipes(q, p)
      BY <2>2
    <3>2. PICK keeps : pipes' = [t \in Jobs |-> IF t \in keeps
                                   THEN pipes[t] \cup {<<p, births'>>} ELSE pipes[t]]
      BY <3>1 DEF ForkPipes
    <3>3. <<p, births'>> \in Identities
      BY <1>3 DEF Identities
    <3> QED
      BY <1>0, <3>2, <3>3 DEF JobsTyped
  <2> QED
    BY <2>1, <2>2 DEF Programs
<1>5. JobsTyped'
  BY <1>0, <1>1, <1>4 DEF JobsTyped
<1>6. \A t \in Jobs : Launched(t) => job[t].pid \in Pids /\ job[t].born <= births
                                    /\ job[t].born \in Nat
  BY <1>0 DEF JobInv, ChildrenDiffer, JobsTyped
<1>7. ChildrenDiffer'
  <2>1. \A t \in Jobs : Launched(t)' <=> Launched(t)
    BY <1>1 DEF Launched, At
  <2>2. \A t \in Jobs : Launched(t) => job[t].born <= births'
    BY <1>3, <1>6
  <2> QED
    BY <1>1, <1>6, <2>1, <2>2 DEF JobInv, ChildrenDiffer
<1>8. WaitedEnds' /\ OnlyNewRegister'
  BY <1>1, <1>2 DEF JobInv, WaitedEnds, OnlyNewRegister, At
<1>9. ASSUME NEW t \in Jobs, Holds(t) PROVE HolderOK(t)'
  <2>1. HolderOK(t) /\ job[t].pid \in Pids
    BY <1>6, <1>9 DEF JobInv, HoldersOK, Holds, Launched, At
  <2>2. Gathered(t)' <=> Gathered(t)
    BY <1>1 DEF Gathered, At
  <2>3. CASE Gathered(t)
    BY <1>1, <1>2, <2>1, <2>2, <2>3 DEF HolderOK
  <2>4. CASE ~Gathered(t)
    BY <1>0, <1>1, <2>1, <2>2, <2>4, ProgramTable DEF HolderOK, Present, Leader
  <2> QED
    BY <2>3, <2>4
<1>10. HoldersOK'
  BY <1>1, <1>9 DEF JobInv, HoldersOK, Holds
<1>11. LeadersAreChildren'
  <2>1. OldOrNew
    BY <1>0, <1>1, NextTableOld
  <2>2. \A t \in Jobs : Launched(t)' => Launched(t)
    BY <1>1 DEF Launched, At
  <2> QED
    BY <1>0, <1>1, <2>1, <2>2, LeaderStaysChild DEF LeadersAreChildren
<1> QED
  BY <1>1, <1>5, <1>7, <1>8, <1>10, <1>11 DEF JobInv

-----------------------------------------------------------------------------
LEMMA ManagedStart == ManagedInit => MInv
<1> SUFFICES ASSUME ManagedInit PROVE MInv
  OBVIOUS
<1>1. OwnInv
  BY OwnStart DEF ManagedInit
<1>2. job = [t \in Jobs |-> Unstarted] /\ pipes = [t \in Jobs |-> {}] /\ toRegister = {}
  BY DEF ManagedInit, Init
<1>3. \A t \in Jobs : ~Launched(t) /\ ~Holds(t) /\ ~At(t, "register") /\ ~job[t].waited
  BY <1>2 DEF Unstarted, Launched, Holds, At
<1>4. JobsTyped
  BY <1>2 DEF JobsTyped, Unstarted
<1>5. ChildrenDiffer /\ WaitedEnds /\ HoldersOK /\ LeadersAreChildren
  BY <1>3 DEF ChildrenDiffer, WaitedEnds, HoldersOK, LeadersAreChildren
<1>6. OnlyNewRegister
  BY <1>2, <1>3 DEF OnlyNewRegister
<1> QED
  BY <1>1, <1>4, <1>5, <1>6 DEF MInv, JobInv

LEMMA ManagedStep ==
    ASSUME ~Recycle, MInv, [ManagedNext]_managedVars PROVE MInv'
<1> USE DEF MInv
<1>1. ASSUME Programs PROVE MInv'
  BY <1>1, ProgramsKeep, OwnStep
<1>2. ASSUME NEW t \in Jobs, Launch(t) PROVE MInv'
  BY <1>2, LaunchKeeps, OwnStep
<1>3. ASSUME NEW t \in Jobs, RegisterChild(t) PROVE MInv'
  BY <1>3, RegistrationKeeps, OwnStep
<1>4. ASSUME NEW t \in Jobs, \/ CommandExits(t) \/ InvocationExits(t) \/ ExpiredExits(t)
                             \/ StoppedExits(t) \/ RuntimeReaps(t)
      PROVE  MInv'
  BY <1>4, WaitsKeep, OwnStep
<1>5. ASSUME NEW t \in Jobs, CommandCompletes(t) PROVE MInv'
  BY <1>5, CompletionKeeps, OwnStep
<1>6. ASSUME NEW t \in Jobs, Stop(t) \/ InvocationExpires(t) \/ GraceOver(t) \/ Sweep(t)
      PROVE  MInv'
  BY <1>6, SignalsKeep
<1>7. ASSUME NEW t \in Jobs, TimesOutAfterExit(t) \/ Abandon(t) PROVE MInv'
  BY <1>7, GiveUpsKeep
<1>8. ASSUME NEW t \in Jobs, RetireChild(t) PROVE MInv'
  BY <1>8, RetirementKeeps, OwnStep
<1>9. ASSUME UNCHANGED managedVars PROVE MInv'
  <2>1. UNCHANGED vars /\ UNCHANGED <<job, pipes, procs, births, toRegister, toRetire>>
    BY <1>9 DEF managedVars, vars, tasks
  <2>2. OwnInv'
    BY <2>1, OwnStep
  <2>3. JobInv'
    BY <2>1 DEF JobInv, JobsTyped, ChildrenDiffer, WaitedEnds, HoldersOK, OnlyNewRegister,
         LeadersAreChildren, Launched, Holds, HolderOK, Gathered, At, Present, Leader
  <2> QED
    BY <2>2, <2>3
<1> QED
  BY <1>1, <1>2, <1>3, <1>4, <1>5, <1>6, <1>7, <1>8, <1>9 DEF ManagedNext, JobStep

-----------------------------------------------------------------------------
(* What a call that retired its child leaves in the child's group.         *)

NoneRuns(g) ==
    \A p \in Pids : procs[p] # Free /\ procs[p].group = g => procs[p].state # "running"

\* The registry has the child's group, under a leader no younger than the child.
GroupRegistered(t) ==
    /\ groups[job[t].pid] # NoLeader => groups[job[t].pid][2] <= job[t].born
    /\ At(t, "register") \/ groups[job[t].pid] # NoLeader

StopsAhead == {"grace", "killed", "sweep", "retire"} \cup Ended

Settled(t) ==
    /\ Holds(t) => GroupRegistered(t)
    /\ job[t].stopped => job[t].at \in StopsAhead
    /\ At(t, "retire") /\ job[t].stopped => NoneRuns(job[t].pid)
    /\ At(t, "done") => /\ job[t].ended <= births
                        /\ LeftRunning(t) \subseteq observed
                        /\ job[t].stopped => LeftRunning(t) = {}

SettleInv == MInv /\ \A t \in Jobs : Settled(t)

LEMMA KillsAreTable == ASSUME TypeOK, KillsOnly PROVE TableStep
<1>1. PICK P \in SUBSET Pids :
         /\ \A p \in P : procs[p] # Free
         /\ procs' = [p \in Pids |-> IF p \in P THEN [procs[p] EXCEPT !.state = "killed"]
                                               ELSE procs[p]]
  BY DEF KillsOnly
<1>2. UNCHANGED births
  BY DEF KillsOnly
<1> QED
  BY <1>1, <1>2, EndOfOne

\* Without a birth no group has someone running that had no one.
LEMMA NoneRunsStays ==
    ASSUME TypeOK, TableStep, UNCHANGED births, NEW g, NoneRuns(g) PROVE NoneRuns(g)'
<1>1. births \in Nat
  BY DEF TypeOK
<1> QED
  BY <1>1 DEF TableStep, NoneRuns

\* A number that is kept for a retirement is no new process's, and a fork
\* takes someone that runs.
LEMMA NoneJoins ==
    ASSUME ~Recycle, TypeOK, TableStep, Programs \/ \E u \in Jobs : Launch(u),
           NEW g \in Pids, g \in toRetire, NoneRuns(g)
    PROVE  NoneRuns(g)'
<1>1. ASSUME NEW p \in Pids, NEW h \in Pids, NEW child \in BOOLEAN, NEW own \in BOOLEAN,
             Start(p, h, child, own),
             h = p \/ \E q \in Pids : procs[q] # Free /\ procs[q].state = "running"
                                      /\ procs[q].group = h
      PROVE  NoneRuns(g)'
  <2>1. /\ Available(p) /\ procs'[p].group = h
        /\ \A q \in Pids \ {p} : procs'[q] = procs[q]
    BY <1>1, StartMakesOne
  <2>2. p # g
    BY <2>1 DEF Available
  <2>3. h # g
    BY <1>1, <2>2 DEF NoneRuns
  <2> QED
    BY <2>1, <2>3 DEF NoneRuns
<1>2. ASSUME NEW u \in Jobs, Launch(u) PROVE NoneRuns(g)'
  <2>1. PICK p \in Pids : Start(p, p, TRUE, TRUE)
    BY <1>2 DEF Launch, Spawn
  <2> QED
    BY <1>1, <2>1
<1>3. ASSUME NEW p \in Pids, StartForeign(p) PROVE NoneRuns(g)'
  BY <1>1, <1>3 DEF StartForeign
<1>4. ASSUME NEW p \in Pids, Exit(p) PROVE NoneRuns(g)'
  BY <1>4, NoneRunsStays DEF Exit
<1>5. ASSUME NEW p \in Pids, NEW q \in Pids, Fork(q, p) PROVE NoneRuns(g)'
  <2>1. procs[q] # Free /\ procs[q].state = "running" /\ procs[q] \in Process
    BY <1>5 DEF Fork, TypeOK
  <2>2. procs[q].group \in Pids /\ procs[q].own \in BOOLEAN
    BY <2>1 DEF Process
  <2>3. PICK h \in {procs[q].group, p} : Start(p, h, FALSE, procs[q].own)
    BY <1>5 DEF Fork
  <2> QED
    BY <1>1, <2>1, <2>2, <2>3
<1> QED
  BY <1>2, <1>3, <1>4, <1>5 DEF Programs, ForkPipes

LEMMA LeftShrinks ==
    ASSUME TypeOK, JobsTyped, TableStep, NEW t \in Jobs, job'[t] = job[t],
           job[t].ended <= births
    PROVE  /\ LeftRunning(t)' \subseteq LeftRunning(t)
           /\ \A i \in LeftRunning(t) : Present(i)
<1>1. births \in Nat /\ job[t].ended \in Nat
  BY DEF TypeOK, JobsTyped
<1>2. ASSUME NEW p \in Pids, procs'[p] # Free, procs'[p].state = "running",
             procs'[p].group = job[t].pid, procs'[p].born \in job[t].born .. job[t].ended
      PROVE  Id(p)' \in LeftRunning(t)
  <2>1. /\ procs[p] # Free /\ procs'[p].born = procs[p].born
        /\ procs'[p].group = procs[p].group /\ procs[p].state = "running"
    BY <1>1, <1>2 DEF TableStep
  <2> QED
    BY <1>2, <2>1 DEF LeftRunning, Id
<1>3. LeftRunning(t)' \subseteq LeftRunning(t)
  BY <1>2 DEF LeftRunning
<1>4. \A i \in LeftRunning(t) : Present(i)
  BY DEF LeftRunning, Id, Present
<1> QED
  BY <1>3, <1>4

\* A call that does not move.
LEMMA StaysSettled ==
    ASSUME TypeOK, JobsTyped, TableStep, NEW t \in Jobs, Settled(t), job'[t] = job[t],
           Holds(t) => groups'[job[t].pid] = groups[job[t].pid],
           \A i \in observed : Present(i) => i \in observed',
           At(t, "retire") /\ NoneRuns(job[t].pid) => NoneRuns(job[t].pid)'
    PROVE  Settled(t)'
<1>1. Holds(t)' => GroupRegistered(t)'
  BY DEF Settled, Holds, GroupRegistered, At
<1>2. job'[t].stopped => job'[t].at \in StopsAhead
  BY DEF Settled
<1>3. At(t, "retire")' /\ job'[t].stopped => NoneRuns(job[t].pid)'
  BY DEF Settled, At
<1>4. ASSUME At(t, "done")'
      PROVE  /\ job'[t].ended <= births'
             /\ LeftRunning(t)' \subseteq observed'
             /\ job'[t].stopped => LeftRunning(t)' = {}
  <2>1. /\ job[t].ended <= births /\ LeftRunning(t) \subseteq observed
        /\ job[t].stopped => LeftRunning(t) = {}
    BY <1>4 DEF Settled, At
  <2>2. /\ LeftRunning(t)' \subseteq LeftRunning(t)
        /\ \A i \in LeftRunning(t) : Present(i)
    BY <2>1, LeftShrinks
  <2>3. births \in Nat /\ births' \in Nat /\ births <= births' /\ job[t].ended \in Nat
    BY DEF TypeOK, TableStep, JobsTyped
  <2> QED
    BY <2>1, <2>2, <2>3
<1> QED
  BY <1>1, <1>2, <1>3, <1>4 DEF Settled, NoneRuns, At

\* A call that moves and does not end with its child retired.
LEMMA MoverSettles ==
    ASSUME NEW t \in Jobs, Settled(t), Advance(t), ~At(t, "register"), UNCHANGED groups,
           Holds(t)' => Holds(t), ~At(t, "done")',
           job'[t].stopped => job'[t].at \in StopsAhead,
           At(t, "retire")' /\ job'[t].stopped => NoneRuns(job[t].pid)'
    PROVE  Settled(t)'
<1>1. Holds(t)' => GroupRegistered(t)'
  BY DEF Settled, GroupRegistered, Advance
<1> QED
  BY <1>1 DEF Settled, NoneRuns, Advance

LEMMA GotoMoves ==
    ASSUME JobsTyped, NEW t \in Jobs, NEW there, Goto(t, there)
    PROVE  /\ \A u \in Jobs \ {t} : job'[u] = job[u]
           /\ job'[t].at = there /\ job'[t].stopped = job[t].stopped
           /\ job'[t].pid = job[t].pid /\ job'[t].born = job[t].born
  BY DEF JobsTyped, Goto

\* The number of a child that is to be retired is kept for its call.
LEMMA RetiringIsKept ==
    ASSUME JobInv, NEW t \in Jobs, At(t, "retire")
    PROVE  Holds(t) /\ job[t].pid \in Pids /\ job[t].pid \in toRetire
<1>1. Launched(t) /\ Holds(t) /\ Gathered(t)
  BY DEF At, Launched, Holds, Gathered
<1> QED
  BY <1>1, HolderKnown DEF HolderOK

\* New processes and exits: no call moves, or one starts.
LEMMA ProgramsSettle ==
    ASSUME ~Recycle, SettleInv, Programs PROVE \A u \in Jobs : Settled(u)'
<1>1. OwnInv /\ JobInv /\ TypeOK /\ JobsTyped
  BY DEF SettleInv, MInv, OwnInv, JobInv
<1>2. TableStep
  BY <1>1, ProgramsKeep, TableMoves
<1>3. UNCHANGED job /\ UNCHANGED <<groups, observed>>
  BY DEF Programs, ForkPipes, StartForeign, Exit, Fork, registry
<1>4. \A u \in Jobs : At(u, "retire") /\ NoneRuns(job[u].pid) => NoneRuns(job[u].pid)'
  BY <1>1, <1>2, <1>3, RetiringIsKept, NoneJoins
<1> QED
  BY <1>1, <1>2, <1>3, <1>4, StaysSettled DEF SettleInv

LEMMA LaunchSettles ==
    ASSUME ~Recycle, SettleInv, NEW t \in Jobs, Launch(t) PROVE \A u \in Jobs : Settled(u)'
<1>1. OwnInv /\ JobInv /\ TypeOK /\ JobsTyped /\ BornInTime
  BY DEF SettleInv, MInv, OwnInv, JobInv
<1>2. TableStep
  BY <1>1, LaunchKeeps, TableMoves
<1>3. PICK p \in Pids :
         /\ Spawn(p)
         /\ job' = [job EXCEPT ![t].at = "register", ![t].pid = p, ![t].born = births']
  BY DEF Launch
<1>4. UNCHANGED <<groups, observed>> /\ births' = births + 1 /\ births \in Nat
  BY <1>1, <1>3 DEF Spawn, Start, registry, TypeOK
<1>5. /\ \A u \in Jobs \ {t} : job'[u] = job[u]
      /\ job'[t].at = "register" /\ job'[t].stopped = job[t].stopped
      /\ job'[t].pid = p /\ job'[t].born = births'
  BY <1>1, <1>3 DEF JobsTyped
<1>6. ASSUME NEW u \in Jobs \ {t} PROVE Settled(u)'
  <2>1. At(u, "retire") /\ NoneRuns(job[u].pid) => NoneRuns(job[u].pid)'
    BY <1>1, <1>2, <1>5, RetiringIsKept, NoneJoins
  <2> QED
    BY <1>1, <1>2, <1>4, <1>5, <2>1, StaysSettled DEF SettleInv
<1>7. Settled(t)'
  <2>1. ~job'[t].stopped
    BY <1>5 DEF SettleInv, Settled, Launch, At, StopsAhead, Ended
  <2>2. groups'[p] # NoLeader => groups'[p][2] <= births'
    <3>1. ASSUME groups[p] # NoLeader PROVE groups[p][2] <= births /\ groups[p][2] \in Nat
      <4>1. groups[p] \in Named /\ groups[p] \in Identities
        BY <1>1, <3>1 DEF Named, Leaders, Registered, TypeOK
      <4> QED
        BY <1>1, <4>1 DEF BornInTime, Identities
    <3> QED
      BY <1>4, <3>1
  <2> QED
    BY <1>5, <2>1, <2>2 DEF Settled, GroupRegistered, At
<1> QED
  BY <1>6, <1>7

\* The child leads its group, and so no other call's entry is touched.
LEMMA RegistrationSettles ==
    ASSUME SettleInv, NEW t \in Jobs, RegisterChild(t) PROVE \A u \in Jobs : Settled(u)'
<1>1. OwnInv /\ JobInv /\ TypeOK /\ JobsTyped
  BY DEF SettleInv, MInv, OwnInv, JobInv
<1>2. /\ job[t].at = "register" /\ Launched(t) /\ Holds(t)
  BY DEF RegisterChild, Launched, Holds, At
<1>3. job[t].pid \in Pids /\ Present(Leader(t)) /\ procs[job[t].pid].child
  BY <1>1, <1>2, HolderKnown DEF HolderOK, Gathered, At, Ended
<1>4. procs[job[t].pid] # Free /\ Id(job[t].pid) = Leader(t)
      /\ procs[job[t].pid].group = job[t].pid
  BY <1>1, <1>3 DEF Present, Leader, Id, OwnInv, ChildrenLead
<1>5. /\ groups' = [groups EXCEPT ![job[t].pid] = IF @ = NoLeader THEN Leader(t) ELSE @]
      /\ observed' = observed \cup {Leader(t)}
      /\ UNCHANGED <<procs, births, toRetire>>
  BY <1>4 DEF RegisterChild, Register, RegisterIdentity
<1>6. TableStep
  BY <1>1, <1>5 DEF TableStep, TypeOK
<1>7. /\ \A u \in Jobs \ {t} : job'[u] = job[u]
      /\ job'[t].at = "wait" /\ job'[t].stopped = job[t].stopped
      /\ job'[t].pid = job[t].pid /\ job'[t].born = job[t].born
  BY <1>1, GotoMoves DEF RegisterChild
<1>8. \A g : NoneRuns(g) => NoneRuns(g)'
  BY <1>5 DEF NoneRuns
<1>9. ASSUME NEW u \in Jobs \ {t} PROVE Settled(u)'
  <2>1. ASSUME Holds(u) PROVE groups'[job[u].pid] = groups[job[u].pid]
    <3>1. job[u].pid \in Pids /\ job[u].pid # job[t].pid
      BY <1>1, <1>2, <2>1 DEF JobInv, HoldersOK, ChildrenDiffer, Launched, Holds, At
    <3> QED
      BY <1>1, <1>5, <3>1 DEF TypeOK
  <2> QED
    BY <1>1, <1>5, <1>6, <1>7, <1>8, <2>1, StaysSettled DEF SettleInv
<1>10. Settled(t)'
  <2>1. ~job[t].stopped
    BY <1>2 DEF SettleInv, Settled, StopsAhead, Ended
  <2>2. groups'[job[t].pid] # NoLeader /\ groups'[job[t].pid][2] <= job[t].born
    <3>1. job[t].born \in Nat /\ groups \in [Pids -> Identities \cup {NoLeader}]
      BY <1>1 DEF JobsTyped, TypeOK
    <3>2. CASE groups[job[t].pid] = NoLeader
      <4>1. groups'[job[t].pid] = Leader(t) /\ Leader(t) \in Pids \X Nat
        BY <1>3, <1>5, <3>1, <3>2 DEF Leader
      <4>2. Leader(t)[2] = job[t].born
        BY DEF Leader
      <4> QED
        BY <3>1, <4>1, <4>2, ProcessAssumption
    <3>3. CASE groups[job[t].pid] # NoLeader
      <4>1. groups'[job[t].pid] = groups[job[t].pid]
        BY <1>3, <1>5, <3>1, <3>3
      <4> QED
        BY <1>2, <3>3, <4>1 DEF SettleInv, Settled, GroupRegistered
    <3> QED
      BY <3>2, <3>3
  <2>3. GroupRegistered(t)'
    BY <1>7, <2>2 DEF GroupRegistered
  <2>4. ~job'[t].stopped /\ ~At(t, "retire")' /\ ~At(t, "done")'
    BY <1>7, <2>1 DEF At
  <2> QED
    BY <2>3, <2>4 DEF Settled
<1> QED
  BY <1>9, <1>10

\* A call that moves while it has its child, and leaves the registry alone.
LEMMA CallMoves ==
    ASSUME SettleInv, NEW t \in Jobs, TableStep, Advance(t), ~At(t, "register"),
           UNCHANGED registry, Holds(t)' => Holds(t), ~At(t, "done")',
           job'[t].stopped => job'[t].at \in StopsAhead,
           At(t, "retire")' /\ job'[t].stopped => NoneRuns(job[t].pid)'
    PROVE  \A u \in Jobs : Settled(u)'
<1>1. TypeOK /\ JobsTyped
  BY DEF SettleInv, MInv, OwnInv, JobInv
<1>2. UNCHANGED groups /\ UNCHANGED observed /\ UNCHANGED births
  BY DEF registry, Advance
<1>3. ASSUME NEW u \in Jobs \ {t} PROVE Settled(u)'
  <2>1. job'[u] = job[u]
    BY DEF Advance
  <2>2. NoneRuns(job[u].pid) => NoneRuns(job[u].pid)'
    BY <1>1, <1>2, <2>1, NoneRunsStays
  <2> QED
    BY <1>1, <1>2, <2>1, <2>2, StaysSettled DEF SettleInv
<1>4. Settled(t)'
  BY <1>2, MoverSettles DEF SettleInv
<1> QED
  BY <1>3, <1>4

\* Waits take the child's own entry out of the process table.
LEMMA WaitsSettle ==
    ASSUME SettleInv, NEW t \in Jobs,
           \/ CommandExits(t) \/ InvocationExits(t) \/ ExpiredExits(t) \/ StoppedExits(t)
           \/ RuntimeReaps(t)
    PROVE  \A u \in Jobs : Settled(u)'
<1>1. OwnInv /\ JobInv /\ TypeOK /\ JobsTyped
  BY DEF SettleInv, MInv, OwnInv, JobInv
<1>2. TableStep
  BY <1>1, WaitsKeep, TableMoves
<1>3. Launched(t) /\ ~At(t, "register") /\ UNCHANGED registry /\ UNCHANGED <<births, pipes>>
  BY DEF CommandExits, InvocationExits, ExpiredExits, StoppedExits, RuntimeReaps, Launched,
       At, Unmoved, registry
<1>4. CASE RuntimeReaps(t)
  <2>1. UNCHANGED job /\ job[t].at = "dropped"
    BY <1>4 DEF RuntimeReaps, At
  <2>2. Advance(t)
    BY <1>1, <1>3, <2>1 DEF Advance, JobsTyped, Launched, At
  <2>3. /\ job'[t].stopped => job'[t].at \in StopsAhead
        /\ ~At(t, "retire")' /\ ~At(t, "done")' /\ ~Holds(t)'
    BY <2>1 DEF At, Holds, StopsAhead, Ended
  <2> QED
    BY <1>2, <1>3, <2>2, <2>3, CallMoves
<1>5. CASE CommandExits(t)
  <2>1. /\ Advance(t) /\ job'[t].at = "wait" /\ job[t].at = "wait"
        /\ job'[t].stopped = job[t].stopped
    BY <1>1, <1>3, <1>5, WaitedAdvances DEF CommandExits, At, JobsTyped
  <2>2. ~job'[t].stopped
    BY <2>1 DEF SettleInv, Settled, StopsAhead, Ended
  <2>3. Holds(t) /\ ~At(t, "done")' /\ ~At(t, "retire")'
    BY <2>1 DEF Holds, At
  <2> QED
    BY <1>2, <1>3, <2>1, <2>2, <2>3, CallMoves
<1>6. CASE InvocationExits(t) \/ ExpiredExits(t)
  <2>1. Goto(t, "retire") /\ job[t].at \in {"wait", "expired"}
    BY <1>6 DEF InvocationExits, ExpiredExits, At
  <2>2. Advance(t) /\ job'[t].at = "retire" /\ job'[t].stopped = job[t].stopped
    BY <1>1, <1>3, <2>1, GotoAdvances, GotoMoves
  <2>3. ~job'[t].stopped
    BY <2>1, <2>2 DEF SettleInv, Settled, StopsAhead, Ended
  <2>4. Holds(t) /\ ~At(t, "done")'
    BY <2>1, <2>2 DEF Holds, At
  <2> QED
    BY <1>2, <1>3, <2>2, <2>3, <2>4, CallMoves
<1>7. CASE StoppedExits(t)
  <2>1. Goto(t, "sweep") /\ job[t].at \in {"grace", "killed"}
    BY <1>7 DEF StoppedExits, At
  <2>2. Advance(t) /\ job'[t].at = "sweep"
    BY <1>1, <1>3, <2>1, GotoAdvances
  <2>3. /\ Holds(t) /\ ~At(t, "done")' /\ ~At(t, "retire")'
        /\ job'[t].at \in StopsAhead
    BY <2>1, <2>2 DEF Holds, At, StopsAhead
  <2> QED
    BY <1>2, <1>3, <2>2, <2>3, CallMoves
<1> QED
  BY <1>4, <1>5, <1>6, <1>7

\* After the sweep of the group no one in it runs.
LEMMA SweepLeavesNone ==
    ASSUME TypeOK, NEW g, SignalGroup(g, TRUE) PROVE NoneRuns(g)'
<1>1. ASSUME NEW p \in Pids, procs'[p] # Free, procs'[p].group = g
      PROVE  procs'[p].state # "running"
  <2>1. CASE procs[p] # Free /\ procs[p].group = g /\ procs[p].state = "running"
    <3>1. procs'[p] = [procs[p] EXCEPT !.state = "killed"] /\ procs[p] \in Process
      BY <2>1 DEF SignalGroup, TypeOK
    <3> QED
      BY <3>1 DEF Process
  <2>2. CASE ~(procs[p] # Free /\ procs[p].group = g /\ procs[p].state = "running")
    <3>1. procs'[p] = procs[p]
      BY <2>2 DEF SignalGroup
    <3> QED
      BY <1>1, <2>2, <3>1
  <2> QED
    BY <2>1, <2>2
<1> QED
  BY <1>1 DEF NoneRuns

LEMMA SignalsSettle ==
    ASSUME SettleInv, NEW t \in Jobs,
           Stop(t) \/ InvocationExpires(t) \/ GraceOver(t) \/ Sweep(t)
    PROVE  \A u \in Jobs : Settled(u)'
<1>1. OwnInv /\ JobInv /\ TypeOK /\ JobsTyped
  BY DEF SettleInv, MInv, OwnInv, JobInv
<1>2. TableStep
  BY <1>1, SignalsKeep, KillsAreTable
<1>3. /\ Launched(t) /\ ~At(t, "register") /\ Holds(t)
      /\ UNCHANGED registry /\ UNCHANGED <<births, pipes>>
  BY DEF Stop, InvocationExpires, GraceOver, Sweep, Launched, Holds, At, Unmoved, registry
<1>4. CASE Stop(t)
  <2>1. Advance(t) /\ job'[t].at = "grace"
    BY <1>1, <1>3, <1>4, StopAdvances DEF Stop
  <2>2. ~At(t, "done")' /\ ~At(t, "retire")' /\ job'[t].at \in StopsAhead
    BY <2>1 DEF At, StopsAhead
  <2> QED
    BY <1>2, <1>3, <2>1, <2>2, CallMoves
<1>5. CASE InvocationExpires(t)
  <2>1. /\ Advance(t) /\ job'[t].at = "expired" /\ job[t].at = "wait"
        /\ job'[t].stopped = job[t].stopped
    BY <1>1, <1>3, <1>5, GotoAdvances, GotoMoves DEF InvocationExpires, At
  <2>2. ~At(t, "done")' /\ ~At(t, "retire")' /\ ~job'[t].stopped
    BY <2>1 DEF At, SettleInv, Settled, StopsAhead, Ended
  <2> QED
    BY <1>2, <1>3, <2>1, <2>2, CallMoves
<1>6. CASE GraceOver(t)
  <2>1. Advance(t) /\ job'[t].at = "killed"
    BY <1>1, <1>3, <1>6, GotoAdvances DEF GraceOver
  <2>2. ~At(t, "done")' /\ ~At(t, "retire")' /\ job'[t].at \in StopsAhead
    BY <2>1 DEF At, StopsAhead
  <2> QED
    BY <1>2, <1>3, <2>1, <2>2, CallMoves
<1>7. CASE Sweep(t)
  <2>1. Advance(t) /\ job'[t].at = "retire" /\ job'[t].pid = job[t].pid
    BY <1>1, <1>3, <1>7, GotoAdvances, GotoMoves DEF Sweep
  <2>2. NoneRuns(job[t].pid)'
    BY <1>1, <1>7, <2>1, SweepLeavesNone DEF Sweep
  <2>3. ~At(t, "done")' /\ job'[t].at \in StopsAhead
    BY <2>1 DEF At, StopsAhead
  <2> QED
    BY <1>2, <1>3, <2>1, <2>2, <2>3, CallMoves
<1> QED
  BY <1>4, <1>5, <1>6, <1>7

LEMMA CompletionSettles ==
    ASSUME SettleInv, NEW t \in Jobs, CommandCompletes(t) PROVE \A u \in Jobs : Settled(u)'
<1>1. OwnInv /\ JobInv /\ TypeOK /\ JobsTyped
  BY DEF SettleInv, MInv, OwnInv, JobInv
<1>2. TableStep
  BY <1>1, CompletionKeeps, TableMoves
<1>3. /\ Launched(t) /\ ~At(t, "register") /\ Holds(t) /\ job[t].at = "wait"
      /\ UNCHANGED registry /\ UNCHANGED <<births, pipes>> /\ Goto(t, "retire")
  BY DEF CommandCompletes, Launched, Holds, At, Unmoved, registry
<1>4. Advance(t) /\ job'[t].at = "retire" /\ job'[t].stopped = job[t].stopped
  BY <1>1, <1>3, GotoAdvances, GotoMoves
<1>5. ~job'[t].stopped /\ ~At(t, "done")'
  BY <1>3, <1>4 DEF SettleInv, Settled, StopsAhead, Ended, At
<1> QED
  BY <1>2, <1>3, <1>4, <1>5, CallMoves

LEMMA GiveUpsSettle ==
    ASSUME SettleInv, NEW t \in Jobs, TimesOutAfterExit(t) \/ Abandon(t)
    PROVE  \A u \in Jobs : Settled(u)'
<1>1. OwnInv /\ JobInv /\ TypeOK /\ JobsTyped
  BY DEF SettleInv, MInv, OwnInv, JobInv
<1>2. TableStep
  BY <1>1, GiveUpsKeep, KillsAreTable
<1>3. /\ Launched(t) /\ UNCHANGED registry /\ UNCHANGED <<births, pipes>>
      /\ End(t, "stopped") \/ End(t, "dropped")
  BY DEF TimesOutAfterExit, Abandon, Launched, At, Unmoved, registry
<1>4. /\ Advance(t) /\ job'[t].at \in {"stopped", "dropped"}
  BY <1>1, <1>3, EndAdvances DEF Ended
<1>5. UNCHANGED groups /\ UNCHANGED observed /\ UNCHANGED births
  BY <1>3 DEF registry
<1>6. ASSUME NEW u \in Jobs \ {t} PROVE Settled(u)'
  <2>1. job'[u] = job[u]
    BY <1>4 DEF Advance
  <2>2. NoneRuns(job[u].pid) => NoneRuns(job[u].pid)'
    BY <1>1, <1>2, <1>5, <2>1, NoneRunsStays
  <2> QED
    BY <1>1, <1>2, <1>5, <2>1, <2>2, StaysSettled DEF SettleInv
<1>7. Settled(t)'
  BY <1>4 DEF Settled, At, Holds, StopsAhead, Ended
<1> QED
  BY <1>6, <1>7

(* The variables of every call, of its pipes and of the registry keep      *)
(* their types, for any number of calls, PIDs and births.                  *)
THEOREM CallsAreTyped == ASSUME ~Recycle PROVE ManagedSpec => []ManagedTypeOK
<1>1. MInv /\ [ManagedNext]_managedVars => MInv'
  BY ManagedStep
<1>2. MInv => ManagedTypeOK
  BY DEF MInv, OwnInv, JobInv, JobsTyped, ManagedTypeOK
<1> QED
  BY <1>1, <1>2, ManagedStart, PTL DEF ManagedSpec

(* While a call has its child, waited for or not, the group that it        *)
(* signals by its number holds AHRB's processes alone, if no PID is given  *)
(* out again between a wait and the retirement that follows it: the TERM,  *)
(* KILL and sweep of driver.rs never reach a stranger.                     *)
THEOREM CallsStayHome == ASSUME ~Recycle PROVE ManagedSpec => []NoForeignSignal
<1>1. MInv /\ [ManagedNext]_managedVars => MInv'
  BY ManagedStep
<1>2. MInv => NoForeignSignal
  BY DEF MInv, OwnInv, NoForeignSignal
<1> QED
  BY <1>1, <1>2, ManagedStart, PTL DEF ManagedSpec
\* Retirement drops the entries of this child only, and observes who is left.
LEMMA RetirementSettles ==
    ASSUME SettleInv, NEW t \in Jobs, RetireChild(t) PROVE \A u \in Jobs : Settled(u)'
<1>1. OwnInv /\ JobInv /\ TypeOK /\ JobsTyped
  BY DEF SettleInv, MInv, OwnInv, JobInv
<1> DEFINE g == job[t].pid
           left(k) == GroupMembers(k, groups[k][2])
           led == {k \in Registered(groups) : groups[k][1] = g}
<1>2. /\ job[t].at = "retire" /\ Launched(t) /\ Holds(t) /\ g \in Pids /\ Settled(t)
      /\ End(t, "done") /\ Retire(g) /\ UNCHANGED <<procs, births, pipes>>
  BY <1>1, HolderKnown DEF RetireChild, Retire, Launched, Holds, At, SettleInv
<1>3. /\ groups' = [k \in Pids |-> IF k \in led /\ left(k) = {} THEN NoLeader ELSE groups[k]]
      /\ observed' = {i \in observed \cup UNION {left(k) : k \in led} :
                          i[1] # g \/ Present(i)}
  BY <1>2 DEF Retire
<1>4. TableStep
  BY <1>1, <1>2 DEF TableStep, TypeOK
<1>5. /\ Advance(t) /\ job'[t].at = "done" /\ job'[t].ended = births
      /\ job'[t].stopped = job[t].stopped
  <2>1. Advance(t)
    BY <1>1, <1>2, EndAdvances DEF Ended
  <2>2. job' = [job EXCEPT ![t].at = "done", ![t].ended = births]
    BY <1>2 DEF End
  <2> HIDE DEF g, left, led
  <2> QED
    BY <1>1, <2>1, <2>2 DEF JobsTyped
<1>6. \A k : NoneRuns(k) => NoneRuns(k)'
  BY <1>2 DEF NoneRuns
<1>7. \A i \in observed : Present(i) => i \in observed'
  BY <1>3
<1>8. ASSUME NEW u \in Jobs \ {t} PROVE Settled(u)'
  <2>1. job'[u] = job[u]
    BY <1>5 DEF Advance
  <2>2. ASSUME Holds(u) PROVE groups'[job[u].pid] = groups[job[u].pid]
    <3>1. job[u].pid \in Pids /\ job[u].pid # g
      BY <1>1, <1>2, <2>2 DEF JobInv, HoldersOK, ChildrenDiffer, Launched, Holds, At
    <3>2. job[u].pid \notin led
      BY <1>1, <3>1 DEF OwnInv, RegisteredLead
    <3> QED
      BY <1>3, <3>1, <3>2
  <2>3. NoneRuns(job[u].pid) => NoneRuns(job[u].pid)'
    BY <1>6, <2>1
  <2> HIDE DEF g, left, led
  <2> QED
    BY <1>1, <1>4, <1>7, <2>1, <2>2, <2>3, StaysSettled DEF SettleInv
<1>9. /\ g \in led /\ groups[g][2] <= job[t].born
  <2>1. groups[g] # NoLeader /\ groups[g][2] <= job[t].born
    BY <1>2 DEF Settled, GroupRegistered, At
  <2> QED
    BY <1>1, <1>2, <2>1 DEF OwnInv, RegisteredLead, Registered
<1>10. ASSUME NEW p \in Pids, procs[p] # Free, procs[p].state = "running",
              procs[p].group = g, procs[p].born \in job[t].born .. births
       PROVE  Id(p) \in observed' /\ ~job[t].stopped
  <2>1. groups[g][2] \in Nat /\ job[t].born \in Nat /\ procs[p].born \in Nat
    <3>1. groups[g] \in Identities
      BY <1>1, <1>9 DEF Registered, TypeOK
    <3>2. procs[p] \in Process
      BY <1>1, <1>10 DEF TypeOK
    <3> QED
      BY <1>1, <3>1, <3>2 DEF Identities, Process, JobsTyped
  <2>2. procs[p].born >= groups[g][2]
    <3>1. job[t].born <= procs[p].born
      BY <1>1, <1>10, <2>1 DEF TypeOK
    <3> QED
      BY <1>9, <2>1, <3>1
  <2>3. Id(p) \in left(g)
    BY <1>10, <2>2 DEF GroupMembers
  <2>4. Present(Id(p))
    BY <1>10 DEF Present, Id
  <2>5. Id(p) \in observed'
    BY <1>3, <1>9, <2>3, <2>4
  <2>6. ~job[t].stopped
    BY <1>2, <1>10 DEF Settled, NoneRuns, At
  <2> QED
    BY <2>5, <2>6
<1>11. Settled(t)'
  <2>1. \A i \in LeftRunning(t)' : i \in observed' /\ ~job[t].stopped
    BY <1>2, <1>5, <1>10 DEF LeftRunning, Advance, Id
  <2>2. births' \in Nat /\ job'[t].ended <= births'
    BY <1>1, <1>2, <1>5 DEF TypeOK
  <2>3. job'[t].at = "done" /\ job'[t].stopped = job[t].stopped
    BY <1>5
  <2>4. job'[t].at \in StopsAhead /\ ~Holds(t)' /\ ~At(t, "retire")'
    BY <2>3 DEF StopsAhead, Ended, Holds, At
  <2> QED
    BY <2>1, <2>2, <2>3, <2>4 DEF Settled
<1> QED
  BY <1>8, <1>11

LEMMA SettleStart == ManagedInit => SettleInv
<1> SUFFICES ASSUME ManagedInit PROVE SettleInv
  OBVIOUS
<1>1. MInv
  BY ManagedStart
<1>2. \A t \in Jobs : job[t].at = "new" /\ ~job[t].stopped
  BY DEF ManagedInit, Unstarted
<1>3. \A t \in Jobs : Settled(t)
  BY <1>2 DEF Settled, Holds, At
<1> QED
  BY <1>1, <1>3 DEF SettleInv

LEMMA SettleStep ==
    ASSUME ~Recycle, SettleInv, [ManagedNext]_managedVars PROVE SettleInv'
<1>1. MInv'
  BY ManagedStep DEF SettleInv
<1>2. ASSUME Programs PROVE \A u \in Jobs : Settled(u)'
  BY <1>2, ProgramsSettle
<1>3. ASSUME NEW t \in Jobs, Launch(t) PROVE \A u \in Jobs : Settled(u)'
  BY <1>3, LaunchSettles
<1>4. ASSUME NEW t \in Jobs, RegisterChild(t) PROVE \A u \in Jobs : Settled(u)'
  BY <1>4, RegistrationSettles
<1>5. ASSUME NEW t \in Jobs, \/ CommandExits(t) \/ InvocationExits(t) \/ ExpiredExits(t)
                             \/ StoppedExits(t) \/ RuntimeReaps(t)
      PROVE  \A u \in Jobs : Settled(u)'
  BY <1>5, WaitsSettle
<1>6. ASSUME NEW t \in Jobs, CommandCompletes(t) PROVE \A u \in Jobs : Settled(u)'
  BY <1>6, CompletionSettles
<1>7. ASSUME NEW t \in Jobs, Stop(t) \/ InvocationExpires(t) \/ GraceOver(t) \/ Sweep(t)
      PROVE  \A u \in Jobs : Settled(u)'
  BY <1>7, SignalsSettle
<1>8. ASSUME NEW t \in Jobs, TimesOutAfterExit(t) \/ Abandon(t)
      PROVE  \A u \in Jobs : Settled(u)'
  BY <1>8, GiveUpsSettle
<1>9. ASSUME NEW t \in Jobs, RetireChild(t) PROVE \A u \in Jobs : Settled(u)'
  BY <1>9, RetirementSettles
<1>10. ASSUME UNCHANGED managedVars PROVE \A u \in Jobs : Settled(u)'
  BY <1>10 DEF managedVars, registry, SettleInv, Settled, Holds, GroupRegistered, NoneRuns,
       LeftRunning, Id, At
<1> QED
  BY <1>1, <1>2, <1>3, <1>4, <1>5, <1>6, <1>7, <1>8, <1>9, <1>10
     DEF SettleInv, ManagedNext, JobStep

(* Whoever still runs in the group of a retired child is known to the      *)
(* registry, and in a group that was stopped no one runs, whoever forks or *)
(* ignores TERM: retire_process observes what the calls leave behind, if   *)
(* no PID is given out again between a wait and the retirement.            *)
THEOREM RetiredAreSettled == ASSUME ~Recycle PROVE ManagedSpec => []RetiredGroupsAreSettled
<1>1. SettleInv /\ [ManagedNext]_managedVars => SettleInv'
  BY SettleStep
<1>2. SettleInv => RetiredGroupsAreSettled
  <2> SUFFICES ASSUME SettleInv, NEW t \in Jobs, At(t, "done")
               PROVE  /\ LeftRunning(t) \subseteq LiveOwned(groups, observed)
                      /\ job[t].stopped => LeftRunning(t) = {}
    BY DEF RetiredGroupsAreSettled
  <2>1. LeftRunning(t) \subseteq observed /\ (job[t].stopped => LeftRunning(t) = {})
    BY DEF SettleInv, Settled
  <2>2. \A i \in LeftRunning(t) : Present(i)
    BY DEF LeftRunning, Id, Present
  <2> QED
    BY <2>1, <2>2 DEF LiveOwned
<1> QED
  BY <1>1, <1>2, SettleStart, PTL DEF ManagedSpec
=============================================================================
