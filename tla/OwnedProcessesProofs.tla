------------------------ MODULE OwnedProcessesProofs ------------------------
(***************************************************************************)
(* Proofs about the owned-process registry: whatever PIDs are given out    *)
(* again, what the registry names is dead or AHRB's own, so no signal goes *)
(* to a stranger; and a KILL pass reaches every process the snapshot knew. *)
(***************************************************************************)
EXTENDS OwnedProcesses, TLAPS

Leaders(gs) == {gs[g] : g \in Registered(gs)}

\* Every identity that the registry or a running cleanup holds.
Named == observed \cup snapObserved \cup targets \cup seen \cup survivors
         \cup Leaders(groups) \cup Leaders(snapGroups)

\* Start times never run ahead of the clock.
BornInTime ==
    /\ \A p \in Pids : procs[p] # Free => procs[p].born <= births
    /\ \A i \in Named : i[2] <= births

\* The observed sweep is the last thing a signal pass enumerates.
SweepComesLast == Signalling => ObservedSweep \in todo \/ todo = {}

KillProgress ==
    /\ cl = "kill" /\ ObservedSweep \notin todo =>
          \A i \in snapObserved : i \in targets \/ ~Running(i)
    /\ KillReachesObserved

KillInv == TypeOK /\ BornInTime /\ SweepComesLast /\ KillProgress

\* What one step may do to the process table.
TableStep ==
    /\ births' \in Nat /\ births <= births'
    /\ procs' \in [Pids -> Process \cup {Free}]
    /\ \A p \in Pids : procs'[p] # Free =>
          \/ /\ procs[p] # Free
             /\ procs'[p].born = procs[p].born /\ procs'[p].group = procs[p].group
             /\ procs'[p].child = procs[p].child /\ procs'[p].own = procs[p].own
             /\ procs[p].state # "running" => procs'[p].state # "running"
          \/ Available(p) /\ procs'[p].born = births' /\ births' = births + 1

-----------------------------------------------------------------------------
LEMMA ProcessIsNotFree ==
    ASSUME NEW q \in Process PROVE q # Free
  BY ProcessAssumption DEF Process

LEMMA StartMakesOne ==
    ASSUME TypeOK, NEW p \in Pids, NEW g \in Pids, NEW child \in BOOLEAN,
           NEW own \in BOOLEAN, Start(p, g, child, own)
    PROVE  /\ TableStep
           /\ Available(p)
           /\ procs'[p] \in Process
           /\ procs'[p].group = g /\ procs'[p].child = child /\ procs'[p].own = own
           /\ \A q \in Pids \ {p} : procs'[q] = procs[q]
<1>1. births' = births + 1 /\ births \in Nat /\ Available(p)
  BY DEF Start, TypeOK
<1> DEFINE new == [born |-> births', group |-> g, child |-> child, own |-> own,
                   state |-> "running"]
<1>2. new \in Process
  BY <1>1 DEF Process
<1>3. procs' = [procs EXCEPT ![p] = new]
  BY DEF Start
<1>4. procs'[p] = new /\ \A q \in Pids \ {p} : procs'[q] = procs[q]
  BY <1>3 DEF TypeOK
<1>5. procs' \in [Pids -> Process \cup {Free}]
  BY <1>2, <1>3 DEF TypeOK
<1>6. \A q \in Pids : procs[q] # Free => procs[q] \in Process
  BY DEF TypeOK
<1>7. TableStep
  BY <1>1, <1>4, <1>5 DEF TableStep
<1> QED
  BY <1>1, <1>2, <1>4, <1>7

\* A change of state alone, or the removal of an entry.
LEMMA EndOfOne ==
    ASSUME TypeOK, UNCHANGED births,
           NEW P \in SUBSET Pids,
           NEW s \in {"killed", "zombie"},
           \A p \in P : procs[p] # Free,
           procs' = [p \in Pids |-> IF p \in P THEN [procs[p] EXCEPT !.state = s]
                                              ELSE procs[p]]
    PROVE  TableStep
<1>1. \A p \in Pids : procs[p] # Free => procs[p] \in Process
  BY DEF TypeOK
<1>2. ASSUME NEW p \in P
      PROVE  /\ procs'[p] \in Process
             /\ procs'[p].born = procs[p].born /\ procs'[p].group = procs[p].group
             /\ procs'[p].child = procs[p].child /\ procs'[p].own = procs[p].own
             /\ procs'[p].state # "running"
  BY <1>1, <1>2 DEF Process
<1>3. \A p \in Pids \ P : procs'[p] = procs[p]
  OBVIOUS
<1>4. \A p \in Pids : procs'[p] \in Process \cup {Free}
  BY <1>1, <1>2, <1>3
<1>5. procs' \in [Pids -> Process \cup {Free}]
  BY <1>4
<1>6. births' \in Nat /\ births <= births'
  BY DEF TypeOK
<1> QED
  BY <1>2, <1>3, <1>5, <1>6 DEF TableStep

LEMMA RemovalOfSome ==
    ASSUME TypeOK, UNCHANGED births,
           procs' \in [Pids -> Process \cup {Free}],
           \A p \in Pids : procs'[p] \in {procs[p], Free}
    PROVE  TableStep
  BY DEF TableStep, TypeOK

LEMMA TableMoves ==
    ASSUME TypeOK, [Next]_vars PROVE TableStep
<1>0. \A p \in Pids : procs[p] # Free => procs[p] \in Process
  BY DEF TypeOK
<1>1. UNCHANGED <<procs, births>> => TableStep
  BY DEF TableStep, TypeOK
<1>2. ASSUME NEW p \in Pids, StartForeign(p) PROVE TableStep
  BY <1>2, StartMakesOne DEF StartForeign
<1>3. ASSUME NEW p \in Pids, NEW q \in Pids, Fork(q, p) PROVE TableStep
  <2>1. procs[q] \in Process
    BY <1>0, <1>3 DEF Fork
  <2>2. PICK g \in {procs[q].group, p} : Start(p, g, FALSE, procs[q].own)
    BY <1>3 DEF Fork
  <2>3. g \in Pids /\ procs[q].own \in BOOLEAN
    BY <2>1 DEF Process
  <2> QED
    BY <2>2, <2>3, StartMakesOne
<1>4. ASSUME NEW p \in Pids, Exit(p) PROVE TableStep
  <2>1. CASE procs[p].child
    <3>1. procs' = [q \in Pids |-> IF q \in {p} THEN [procs[q] EXCEPT !.state = "zombie"]
                                                ELSE procs[q]]
      BY <1>4, <2>1 DEF Exit, TypeOK
    <3>2. {p} \in SUBSET Pids /\ (\A q \in {p} : procs[q] # Free) /\ UNCHANGED births
      BY <1>4 DEF Exit
    <3> QED
      BY <3>1, <3>2, EndOfOne
  <2>2. CASE ~procs[p].child
    BY <1>4, <2>2, RemovalOfSome DEF Exit, TypeOK
  <2> QED
    BY <2>1, <2>2
<1>5. ASSUME NEW p \in Pids, Spawn(p) PROVE TableStep
  BY <1>5, StartMakesOne DEF Spawn
<1>6. ASSUME NEW p \in Pids, Reap(p) PROVE TableStep
  BY <1>6, RemovalOfSome DEF Reap, TypeOK
<1>7. ASSUME NEW i \in targets, SignalIdentity(i) PROVE TableStep
  <2>1. i[1] \in Pids
    BY DEF TypeOK, Identities
  <2>2. CASE UNCHANGED procs
    BY <1>1, <1>7, <2>2 DEF SignalIdentity
  <2>3. CASE ~UNCHANGED procs
    <3>1. /\ procs[i[1]] # Free
          /\ procs' = [procs EXCEPT ![i[1]].state = "killed"]
      BY <1>7, <2>3 DEF SignalIdentity, Present
    <3>2. procs' = [q \in Pids |-> IF q \in {i[1]} THEN [procs[q] EXCEPT !.state = "killed"]
                                                   ELSE procs[q]]
      BY <2>1, <3>1 DEF TypeOK
    <3>3. {i[1]} \in SUBSET Pids /\ \A p \in {i[1]} : procs[p] # Free
      BY <2>1, <3>1
    <3>4. UNCHANGED births
      BY <1>7 DEF SignalIdentity
    <3> QED
      BY <3>2, <3>3, <3>4, EndOfOne
  <2> QED
    BY <2>2, <2>3
<1>8. ASSUME ReapLeaders PROVE TableStep
  <2>1. \A p \in Pids : procs'[p] \in {procs[p], Free}
    BY <1>8 DEF ReapLeaders
  <2>2. procs' \in [Pids -> Process \cup {Free}]
    BY <1>8 DEF ReapLeaders, TypeOK
  <2> QED
    BY <1>8, <2>1, <2>2, RemovalOfSome DEF ReapLeaders
<1>9. ASSUME \/ \E p \in Pids : Register(p) \/ Adopt(p) \/ Track(p) \/ Retire(p)
             \/ CleanupStart \/ \E g \in Pids : EnumerateGroup(g)
             \/ EnumerateObserved \/ PassEnds \/ Poll \/ Settle \/ CleanupFails
             \/ UNCHANGED vars
      PROVE  UNCHANGED <<procs, births>>
  BY <1>9 DEF Register, Adopt, Track, Retire, CleanupStart, EnumerateGroup,
       EnumerateObserved, PassEnds, Poll, Settle, CleanupFails, vars
<1> QED
  BY <1>1, <1>2, <1>3, <1>4, <1>5, <1>6, <1>7, <1>8, <1>9 DEF Next, CleanupStep

-----------------------------------------------------------------------------
(* Types, and the names a step adds.                                       *)

LEMMA MembersAreLive ==
    ASSUME TypeOK, NEW g \in Pids, NEW start
    PROVE  /\ GroupMembers(g, start) \subseteq Identities
           /\ \A i \in GroupMembers(g, start) :
                 \E p \in Pids : procs[p] # Free /\ procs[p].group = g /\ i = Id(p)
<1>1. \A p \in Pids : procs[p] # Free => procs[p].born \in Nat
  BY DEF TypeOK, Process
<1> QED
  BY <1>1 DEF GroupMembers, Id, Identities

LEMMA VerifiedAreLive ==
    ASSUME TypeOK, NEW leaders, NEW known, NEW g \in Pids
    PROVE  /\ VerifiedGroupMembers(leaders, known, g) \subseteq Identities
           /\ \A i \in VerifiedGroupMembers(leaders, known, g) :
                 \E p \in Pids : procs[p] # Free /\ procs[p].group = g /\ i = Id(p)
  BY MembersAreLive DEF VerifiedGroupMembers

LEMMA LiveOwnedIsLive ==
    ASSUME TypeOK, NEW leaders \in [Pids -> Identities \cup {NoLeader}],
           NEW known \in SUBSET Identities
    PROVE  /\ LiveOwned(leaders, known) \subseteq Identities
           /\ \A i \in LiveOwned(leaders, known) : i \in known \/
                 \E p \in Pids : procs[p] # Free /\ i = Id(p)
<1>1. ASSUME NEW i \in LiveOwned(leaders, known), i \notin known
      PROVE  i \in Identities /\ \E p \in Pids : procs[p] # Free /\ i = Id(p)
  <2>1. PICK g \in Registered(leaders) : i \in VerifiedGroupMembers(leaders, known, g)
    BY <1>1, Zenon DEF LiveOwned
  <2> QED
    BY <2>1, VerifiedAreLive DEF Registered
<1> QED
  BY <1>1

LEMMA IdsAreIdentities ==
    ASSUME TypeOK, NEW p \in Pids, procs[p] # Free
    PROVE  Id(p) \in Identities /\ Id(p)[1] = p /\ Id(p)[2] = procs[p].born
           /\ procs[p].group \in Pids
  BY DEF TypeOK, Process, Id, Identities

\* registry after RegisterIdentity.
LEMMA RegisterNames ==
    ASSUME TypeOK, NEW p \in Pids, procs[p] # Free, RegisterIdentity(p)
    PROVE  /\ groups' \in [Pids -> Identities \cup {NoLeader}]
           /\ \A g \in Pids :
                 groups'[g] = groups[g] \/ (g = procs[p].group /\ groups'[g] = Id(p))
           /\ observed' = observed \cup {Id(p)}
<1>1. Id(p) \in Identities /\ procs[p].group \in Pids
  BY IdsAreIdentities
<1>2. groups \in [Pids -> Identities \cup {NoLeader}]
  BY DEF TypeOK
<1>3. groups' = [groups EXCEPT ![procs[p].group] =
                    IF groups[procs[p].group] = NoLeader
                    THEN Id(p) ELSE groups[procs[p].group]]
  BY DEF RegisterIdentity
<1>4. observed' = observed \cup {Id(p)}
  BY DEF RegisterIdentity
<1>5. \A g \in Pids : groups'[g] = IF g = procs[p].group /\ groups[g] = NoLeader
                                  THEN Id(p) ELSE groups[g]
  BY <1>1, <1>2, <1>3
<1>6. (IF groups[procs[p].group] = NoLeader THEN Id(p) ELSE groups[procs[p].group])
          \in Identities \cup {NoLeader}
  BY <1>1, <1>2
<1>7. groups' \in [Pids -> Identities \cup {NoLeader}]
  BY <1>1, <1>2, <1>3, <1>6
<1>8. ASSUME NEW g \in Pids
      PROVE  \/ groups'[g] = groups[g]
             \/ g = procs[p].group /\ groups'[g] = Id(p)
  BY <1>5
<1> QED
  BY <1>4, <1>7, <1>8, Zenon

LEMMA RetireNames ==
    ASSUME TypeOK, NEW p \in Pids, Retire(p)
    PROVE  /\ groups' \in [Pids -> Identities \cup {NoLeader}]
           /\ \A g \in Pids : groups'[g] \in {groups[g], NoLeader}
           /\ observed' \subseteq Identities
           /\ \A i \in observed' : i \in observed \/ \E g \in Registered(groups) :
                 /\ groups[g][1] = p
                 /\ \E q \in Pids : /\ procs[q] # Free /\ procs[q].group = g
                                   /\ i = Id(q)
<1>1. ASSUME NEW g \in Registered(groups)
      PROVE  g \in Pids /\ groups[g][2] \in Nat
  BY DEF Registered, TypeOK, Identities
<1>2. groups' \in [Pids -> Identities \cup {NoLeader}]
      /\ \A g \in Pids : groups'[g] \in {groups[g], NoLeader}
  BY DEF Retire, TypeOK
<1>3. ASSUME NEW i \in observed'
      PROVE  \/ i \in observed
             \/ \E g \in Registered(groups) :
                   groups[g][1] = p /\ i \in GroupMembers(g, groups[g][2])
  BY <1>3 DEF Retire
<1>4. \A g \in Registered(groups) :
         /\ GroupMembers(g, groups[g][2]) \subseteq Identities
         /\ \A i \in GroupMembers(g, groups[g][2]) :
               \E q \in Pids : procs[q] # Free /\ procs[q].group = g /\ i = Id(q)
  BY <1>1, MembersAreLive
<1>5. observed \subseteq Identities
  BY DEF TypeOK
<1> QED
  BY <1>2, <1>3, <1>4, <1>5

LEMMA TypeStep ==
    ASSUME TypeOK, [Next]_vars PROVE TypeOK'
<1> USE DEF TypeOK
<1>0. births' \in Nat /\ procs' \in [Pids -> Process \cup {Free}]
  BY TableMoves DEF TableStep
<1>1. ASSUME NEW p \in Pids,
             StartForeign(p) \/ Exit(p) \/ \E q \in Pids : Fork(q, p)
      PROVE  TypeOK'
  BY <1>0, <1>1 DEF StartForeign, Exit, Fork, registry, tasks, cleanupVars
<1>2. ASSUME NEW p \in Pids, Spawn(p) PROVE TypeOK'
  BY <1>0, <1>2 DEF Spawn, registry, tasks, cleanupVars
<1>3. ASSUME NEW p \in Pids, Register(p) PROVE TypeOK'
  BY <1>0, <1>3, RegisterNames, IdsAreIdentities DEF Register, registry, tasks, cleanupVars
<1>4. ASSUME NEW p \in Pids, Adopt(p) \/ Track(p) PROVE TypeOK'
  BY <1>0, <1>4, RegisterNames, IdsAreIdentities DEF Adopt, Track, registry, tasks, cleanupVars
<1>5. ASSUME NEW p \in Pids, Reap(p) PROVE TypeOK'
  BY <1>0, <1>5 DEF Reap, registry, tasks, cleanupVars
<1>6. ASSUME NEW p \in Pids, Retire(p) PROVE TypeOK'
  <2>1. /\ groups' \in [Pids -> Identities \cup {NoLeader}]
        /\ observed' \subseteq Identities
    BY <1>6, RetireNames
  <2>2. toRetire' \subseteq Pids /\ UNCHANGED <<toRegister, cleanupVars, foreignHit>>
    BY <1>6 DEF Retire
  <2> QED
    BY <1>0, <2>1, <2>2 DEF cleanupVars
<1>7. ASSUME CleanupStart PROVE TypeOK'
  <2>1. seen' \subseteq Identities
    BY <1>7, LiveOwnedIsLive DEF CleanupStart
  <2> QED
    BY <1>0, <1>7, <2>1 DEF CleanupStart, Registered, registry, tasks
<1>8. ASSUME NEW g \in Pids, EnumerateGroup(g) PROVE TypeOK'
  <2>1. VerifiedGroupMembers(snapGroups, snapObserved, g) \subseteq Identities
    BY VerifiedAreLive
  <2> QED
    BY <1>0, <1>8, <2>1 DEF EnumerateGroup, registry, tasks
<1>9. ASSUME EnumerateObserved \/ PassEnds \/ ReapLeaders PROVE TypeOK'
  BY <1>0, <1>9 DEF EnumerateObserved, PassEnds, ReapLeaders, Registered, registry,
       tasks, cleanupVars
<1>10. ASSUME NEW i \in targets, SignalIdentity(i) PROVE TypeOK'
  BY <1>0, <1>10 DEF SignalIdentity, registry, tasks
<1>11. ASSUME Poll PROVE TypeOK'
  BY <1>0, <1>11, LiveOwnedIsLive DEF Poll, registry, tasks
<1>12. ASSUME Settle \/ CleanupFails PROVE TypeOK'
  BY <1>0, <1>12 DEF Settle, CleanupFails, Return, registry, tasks
<1>13. ASSUME UNCHANGED vars PROVE TypeOK'
  BY <1>13 DEF vars, registry, tasks, cleanupVars
<1> QED
  BY <1>1, <1>2, <1>3, <1>4, <1>5, <1>6, <1>7, <1>8, <1>9, <1>10, <1>11, <1>12, <1>13
     DEF Next, CleanupStep

-----------------------------------------------------------------------------
(* The names a step adds, and start times.                                 *)

LEMMA LeadersNamed ==
    ASSUME NEW g \in Pids
    PROVE  /\ groups[g] # NoLeader => groups[g] \in Named
           /\ snapGroups[g] # NoLeader => snapGroups[g] \in Named
  BY DEF Named, Leaders, Registered

\* A step names only what was named or what lives at the time.
NewName(i) == i \in Named \/ \E p \in Pids : procs[p] # Free /\ i = Id(p)

LEMMA NamesOf ==
    ASSUME TypeOK,
           \A i \in observed' : NewName(i),
           \A g \in Pids : groups'[g] # NoLeader => NewName(groups'[g]),
           \A i \in snapObserved' : NewName(i),
           \A g \in Pids : snapGroups'[g] # NoLeader => NewName(snapGroups'[g]),
           \A i \in targets' : NewName(i),
           \A i \in seen' : NewName(i),
           \A i \in survivors' : NewName(i)
    PROVE  \A i \in Named' : NewName(i)
  BY DEF Named, Leaders, Registered

LEMMA NamesStep ==
    ASSUME TypeOK, [Next]_vars
    PROVE  \A i \in Named' : NewName(i)
<1>0. /\ \A i \in observed \cup snapObserved \cup targets \cup seen \cup survivors :
             NewName(i)
      /\ \A g \in Pids : groups[g] # NoLeader => NewName(groups[g])
      /\ \A g \in Pids : snapGroups[g] # NoLeader => NewName(snapGroups[g])
      /\ \A p \in Pids : procs[p] # Free => NewName(Id(p))
  BY LeadersNamed DEF NewName, Named
<1>1. ASSUME UNCHANGED <<registry, cleanupVars>> PROVE \A i \in Named' : NewName(i)
  BY <1>0, <1>1, NamesOf DEF registry, cleanupVars
<1>2. ASSUME NEW p \in Pids, Register(p) \/ Adopt(p) PROVE \A i \in Named' : NewName(i)
  <2>1. CASE UNCHANGED registry
    BY <1>1, <1>2, <2>1 DEF Register, Adopt
  <2>2. CASE procs[p] # Free /\ RegisterIdentity(p)
    BY <1>0, <1>2, <2>2, RegisterNames, NamesOf DEF Register, Adopt, cleanupVars
  <2> QED
    BY <1>2, <2>1, <2>2 DEF Register, Adopt
<1>3. ASSUME NEW p \in Pids, Track(p) PROVE \A i \in Named' : NewName(i)
  BY <1>0, <1>3, NamesOf DEF Track, cleanupVars
<1>4. ASSUME NEW p \in Pids, Retire(p) PROVE \A i \in Named' : NewName(i)
  <2>1. \A i \in observed' : NewName(i)
    BY <1>0, <1>4, RetireNames
  <2>2. \A g \in Pids : groups'[g] \in {groups[g], NoLeader}
    BY <1>4, RetireNames
  <2>3. UNCHANGED cleanupVars
    BY <1>4 DEF Retire
  <2> QED
    BY <1>0, <2>1, <2>2, <2>3, NamesOf DEF cleanupVars
<1>5. ASSUME CleanupStart PROVE \A i \in Named' : NewName(i)
  <2>1. \A i \in seen' : NewName(i)
    BY <1>0, <1>5, LiveOwnedIsLive DEF CleanupStart, TypeOK
  <2> QED
    BY <1>0, <1>5, <2>1, NamesOf DEF CleanupStart, registry
<1>6. ASSUME NEW g \in Pids, EnumerateGroup(g) PROVE \A i \in Named' : NewName(i)
  <2>1. \A i \in targets' : NewName(i)
    BY <1>0, <1>6, VerifiedAreLive DEF EnumerateGroup
  <2> QED
    BY <1>0, <1>6, <2>1, NamesOf DEF EnumerateGroup, registry
<1>7. ASSUME EnumerateObserved \/ PassEnds \/ ReapLeaders
      PROVE  \A i \in Named' : NewName(i)
  BY <1>0, <1>7, NamesOf DEF EnumerateObserved, PassEnds, ReapLeaders, registry, cleanupVars
<1>8. ASSUME NEW i \in targets, SignalIdentity(i) PROVE \A j \in Named' : NewName(j)
  BY <1>0, <1>8, NamesOf DEF SignalIdentity, registry
<1>9. ASSUME Poll PROVE \A i \in Named' : NewName(i)
  <2>1. \A i \in survivors' : NewName(i)
    BY <1>0, <1>9, LiveOwnedIsLive DEF Poll, TypeOK
  <2> QED
    BY <1>0, <1>9, <2>1, NamesOf DEF Poll, registry
<1>10. ASSUME Settle \/ CleanupFails PROVE \A i \in Named' : NewName(i)
  BY <1>0, <1>10, NamesOf DEF Settle, CleanupFails, Return, registry
<1>11. ASSUME \/ \E p \in Pids : \/ StartForeign(p) \/ Exit(p) \/ Spawn(p) \/ Reap(p)
                               \/ \E q \in Pids : Fork(q, p)
              \/ UNCHANGED vars
       PROVE  UNCHANGED <<registry, cleanupVars>>
  BY <1>11 DEF StartForeign, Exit, Spawn, Reap, Fork, vars, registry, cleanupVars
<1> QED
  BY <1>1, <1>2, <1>3, <1>4, <1>5, <1>6, <1>7, <1>8, <1>9, <1>10, <1>11
     DEF Next, CleanupStep

LEMMA NamedAreIdentities ==
    ASSUME TypeOK PROVE Named \subseteq Identities
  BY DEF Named, Leaders, Registered, TypeOK

LEMMA NamesAreOld ==
    ASSUME TypeOK, BornInTime, [Next]_vars
    PROVE  \A i \in Named' : i \in Identities /\ i[2] <= births
<1> SUFFICES ASSUME NEW i \in Named' PROVE i \in Identities /\ i[2] <= births
  OBVIOUS
<1>1. CASE i \in Named
  BY <1>1, NamedAreIdentities DEF BornInTime
<1>2. ASSUME NEW p \in Pids, procs[p] # Free, i = Id(p)
      PROVE  i \in Identities /\ i[2] <= births
  BY <1>2, IdsAreIdentities DEF BornInTime
<1> QED
  BY <1>1, <1>2, NamesStep DEF NewName

LEMMA BornStep ==
    ASSUME TypeOK, BornInTime, [Next]_vars PROVE BornInTime'
<1>1. TableStep /\ births \in Nat
  BY TableMoves DEF TypeOK
<1>2. ASSUME NEW p \in Pids, procs'[p] # Free PROVE procs'[p].born <= births'
  <2>1. procs[p] # Free => procs[p].born \in Nat /\ procs[p].born <= births
    BY DEF TypeOK, Process, BornInTime
  <2> QED
    BY <1>1, <1>2, <2>1 DEF TableStep
<1>3. \A i \in Named' : i[2] <= births'
  BY <1>1, NamesAreOld DEF TableStep, Identities
<1> QED
  BY <1>2, <1>3 DEF BornInTime

\* A process that has an identity keeps it: the identity only dies.
LEMMA OldOnlyDies ==
    ASSUME TypeOK, [Next]_vars, NEW i \in Identities, i[2] <= births
    PROVE  /\ Present(i)' => /\ Present(i)
                            /\ procs'[i[1]].own = procs[i[1]].own
           /\ Running(i)' => Running(i)
<1>1. i[1] \in Pids /\ i[2] \in Nat /\ births \in Nat
  BY DEF Identities, TypeOK
<1>2. TableStep
  BY TableMoves
<1> QED
  BY <1>1, <1>2 DEF TableStep, Present, Running

LEMMA NamedOnlyDies ==
    ASSUME TypeOK, BornInTime, [Next]_vars, NEW i \in Named
    PROVE  Running(i)' => Running(i)
  BY OldOnlyDies, NamedAreIdentities DEF BornInTime

-----------------------------------------------------------------------------
(* The KILL pass.                                                          *)

LEMMA SweepStep ==
    ASSUME TypeOK, SweepComesLast, [Next]_vars PROVE SweepComesLast'
<1>1. ASSUME UNCHANGED <<cl, todo>> PROVE SweepComesLast'
  BY <1>1 DEF SweepComesLast, Signalling
<1>2. ASSUME NEW g \in Pids, EnumerateGroup(g) PROVE SweepComesLast'
  BY <1>2, ProcessAssumption DEF EnumerateGroup, SweepComesLast, Signalling
<1>3. ASSUME CleanupStart \/ EnumerateObserved \/ PassEnds PROVE SweepComesLast'
  BY <1>3 DEF CleanupStart, EnumerateObserved, PassEnds, SweepComesLast, Signalling
<1>4. ASSUME Poll \/ Settle \/ CleanupFails PROVE SweepComesLast'
  BY <1>4 DEF Poll, Settle, CleanupFails, Return, SweepComesLast, Signalling
<1>5. ASSUME \/ \E p \in Pids : \/ StartForeign(p) \/ Exit(p) \/ Spawn(p) \/ Reap(p)
                               \/ Register(p) \/ Adopt(p) \/ Track(p) \/ Retire(p)
                               \/ \E q \in Pids : Fork(q, p)
             \/ ReapLeaders \/ (\E i \in targets : SignalIdentity(i)) \/ UNCHANGED vars
      PROVE  UNCHANGED <<cl, todo>>
  BY <1>5 DEF StartForeign, Exit, Spawn, Reap, Register, Adopt, Track, Retire, Fork,
       ReapLeaders, SignalIdentity, vars, cleanupVars
<1> QED
  BY <1>1, <1>2, <1>3, <1>4, <1>5 DEF Next, CleanupStep

LEMMA KillStep ==
    ASSUME KillInv, [Next]_vars PROVE KillProgress'
<1>0. \A i \in snapObserved : Running(i)' => Running(i)
  BY NamedOnlyDies DEF KillInv, Named
<1>1. ASSUME UNCHANGED <<cl, todo, snapObserved, targets>> PROVE KillProgress'
  BY <1>0, <1>1 DEF KillInv, KillProgress, KillReachesObserved
<1>2. ASSUME CleanupStart \/ Settle \/ CleanupFails PROVE KillProgress'
  BY <1>2 DEF CleanupStart, Settle, CleanupFails, Return, KillProgress,
       KillReachesObserved
<1>3. ASSUME NEW g \in Pids, EnumerateGroup(g) PROVE KillProgress'
  <2>1. ObservedSweep \in todo' /\ cl' \in {"term", "kill"}
    BY <1>3, ProcessAssumption DEF EnumerateGroup, KillInv, SweepComesLast, Signalling
  <2> QED
    BY <2>1 DEF KillProgress, KillReachesObserved
<1>4. ASSUME EnumerateObserved PROVE KillProgress'
  BY <1>4 DEF EnumerateObserved, Signalling, KillProgress, KillReachesObserved
<1>5. ASSUME NEW i \in targets, SignalIdentity(i) PROVE KillProgress'
  <2>1. i \in Identities /\ UNCHANGED <<cl, todo, snapObserved>> /\ targets' = targets \ {i}
    BY <1>5 DEF SignalIdentity, KillInv, TypeOK
  <2>2. ASSUME cl = "kill" PROVE ~Running(i)'
    <3>1. i[1] \in Pids /\ procs \in [Pids -> Process \cup {Free}]
      BY <2>1 DEF Identities, KillInv, TypeOK
    <3>2. CASE Running(i)
      <4>1. procs' = [procs EXCEPT ![i[1]].state = "killed"]
        BY <1>5, <2>2, <3>2 DEF SignalIdentity, Running
      <4>2. procs[i[1]] \in Process
        BY <3>1, <3>2 DEF Running, Present
      <4>3. procs'[i[1]].state = "killed"
        BY <3>1, <4>1, <4>2 DEF Process
      <4> QED
        BY <4>3 DEF Running
    <3>3. CASE ~Running(i)
      BY <1>0, <2>1, <3>3, NamedOnlyDies DEF KillInv, Named
    <3> QED
      BY <3>2, <3>3
  <2>3. cl \notin {"poll", "settle"}
    BY <1>5 DEF SignalIdentity, Signalling
  <2> QED
    BY <1>0, <2>1, <2>2, <2>3 DEF KillInv, KillProgress, KillReachesObserved
<1>6. ASSUME PassEnds PROVE KillProgress'
  <2>1. CASE cl = "term"
    BY <1>6, <2>1 DEF PassEnds, KillProgress, KillReachesObserved
  <2>2. CASE cl = "kill"
    <3>1. \A i \in snapObserved : ~Running(i)
      BY <1>6, <2>2 DEF PassEnds, KillInv, KillProgress
    <3>2. cl' = "poll" /\ UNCHANGED snapObserved
      BY <1>6, <2>2 DEF PassEnds
    <3> QED
      BY <1>0, <3>1, <3>2 DEF KillProgress, KillReachesObserved
  <2> QED
    BY <1>6, <2>1, <2>2 DEF PassEnds, Signalling
<1>7. ASSUME Poll PROVE KillProgress'
  <2>1. cl = "poll" /\ cl' = "settle" /\ UNCHANGED snapObserved
    BY <1>7 DEF Poll
  <2> QED
    BY <1>0, <2>1 DEF KillInv, KillProgress, KillReachesObserved
<1>8. ASSUME \/ \E p \in Pids : \/ StartForeign(p) \/ Exit(p) \/ Spawn(p) \/ Reap(p)
                               \/ Register(p) \/ Adopt(p) \/ Track(p) \/ Retire(p)
                               \/ \E q \in Pids : Fork(q, p)
             \/ ReapLeaders \/ UNCHANGED vars
      PROVE  UNCHANGED <<cl, todo, snapObserved, targets>>
  BY <1>8 DEF StartForeign, Exit, Spawn, Reap, Register, Adopt, Track, Retire, Fork,
       ReapLeaders, vars, cleanupVars
<1> QED
  BY <1>1, <1>2, <1>3, <1>4, <1>5, <1>6, <1>7, <1>8 DEF Next, CleanupStep

LEMMA InitNames == Init => Named = {}
  BY DEF Init, Named, Leaders, Registered

(* Every reachable state has the types of the registry, the snapshot and   *)
(* the process table, start times behind the clock, and a KILL pass that   *)
(* has dealt with every observed identity it has passed.                   *)
THEOREM KillInvariance == Spec => []KillInv
<1>1. ASSUME Init PROVE KillInv
  <2>1. TypeOK
    BY <1>1 DEF Init, TypeOK
  <2>2. BornInTime
    BY <1>1, InitNames DEF Init, BornInTime
  <2> QED
    BY <1>1, <2>1, <2>2 DEF Init, KillInv, SweepComesLast, Signalling, KillProgress,
         KillReachesObserved
<1>2. KillInv /\ [Next]_vars => KillInv'
  BY TypeStep, BornStep, SweepStep, KillStep DEF KillInv
<1> QED
  BY <1>1, <1>2, PTL DEF Spec

(* TypeOK for every number of PIDs and births.                             *)
THEOREM TypeCorrect == Spec => []TypeOK
  BY KillInvariance, PTL DEF KillInv

(* Once the signal passes of a cleanup are over, no process that its       *)
(* snapshot had observed still runs: the sweep by identity reaches those   *)
(* that left their group or were reparented while the groups were walked.  *)
THEOREM KillReaches == Spec => []KillReachesObserved
  BY KillInvariance, PTL DEF KillInv, KillProgress

-----------------------------------------------------------------------------
(* What a cleanup could not kill stays observed.                           *)

PollListsObserved ==
    cl = "settle" => \A i \in snapObserved : Present(i) => i \in survivors

LEMMA PollStep ==
    ASSUME TypeOK, BornInTime, PollListsObserved, [Next]_vars
    PROVE  PollListsObserved'
<1>1. \A i \in snapObserved : Present(i)' => Present(i)
  <2>1. \A i \in snapObserved : i \in Identities /\ i[2] <= births
    BY DEF TypeOK, BornInTime, Named
  <2> QED
    BY <2>1, OldOnlyDies
<1>2. ASSUME UNCHANGED <<cl, snapObserved, survivors>> PROVE PollListsObserved'
  BY <1>1, <1>2 DEF PollListsObserved
<1>3. ASSUME Poll PROVE PollListsObserved'
  <2>1. \A i \in snapObserved : Present(i) => i \in survivors'
    BY <1>3 DEF Poll, LiveOwned
  <2>2. UNCHANGED <<procs, snapObserved>>
    BY <1>3 DEF Poll
  <2> QED
    BY <1>1, <2>1, <2>2 DEF PollListsObserved
<1>4. ASSUME CleanupStart \/ PassEnds \/ Settle \/ CleanupFails PROVE cl' # "settle"
  BY <1>4 DEF CleanupStart, PassEnds, Settle, CleanupFails, Return
<1>5. ASSUME \/ \E p \in Pids : \/ StartForeign(p) \/ Exit(p) \/ Spawn(p) \/ Reap(p)
                               \/ Register(p) \/ Adopt(p) \/ Track(p) \/ Retire(p)
                               \/ \E q \in Pids : Fork(q, p)
             \/ ReapLeaders \/ UNCHANGED vars
      PROVE  UNCHANGED <<cl, snapObserved, survivors>>
  BY <1>5 DEF StartForeign, Exit, Spawn, Reap, Register, Adopt, Track, Retire, Fork,
       ReapLeaders, vars, cleanupVars
<1>6. ASSUME \/ \E g \in Pids : EnumerateGroup(g)
             \/ EnumerateObserved \/ \E i \in targets : SignalIdentity(i)
      PROVE  UNCHANGED <<cl, snapObserved, survivors>>
  BY <1>6 DEF EnumerateGroup, EnumerateObserved, SignalIdentity
<1> QED
  BY <1>2, <1>3, <1>4, <1>5, <1>6 DEF Next, CleanupStep, PollListsObserved

LEMMA SettleKeeps ==
    ASSUME PollListsObserved, [Next]_vars, cl = "settle", cl' = "idle"
    PROVE  \A i \in snapObserved : Present(i) => i \in observed'
<1>1. ASSUME \/ \E p \in Pids : \/ StartForeign(p) \/ Exit(p) \/ Spawn(p) \/ Reap(p)
                               \/ Register(p) \/ Adopt(p) \/ Track(p) \/ Retire(p)
                               \/ \E q \in Pids : Fork(q, p)
             \/ ReapLeaders \/ UNCHANGED vars
      PROVE  FALSE
  BY <1>1 DEF StartForeign, Exit, Spawn, Reap, Register, Adopt, Track, Retire, Fork,
       ReapLeaders, vars, cleanupVars
<1>2. ASSUME \/ CleanupStart \/ (\E g \in Pids : EnumerateGroup(g))
             \/ EnumerateObserved \/ (\E i \in targets : SignalIdentity(i))
             \/ PassEnds \/ Poll \/ CleanupFails
      PROVE  FALSE
  BY <1>2 DEF CleanupStart, EnumerateGroup, EnumerateObserved, SignalIdentity, PassEnds,
       Poll, CleanupFails, Return, Signalling
<1>3. Settle
  BY <1>1, <1>2 DEF Next, CleanupStep
<1> QED
  BY <1>3 DEF Settle, PollListsObserved

(* A process that the cleanup's snapshot had observed and that the cleanup *)
(* leaves behind stays in the registry for the next one.                   *)
THEOREM SurvivorsStay == Spec => SurvivorsStayObserved
<1>1. Init => PollListsObserved
  BY DEF Init, PollListsObserved
<1>2. KillInv /\ PollListsObserved /\ [Next]_vars => PollListsObserved'
  BY PollStep DEF KillInv
<1>3. PollListsObserved /\ [Next]_vars
        => [cl = "settle" /\ cl' = "idle" =>
              \A i \in snapObserved : Present(i) => i \in observed']_vars
  BY SettleKeeps
<1> QED
  BY <1>1, <1>2, <1>3, KillInvariance, PTL DEF Spec, SurvivorsStayObserved

-----------------------------------------------------------------------------
(* No signal goes to a stranger, if a PID is not given out again before    *)
(* the task that reaped it has retired it.                                 *)

GroupsPure ==
    \A p, q \in Pids :
        procs[p] # Free /\ procs[q] # Free /\ procs[p].group = procs[q].group
            => procs[p].own = procs[q].own

ChildrenLead ==
    \A p \in Pids :
        procs[p] # Free /\ procs[p].child => procs[p].own /\ procs[p].group = p

\* Between spawn and register_child, and between wait and retire_process.
PendingTasks ==
    /\ \A p \in toRegister : procs[p] # Free => procs[p].child
    /\ \A p \in toRetire : \A q \in Pids :
          procs[q] # Free => q # p /\ (procs[q].group = p => procs[q].own)

RegisteredLead ==
    /\ \A g \in Registered(groups) : groups[g][1] = g
    /\ todo \subseteq Registered(snapGroups) \cup {ObservedSweep}

NamesMeanOwn == \A i \in Named : MeansOwn(i)

OwnInv ==
    /\ TypeOK /\ BornInTime
    /\ GroupsPure /\ ChildrenLead /\ PendingTasks /\ RegisteredLead
    /\ NamesMeanOwn
    /\ foreignHit = FALSE

\* A new process leads a group nobody is in or joins its parent's.
BornInto(p) ==
    /\ Available(p)
    /\ \A q \in Pids \ {p} : procs'[q] = procs[q]
    /\ procs'[p].child => procs'[p].own /\ procs'[p].group = p
    /\ \/ procs'[p].group = p
       \/ \E q \in Pids : /\ procs[q] # Free
                         /\ procs[q].group = procs'[p].group
                         /\ procs[q].own = procs'[p].own

LEMMA BirthStep ==
    ASSUME TypeOK, [Next]_vars, NEW p \in Pids, procs[p] = Free, procs'[p] # Free
    PROVE  BornInto(p)
<1>1. ASSUME NEW r \in Pids, StartForeign(r) \/ Spawn(r) PROVE BornInto(p)
  <2>1. PICK own \in BOOLEAN : Start(r, r, own, own)
    BY <1>1 DEF StartForeign, Spawn
  <2>2. /\ Available(r) /\ \A q \in Pids \ {r} : procs'[q] = procs[q]
        /\ procs'[r].group = r /\ procs'[r].child = own /\ procs'[r].own = own
    BY <2>1, StartMakesOne
  <2>3. p = r
    BY <2>2
  <2> QED
    BY <2>2, <2>3 DEF BornInto
<1>2. ASSUME NEW r \in Pids, NEW q \in Pids, Fork(q, r) PROVE BornInto(p)
  <2>1. procs[q] # Free /\ procs[q] \in Process
    BY <1>2 DEF Fork, TypeOK
  <2>2. PICK g \in {procs[q].group, r} : Start(r, g, FALSE, procs[q].own)
    BY <1>2 DEF Fork
  <2>3. /\ Available(r) /\ \A s \in Pids \ {r} : procs'[s] = procs[s]
        /\ procs'[r].group = g /\ ~procs'[r].child /\ procs'[r].own = procs[q].own
    <3>1. procs[q].group \in Pids /\ procs[q].own \in BOOLEAN
      BY <2>1 DEF Process
    <3>2. g \in Pids
      BY <2>2, <3>1
    <3>3. PICK own \in BOOLEAN, child \in BOOLEAN : own = procs[q].own /\ child = FALSE
      BY <3>1
    <3>4. Start(r, g, child, own)
      BY <2>2, <3>3
    <3>5. /\ Available(r) /\ \A s \in Pids \ {r} : procs'[s] = procs[s]
          /\ procs'[r].group = g /\ procs'[r].child = child /\ procs'[r].own = own
      BY <3>2, <3>4, StartMakesOne
    <3> QED
      BY <3>3, <3>5
  <2>4. p = r
    BY <2>3
  <2> QED
    BY <2>1, <2>2, <2>3, <2>4 DEF BornInto
<1>3. ASSUME NEW r \in Pids, Exit(r) \/ Reap(r) PROVE procs'[p] = Free
  BY <1>3 DEF Exit, Reap, TypeOK
<1>4. ASSUME NEW i \in targets, SignalIdentity(i) PROVE procs'[p] = Free
  <2>1. procs' = procs \/ (procs[i[1]] # Free /\ procs' = [procs EXCEPT ![i[1]].state = "killed"])
    BY <1>4 DEF SignalIdentity, Present
  <2> QED
    BY <2>1 DEF TypeOK
<1>5. ASSUME ReapLeaders PROVE procs'[p] = Free
  BY <1>5 DEF ReapLeaders
<1>6. ASSUME \/ \E r \in Pids : Register(r) \/ Adopt(r) \/ Track(r) \/ Retire(r)
             \/ CleanupStart \/ \E g \in Pids : EnumerateGroup(g)
             \/ EnumerateObserved \/ PassEnds \/ Poll \/ Settle \/ CleanupFails
             \/ UNCHANGED vars
      PROVE  UNCHANGED procs
  BY <1>6 DEF Register, Adopt, Track, Retire, CleanupStart, EnumerateGroup,
       EnumerateObserved, PassEnds, Poll, Settle, CleanupFails, vars
<1> QED
  BY <1>1, <1>2, <1>3, <1>4, <1>5, <1>6 DEF Next, CleanupStep

\* The process table half of a step, from TableStep and BirthStep.
LEMMA EachProcess ==
    ASSUME TypeOK, [Next]_vars, NEW p \in Pids, procs'[p] # Free
    PROVE  \/ /\ procs[p] # Free
              /\ procs'[p].group = procs[p].group
              /\ procs'[p].child = procs[p].child
              /\ procs'[p].own = procs[p].own
           \/ procs[p] = Free /\ BornInto(p)
<1>1. CASE procs[p] # Free
  BY <1>1, TableMoves DEF TableStep, Available
<1>2. CASE procs[p] = Free
  BY <1>2, BirthStep
<1> QED
  BY <1>1, <1>2

LEMMA PureStep ==
    ASSUME TypeOK, GroupsPure, ChildrenLead, [Next]_vars
    PROVE  GroupsPure' /\ ChildrenLead'
<1>1. ChildrenLead'
  BY EachProcess DEF ChildrenLead, BornInto
<1>2. ASSUME NEW p \in Pids, NEW q \in Pids, procs'[p] # Free, procs'[q] # Free,
             procs'[p].group = procs'[q].group, procs[p] = Free, BornInto(p)
      PROVE  procs'[p].own = procs'[q].own
  <2>1. CASE q = p
    BY <2>1
  <2>2. CASE q # p
    <3>1. procs'[q] = procs[q] /\ procs[q].group # p
      BY <1>2, <2>2 DEF BornInto, Available
    <3> QED
      BY <1>2, <3>1 DEF BornInto, GroupsPure
  <2> QED
    BY <2>1, <2>2
<1>3. GroupsPure'
  <2> SUFFICES ASSUME NEW p \in Pids, NEW q \in Pids, procs'[p] # Free, procs'[q] # Free,
                      procs'[p].group = procs'[q].group
               PROVE  procs'[p].own = procs'[q].own
    BY DEF GroupsPure
  <2>1. CASE procs[p] # Free /\ procs[q] # Free
    BY <2>1, EachProcess DEF GroupsPure
  <2>2. CASE procs[p] = Free
    BY <1>2, <2>2, EachProcess
  <2>3. CASE procs[q] = Free
    BY <1>2, <2>3, EachProcess
  <2> QED
    BY <2>1, <2>2, <2>3
<1> QED
  BY <1>1, <1>3

LEMMA PendingStep ==
    ASSUME ~Recycle, TypeOK, GroupsPure, ChildrenLead, PendingTasks, [Next]_vars
    PROVE  PendingTasks'
<1>1. ASSUME NEW p \in toRegister, procs'[p] # Free PROVE procs'[p].child
  BY <1>1, EachProcess DEF TypeOK, PendingTasks, BornInto, Available
<1>2. ASSUME NEW p \in toRetire, NEW q \in Pids, procs'[q] # Free
      PROVE  q # p /\ (procs'[q].group = p => procs'[q].own)
  BY <1>2, EachProcess DEF TypeOK, PendingTasks, BornInto, Available
<1>3. ASSUME NEW p \in Pids, Spawn(p) PROVE PendingTasks'
  <2>1. procs'[p].child /\ toRegister' = toRegister \cup {p} /\ UNCHANGED toRetire
    BY <1>3, StartMakesOne DEF Spawn
  <2> QED
    BY <1>1, <1>2, <2>1 DEF PendingTasks
<1>4. ASSUME NEW p \in Pids, Reap(p) PROVE PendingTasks'
  <2>1. /\ procs[p] # Free /\ procs[p].child /\ UNCHANGED toRegister
        /\ procs' = [procs EXCEPT ![p] = Free] /\ toRetire' \subseteq toRetire \cup {p}
    BY <1>4 DEF Reap
  <2>2. ASSUME NEW q \in Pids, procs'[q] # Free
        PROVE  q # p /\ (procs'[q].group = p => procs'[q].own)
    BY <2>1, <2>2 DEF TypeOK, GroupsPure, ChildrenLead
  <2> QED
    BY <1>1, <1>2, <2>1, <2>2 DEF PendingTasks
<1>5. ASSUME toRegister' \subseteq toRegister, toRetire' \subseteq toRetire
      PROVE  PendingTasks'
  BY <1>1, <1>2, <1>5 DEF PendingTasks
<1>6. ASSUME \/ \E p \in Pids : \/ StartForeign(p) \/ Exit(p) \/ Register(p)
                               \/ Adopt(p) \/ Track(p) \/ Retire(p)
                               \/ \E q \in Pids : Fork(q, p)
             \/ CleanupStart \/ (\E g \in Pids : EnumerateGroup(g)) \/ EnumerateObserved
             \/ (\E i \in targets : SignalIdentity(i)) \/ PassEnds \/ ReapLeaders \/ Poll
             \/ Settle \/ CleanupFails \/ UNCHANGED vars
      PROVE  toRegister' \subseteq toRegister /\ toRetire' \subseteq toRetire
  BY <1>6 DEF StartForeign, Exit, Register, Adopt, Track, Retire, Fork, CleanupStart,
       EnumerateGroup, EnumerateObserved, SignalIdentity, PassEnds, ReapLeaders, Poll,
       Settle, CleanupFails, vars, tasks
<1> QED
  BY <1>3, <1>4, <1>5, <1>6 DEF Next, CleanupStep

LEMMA RegisteredStep ==
    ASSUME TypeOK, ChildrenLead, PendingTasks, RegisteredLead, [Next]_vars
    PROVE  RegisteredLead'
<1> USE DEF RegisteredLead, Registered
<1>1. ASSUME UNCHANGED <<groups, todo, snapGroups>> PROVE RegisteredLead'
  BY <1>1
<1>2. ASSUME NEW p \in Pids, Register(p) \/ Adopt(p) PROVE RegisteredLead'
  <2>1. CASE UNCHANGED groups
    BY <1>2, <2>1 DEF Register, Adopt, cleanupVars
  <2>2. CASE procs[p] # Free /\ RegisterIdentity(p)
    <3>1. procs[p].group = p
      BY <1>2, <2>2 DEF Register, Adopt, ChildrenLead, PendingTasks
    <3> QED
      BY <1>2, <2>2, <3>1, RegisterNames, IdsAreIdentities DEF Register, Adopt, cleanupVars
  <2> QED
    BY <1>2, <2>1, <2>2 DEF Register, Adopt, registry
<1>3. ASSUME NEW p \in Pids, Retire(p) PROVE RegisteredLead'
  <2>1. \A g \in Pids : groups'[g] \in {groups[g], NoLeader}
    BY <1>3, RetireNames
  <2> QED
    BY <1>3, <2>1 DEF Retire, cleanupVars
<1>4. ASSUME CleanupStart \/ EnumerateObserved \/ PassEnds PROVE RegisteredLead'
  BY <1>4 DEF CleanupStart, EnumerateObserved, PassEnds, registry
<1>5. ASSUME NEW g \in Pids, EnumerateGroup(g) PROVE RegisteredLead'
  BY <1>5 DEF EnumerateGroup, registry
<1>6. ASSUME Settle \/ CleanupFails PROVE RegisteredLead'
  BY <1>6 DEF Settle, CleanupFails, Return, registry
<1>7. ASSUME \/ \E p \in Pids : \/ StartForeign(p) \/ Exit(p) \/ Spawn(p) \/ Reap(p)
                               \/ Track(p) \/ \E q \in Pids : Fork(q, p)
             \/ (\E i \in targets : SignalIdentity(i)) \/ ReapLeaders \/ Poll
             \/ UNCHANGED vars
      PROVE  UNCHANGED <<groups, todo, snapGroups>>
  BY <1>7 DEF StartForeign, Exit, Spawn, Reap, Track, Fork, SignalIdentity, ReapLeaders,
       Poll, vars, registry, cleanupVars
<1> QED
  BY <1>1, <1>2, <1>3, <1>4, <1>5, <1>6, <1>7 DEF Next, CleanupStep

LEMMA VerifiedAreOwn ==
    ASSUME TypeOK, GroupsPure, NEW leaders, NEW known, NEW g \in Pids,
           leaders[g] \in Identities /\ MeansOwn(leaders[g]),
           \A i \in known : i \in Identities /\ MeansOwn(i)
    PROVE  \A i \in VerifiedGroupMembers(leaders, known, g) : MeansOwn(i)
<1> SUFFICES ASSUME NEW i \in VerifiedGroupMembers(leaders, known, g) PROVE MeansOwn(i)
  OBVIOUS
<1>1. PICK j \in Identities : InGroup(j, g) /\ MeansOwn(j)
  BY DEF VerifiedGroupMembers
<1>2. j[1] \in Pids /\ procs[j[1]] # Free /\ procs[j[1]].group = g /\ procs[j[1]].own
  BY <1>1 DEF InGroup, Present, MeansOwn, Identities
<1>3. PICK p \in Pids : procs[p] # Free /\ procs[p].group = g /\ i = Id(p)
  BY VerifiedAreLive
<1>4. procs[p].own
  BY <1>2, <1>3 DEF GroupsPure
<1> QED
  BY <1>3, <1>4 DEF MeansOwn, Id

LEMMA LiveOwnedAreOwn ==
    ASSUME TypeOK, GroupsPure, NEW leaders \in [Pids -> Identities \cup {NoLeader}],
           NEW known \in SUBSET Identities,
           \A g \in Registered(leaders) : MeansOwn(leaders[g]),
           \A i \in known : MeansOwn(i)
    PROVE  \A i \in LiveOwned(leaders, known) : MeansOwn(i)
<1>1. ASSUME NEW i \in LiveOwned(leaders, known), i \notin known PROVE MeansOwn(i)
  <2>1. PICK g \in Registered(leaders) : i \in VerifiedGroupMembers(leaders, known, g)
    BY <1>1, Zenon DEF LiveOwned
  <2>2. g \in Pids /\ leaders[g] \in Identities
    BY DEF Registered
  <2> QED
    BY <2>1, <2>2, VerifiedAreOwn
<1> QED
  BY <1>1

LEMMA OwnNamesOf ==
    ASSUME TypeOK,
           \A i \in observed' : MeansOwn(i),
           \A g \in Pids : groups'[g] # NoLeader => MeansOwn(groups'[g]),
           \A i \in snapObserved' : MeansOwn(i),
           \A g \in Pids : snapGroups'[g] # NoLeader => MeansOwn(snapGroups'[g]),
           \A i \in targets' : MeansOwn(i),
           \A i \in seen' : MeansOwn(i),
           \A i \in survivors' : MeansOwn(i)
    PROVE  \A i \in Named' : MeansOwn(i)
  BY DEF Named, Leaders, Registered

LEMMA IdMeansOwn ==
    ASSUME NEW p \in Pids, procs[p] # Free => procs[p].own PROVE MeansOwn(Id(p))
  BY DEF MeansOwn, Present, Id

\* What a step names was named before or is AHRB's own when it is named.
LEMMA OwnNames ==
    ASSUME OwnInv, [Next]_vars PROVE \A i \in Named' : MeansOwn(i)
<1>0. /\ \A i \in observed \cup snapObserved \cup targets \cup seen \cup survivors :
             MeansOwn(i)
      /\ \A g \in Pids : groups[g] # NoLeader => MeansOwn(groups[g])
      /\ \A g \in Pids : snapGroups[g] # NoLeader => MeansOwn(snapGroups[g])
      /\ TypeOK /\ GroupsPure
  BY LeadersNamed DEF OwnInv, NamesMeanOwn, Named
<1>1. ASSUME UNCHANGED <<registry, cleanupVars>> PROVE \A i \in Named' : MeansOwn(i)
  BY <1>0, <1>1, OwnNamesOf DEF registry, cleanupVars
<1>2. ASSUME NEW p \in Pids, Register(p) \/ Adopt(p) PROVE \A i \in Named' : MeansOwn(i)
  <2>1. CASE UNCHANGED registry
    BY <1>1, <1>2, <2>1 DEF Register, Adopt
  <2>2. CASE procs[p] # Free /\ RegisterIdentity(p)
    <3>1. procs[p].own
      BY <1>2, <2>2 DEF Register, Adopt, OwnInv, PendingTasks, ChildrenLead
    <3>2. MeansOwn(Id(p))
      BY <3>1, IdMeansOwn
    <3> QED
      BY <1>0, <1>2, <2>2, <3>2, RegisterNames, OwnNamesOf DEF Register, Adopt, cleanupVars
  <2> QED
    BY <1>2, <2>1, <2>2 DEF Register, Adopt
<1>3. ASSUME NEW p \in Pids, Track(p) PROVE \A i \in Named' : MeansOwn(i)
  <2>1. MeansOwn(Id(p))
    BY <1>3, IdMeansOwn DEF Track
  <2> QED
    BY <1>0, <1>3, <2>1, OwnNamesOf DEF Track, cleanupVars
<1>4. ASSUME NEW p \in Pids, Retire(p) PROVE \A i \in Named' : MeansOwn(i)
  <2>1. ASSUME NEW i \in observed', i \notin observed PROVE MeansOwn(i)
    <3>1. PICK g \in Registered(groups) : /\ groups[g][1] = p
              /\ \E q \in Pids : procs[q] # Free /\ procs[q].group = g /\ i = Id(q)
      BY <1>0, <1>4, <2>1, RetireNames
    <3>2. PICK q \in Pids : procs[q] # Free /\ procs[q].group = g /\ i = Id(q)
      BY <3>1
    <3>3. g = p /\ p \in toRetire
      BY <1>4, <3>1 DEF Retire, OwnInv, RegisteredLead
    <3>4. procs[q].own
      BY <3>2, <3>3 DEF OwnInv, PendingTasks
    <3> QED
      BY <3>2, <3>4, IdMeansOwn
  <2>2. \A g \in Pids : groups'[g] \in {groups[g], NoLeader}
    BY <1>0, <1>4, RetireNames
  <2>3. UNCHANGED cleanupVars
    BY <1>4 DEF Retire
  <2> QED
    BY <1>0, <2>1, <2>2, <2>3, OwnNamesOf DEF cleanupVars
<1>5. ASSUME CleanupStart PROVE \A i \in Named' : MeansOwn(i)
  <2>1. \A i \in seen' : MeansOwn(i)
    BY <1>0, <1>5, LiveOwnedAreOwn DEF CleanupStart, TypeOK, Registered
  <2> QED
    BY <1>0, <1>5, <2>1, OwnNamesOf DEF CleanupStart, registry
<1>6. ASSUME NEW g \in Pids, EnumerateGroup(g) PROVE \A i \in Named' : MeansOwn(i)
  <2>1. snapGroups[g] # NoLeader
    BY <1>6 DEF EnumerateGroup, OwnInv, RegisteredLead, Registered
  <2>2. snapGroups[g] \in Identities /\ snapObserved \subseteq Identities
    BY <1>0, <2>1 DEF TypeOK
  <2>3. \A i \in targets' : MeansOwn(i)
    BY <1>0, <1>6, <2>1, <2>2, VerifiedAreOwn DEF EnumerateGroup
  <2> QED
    BY <1>0, <1>6, <2>3, OwnNamesOf DEF EnumerateGroup, registry
<1>7. ASSUME EnumerateObserved \/ PassEnds \/ ReapLeaders
      PROVE  \A i \in Named' : MeansOwn(i)
  BY <1>0, <1>7, OwnNamesOf DEF EnumerateObserved, PassEnds, ReapLeaders, registry,
       cleanupVars
<1>8. ASSUME NEW i \in targets, SignalIdentity(i) PROVE \A j \in Named' : MeansOwn(j)
  BY <1>0, <1>8, OwnNamesOf DEF SignalIdentity, registry
<1>9. ASSUME Poll PROVE \A i \in Named' : MeansOwn(i)
  <2>1. \A i \in survivors' : MeansOwn(i)
    BY <1>0, <1>9, LiveOwnedAreOwn DEF Poll, TypeOK, Registered
  <2> QED
    BY <1>0, <1>9, <2>1, OwnNamesOf DEF Poll, registry
<1>10. ASSUME Settle \/ CleanupFails PROVE \A i \in Named' : MeansOwn(i)
  BY <1>0, <1>10, OwnNamesOf DEF Settle, CleanupFails, Return, registry
<1>11. ASSUME \/ \E p \in Pids : \/ StartForeign(p) \/ Exit(p) \/ Spawn(p) \/ Reap(p)
                                \/ \E q \in Pids : Fork(q, p)
              \/ UNCHANGED vars
       PROVE  UNCHANGED <<registry, cleanupVars>>
  BY <1>11 DEF StartForeign, Exit, Spawn, Reap, Fork, vars, registry, cleanupVars
<1> QED
  BY <1>1, <1>2, <1>3, <1>4, <1>5, <1>6, <1>7, <1>8, <1>9, <1>10, <1>11
     DEF Next, CleanupStep

LEMMA OwnNamesStep ==
    ASSUME OwnInv, [Next]_vars PROVE NamesMeanOwn'
<1> SUFFICES ASSUME NEW i \in Named', Present(i)' PROVE procs'[i[1]].own
  BY DEF NamesMeanOwn, MeansOwn
<1>1. i \in Identities /\ i[2] <= births /\ MeansOwn(i)
  BY NamesAreOld, OwnNames DEF OwnInv
<1>2. Present(i) /\ procs'[i[1]].own = procs[i[1]].own
  BY <1>1, OldOnlyDies DEF OwnInv
<1> QED
  BY <1>1, <1>2 DEF MeansOwn

LEMMA NoHit ==
    ASSUME OwnInv, [Next]_vars PROVE foreignHit' = FALSE
<1>1. ASSUME NEW i \in targets, SignalIdentity(i) PROVE foreignHit' = FALSE
  <2>1. MeansOwn(i) /\ foreignHit = FALSE
    BY DEF OwnInv, NamesMeanOwn, Named
  <2>2. CASE Present(i)
    <3>1. procs[i[1]].own /\ foreignHit' = (foreignHit \/ ~procs[i[1]].own)
      BY <1>1, <2>1, <2>2 DEF SignalIdentity, MeansOwn
    <3> QED
      BY <2>1, <3>1
  <2>3. CASE ~Present(i)
    BY <1>1, <2>1, <2>3 DEF SignalIdentity
  <2> QED
    BY <2>2, <2>3
<1>2. ASSUME ~\E i \in targets : SignalIdentity(i) PROVE foreignHit' = foreignHit
  BY <1>2 DEF Next, CleanupStep, StartForeign, Exit, Fork, Spawn, Register, Adopt, Track,
       Reap, Retire, CleanupStart, EnumerateGroup, EnumerateObserved, PassEnds,
       ReapLeaders, Poll, Settle, CleanupFails, vars
<1> QED
  BY <1>1, <1>2 DEF OwnInv

LEMMA OwnStart == Init => OwnInv
<1> SUFFICES ASSUME Init PROVE OwnInv
  OBVIOUS
<1>1. TypeOK
  BY DEF Init, TypeOK
<1>2. BornInTime /\ NamesMeanOwn
  BY InitNames DEF Init, BornInTime, NamesMeanOwn
<1> QED
  BY <1>1, <1>2 DEF Init, OwnInv, GroupsPure, ChildrenLead, PendingTasks, RegisteredLead,
     Registered

LEMMA OwnStep ==
    ASSUME ~Recycle, OwnInv, [Next]_vars PROVE OwnInv'
  BY TypeStep, BornStep, PureStep, PendingStep, RegisteredStep, OwnNamesStep, NoHit
     DEF OwnInv

(* If no PID is given out again between the wait that reaps a child and    *)
(* the retire_process that follows it, every name the registry or a        *)
(* cleanup holds is dead or AHRB's own in every reachable state, and the   *)
(* groups of the process table do not mix AHRB's processes with others.    *)
THEOREM OwnInvariance == ASSUME ~Recycle PROVE Spec => []OwnInv
<1>1. OwnInv /\ [Next]_vars => OwnInv'
  BY OwnStep
<1> QED
  BY <1>1, OwnStart, PTL DEF Spec

(* Under that assumption AHRB never signals a process that is not its own, *)
(* for any number of PIDs, births, groups and concurrent tasks.            *)
THEOREM SignalsStayHome == ASSUME ~Recycle PROVE Spec => []NoForeignSignal
<1>1. OwnInv => NoForeignSignal
  BY DEF OwnInv, NoForeignSignal
<1> QED
  BY <1>1, OwnInvariance, PTL

(* Under that assumption no entry of the registry, of a cleanup's snapshot *)
(* or of its signal queue ever comes to name a stranger's live process.    *)
THEOREM RegistryStaysOwn == ASSUME ~Recycle PROVE Spec => []RegistryMeansOwn
<1>1. OwnInv => RegistryMeansOwn
  BY DEF OwnInv, NamesMeanOwn, Named, RegistryMeansOwn
<1> QED
  BY <1>1, OwnInvariance, PTL
=============================================================================
