------------------------ MODULE RunPersistenceProofs ------------------------
(***************************************************************************)
(* Proofs about RunPersistence, for any number of runs of any kind.        *)
(*                                                                         *)
(* The invariant follows one report on its way: what has been written of   *)
(* it when its process is at each step (Progress), with the lock of the    *)
(* index and what its holder has read (Locking).  From it come that        *)
(* evidence outlives the run root, that a suite exit code has a record,    *)
(* and that the index implements the append-only history.                  *)
(***************************************************************************)
EXTENDS RunPersistence, TLAPS

HasLine(r, what) ==
    \E k \in 1 .. Len(lines) : lines[k].run = r /\ lines[k].report = what

Evidence(r) ==
    /\ why[r] # "none" /\ report[r] = why[r]
    /\ r \in Saves => Saved(r) = why[r] /\ HasLine(r, why[r])

Locked == {"read", "write", "sync"}

Published == {"mirror", "flock"} \cup Locked

Reporting == {"diagnose", "provisional", "finalize", "persist"} \cup Published

Progress(r) ==
    /\ pc[r] \in Reporting => why[r] # "none"
    /\ pc[r] \in Published => r \in Saves /\ report[r] = why[r]
    /\ pc[r] \in Published \ {"mirror"} => Saved(r) = why[r]
    /\ pc[r] = "sync" => HasLine(r, why[r])
    /\ confirmed[r] => pc[r] \in {"cleanup", "main", "end"} /\ Evidence(r)
    /\ root[r] = "removed" => confirmed[r]
    /\ exit[r] = "suite" => confirmed[r] /\ why[r] = "final"
    /\ exit[r] # "running" => pc[r] = "end"

Locking(r) ==
    /\ pc[r] \in Locked => lock = r
    /\ pc[r] = "write" => occ[r] = Len(lines) + 1 /\ ~torn

Inv == TypeOK /\ \A r \in Runs : Progress(r) /\ Locking(r)

-----------------------------------------------------------------------------
(* A step of one run leaves the others where they are, and adds at most    *)
(* one line to the index.                                                  *)
Others(r) ==
    \A q \in Runs \ {r} :
        /\ pc'[q] = pc[q] /\ why'[q] = why[q]
        /\ report'[q] = report[q] /\ mirror'[q] = mirror[q]
        /\ confirmed'[q] = confirmed[q] /\ root'[q] = root[q]
        /\ exit'[q] = exit[q] /\ occ'[q] = occ[q]

OneLine(r) == lines' = lines \/ lines' = Append(lines, NewLine(r))

LEMMA LineTyped == ASSUME TypeOK, NEW r \in Runs PROVE NewLine(r) \in Line
BY DEF TypeOK, NewLine, Line, Saved

LEMMA StepIsLocal ==
    ASSUME TypeOK, NEW r \in Runs, Step(r) \/ LockFails(r) \/ Die(r)
    PROVE  Others(r) /\ OneLine(r)
<1> USE DEF TypeOK, Others, OneLine, Goto, Report, Exit, Confirm, Persisted,
            PersistFails, files, index
<1>1. CASE NewRoot(r) BY <1>1 DEF NewRoot
<1>2. CASE WorkloadEnds(r) BY <1>2 DEF WorkloadEnds
<1>3. CASE WorkloadFails(r) BY <1>3 DEF WorkloadFails
<1>4. CASE DeadlinePasses(r) BY <1>4 DEF DeadlinePasses
<1>5. CASE Diagnose(r) BY <1>5 DEF Diagnose
<1>6. CASE WriteProvisional(r) BY <1>6 DEF WriteProvisional
<1>7. CASE Finalize(r) BY <1>7 DEF Finalize
<1>8. CASE WriteBundle(r) BY <1>8 DEF WriteBundle
<1>9. CASE WriteMirror(r) BY <1>9 DEF WriteMirror
<1>10. CASE TakeLock(r) BY <1>10 DEF TakeLock
<1>11. CASE LockFails(r) BY <1>11 DEF LockFails
<1>12. CASE ReadIndex(r) BY <1>12 DEF ReadIndex
<1>13. CASE WriteLine(r) BY <1>13 DEF WriteLine
<1>14. CASE SyncLine(r) BY <1>14 DEF SyncLine
<1>15. CASE Cleanup(r) BY <1>15 DEF Cleanup, GuardCleanup
<1>16. CASE DropGuard(r) BY <1>16 DEF DropGuard, GuardCleanup
<1>17. CASE MainFails(r) BY <1>17 DEF MainFails
<1>18. CASE Die(r) BY <1>18 DEF Die
<1> QED
    BY <1>1, <1>2, <1>3, <1>4, <1>5, <1>6, <1>7, <1>8, <1>9, <1>10, <1>11,
       <1>12, <1>13, <1>14, <1>15, <1>16, <1>17, <1>18 DEF Step

LEMMA LinesStay ==
    ASSUME TypeOK, NEW r \in Runs, OneLine(r), NEW q, NEW what, HasLine(q, what)
    PROVE  \E k \in 1 .. Len(lines') : lines'[k].run = q /\ lines'[k].report = what
<1> PICK k \in 1 .. Len(lines) : lines[k].run = q /\ lines[k].report = what
    BY DEF HasLine
<1>1. lines \in Seq(Line) /\ NewLine(r) \in Line BY LineTyped DEF TypeOK
<1>2. k \in 1 .. Len(lines') /\ lines'[k] = lines[k]
    BY <1>1 DEF OneLine
<1> QED BY <1>2

-----------------------------------------------------------------------------
(* Types.  Steps of the code move a process and may change the report it   *)
(* is about to write (Moves); the rest of the state is typed apart.        *)
Steps == {"new", "inner", "diagnose", "provisional", "finalize", "persist", "mirror",
          "flock", "read", "write", "sync", "cleanup", "drop", "main", "end"}

ControlOK ==
    /\ pc \in [Runs -> Steps]
    /\ why \in [Runs -> Reports]
    /\ confirmed \in [Runs -> BOOLEAN]

DiskOK ==
    /\ report \in [Runs -> Reports] /\ mirror \in [Runs -> Reports]
    /\ root \in [Runs -> {"absent", "live", "removed"}]
    /\ exit \in [Runs -> {"running", "suite", "two", "dead"}]

IndexOK ==
    /\ lines \in Seq(Line)
    /\ torn \in BOOLEAN
    /\ lock \in Runs \cup {NoRun}
    /\ occ \in [Runs -> Nat]

\* Types are split into what control, the files and the index hold.
LEMMA TypeParts == TypeOK <=> ControlOK /\ DiskOK /\ IndexOK
BY DEF TypeOK, ControlOK, DiskOK, IndexOK, Steps

\* The parts of the next state, and what gives two of them.
LEMMA TypePartsNext == (ControlOK' /\ DiskOK' /\ IndexOK') => TypeOK'
BY DEF TypeOK, ControlOK, DiskOK, IndexOK, Steps

LEMMA DiskKept == ASSUME TypeOK, UNCHANGED <<files, root, exit>> PROVE DiskOK'
BY DEF TypeOK, DiskOK, files

LEMMA IndexKept == ASSUME TypeOK, UNCHANGED index PROVE IndexOK'
BY DEF TypeOK, IndexOK, index

Moves(r) ==
    \/ \E there \in Steps : Goto(r, there) /\ UNCHANGED why
    \/ \E there \in Steps, what \in Reports : Report(r, what, there)

\* A move keeps control typed.
LEMMA MoveTyped ==
    ASSUME TypeOK, NEW r \in Runs, Moves(r), UNCHANGED confirmed
    PROVE  ControlOK'
<1>1. ControlOK BY TypeParts
<1>2. CASE \E there \in Steps : Goto(r, there) /\ UNCHANGED why
  <2> PICK there \in Steps : Goto(r, there) /\ UNCHANGED why BY <1>2
  <2>1. pc' \in [Runs -> Steps] BY <1>1 DEF ControlOK, Goto
  <2> QED BY <1>1, <2>1 DEF ControlOK
<1>3. CASE \E there \in Steps, what \in Reports : Report(r, what, there)
  <2> PICK there \in Steps, what \in Reports : Report(r, what, there) BY <1>3
  <2>1. pc' \in [Runs -> Steps] BY <1>1 DEF ControlOK, Report, Goto
  <2>2. why' \in [Runs -> Reports] BY <1>1 DEF ControlOK, Report
  <2> QED BY <1>1, <2>1, <2>2 DEF ControlOK
<1> QED BY <1>2, <1>3 DEF Moves

\* So does a run that goes somewhere without a word on its report.
LEMMA GoTyped ==
    ASSUME TypeOK, NEW r \in Runs, NEW there \in Steps, Goto(r, there),
           UNCHANGED <<why, confirmed>>
    PROVE  ControlOK'
BY MoveTyped DEF Moves

LEMMA FailsMoves == ASSUME NEW r \in Runs, PersistFails(r) PROVE Moves(r)
<1>1. {"abort", "failure"} \subseteq Reports BY DEF Reports
<1>2. {"diagnose", "cleanup", "drop"} \subseteq Steps BY DEF Steps
<1>3. \/ Report(r, "abort", "diagnose")
      \/ Goto(r, "cleanup") /\ UNCHANGED why
      \/ Goto(r, "drop") /\ UNCHANGED why
    BY DEF PersistFails
<1> QED BY <1>1, <1>2, <1>3 DEF Moves

LEMMA PersistTyped ==
    ASSUME TypeOK, NEW r \in Runs, Persisted(r) \/ PersistFails(r)
    PROVE  ControlOK'
<1>1. CASE Persisted(r)
  <2>1. ControlOK /\ "cleanup" \in Steps BY TypeParts DEF Steps
  <2>2. confirmed' \in [Runs -> BOOLEAN] BY <1>1, <2>1 DEF Persisted, Confirm, ControlOK
  <2>3. pc' \in [Runs -> Steps] BY <1>1, <2>1 DEF Persisted, Goto, ControlOK
  <2> QED BY <1>1, <2>1, <2>2, <2>3 DEF Persisted, ControlOK
<1>2. CASE PersistFails(r)
  <2>1. Moves(r) /\ UNCHANGED confirmed BY <1>2, FailsMoves DEF PersistFails
  <2> QED BY <2>1, MoveTyped
<1> QED BY <1>1, <1>2

LEMMA UnlockTyped ==
    ASSUME TypeOK, NEW r \in Runs, Unlock(r) PROVE lock' \in Runs \cup {NoRun}
BY DEF TypeOK, Unlock

LEMMA ExitTyped ==
    ASSUME TypeOK, NEW r \in Runs, NEW code \in {"suite", "two", "dead"}, Exit(r, code),
           UNCHANGED <<why, confirmed>>
    PROVE  exit' \in [Runs -> {"running", "suite", "two", "dead"}] /\ ControlOK'
<1>1. exit' \in [Runs -> {"running", "suite", "two", "dead"}] BY DEF TypeOK, Exit
<1>2. Goto(r, "end") /\ "end" \in Steps BY DEF Exit, Steps
<1> QED BY <1>1, <1>2, GoTyped

LEMMA GuardTyped ==
    ASSUME TypeOK, NEW r \in Runs, GuardCleanup(r)
    PROVE  root' \in [Runs -> {"absent", "live", "removed"}]
<1>1. root' = root \/ root' = [root EXCEPT ![r] = "removed"] BY DEF GuardCleanup
<1>2. root \in [Runs -> {"absent", "live", "removed"}] BY DEF TypeOK
<1> QED BY <1>1, <1>2

\* Before the report is persisted: the workload and what follows it.
LEMMA WorkloadTyped ==
    ASSUME TypeOK, PersistenceAssumption, NEW r \in Runs,
           \/ NewRoot(r) \/ WorkloadEnds(r) \/ WorkloadFails(r) \/ DeadlinePasses(r)
           \/ Diagnose(r) \/ WriteProvisional(r) \/ Finalize(r)
    PROVE  TypeOK'
<1> USE DEF Moves
<1> DEFINE Named == {"provisional", "final", "failure", "abort", "deadline"}
<1>0. Named \subseteq Reports /\ {"inner", "main", "diagnose", "provisional", "finalize",
      "persist", "cleanup", "drop"} \subseteq Steps
    BY DEF Reports, Steps
<1>1. CASE NewRoot(r)
  <2>1. ControlOK'
    <3>1. CASE Goto(r, "inner") BY <1>0, <1>1, <3>1, GoTyped DEF NewRoot
    <3>2. CASE Goto(r, "main") BY <1>0, <1>1, <3>2, GoTyped DEF NewRoot
    <3> QED BY <1>1, <3>1, <3>2 DEF NewRoot
  <2>2. DiskOK'
    <3>1. root' = root \/ root' = [root EXCEPT ![r] = "live"] BY <1>1 DEF NewRoot
    <3>2. root' \in [Runs -> {"absent", "live", "removed"}] BY <3>1 DEF TypeOK
    <3> QED BY <1>1, <3>2 DEF NewRoot, TypeOK, DiskOK, files
  <2>3. IndexOK' BY <1>1, IndexKept DEF NewRoot
  <2> QED BY <2>1, <2>2, <2>3, TypePartsNext
<1>2. CASE WorkloadEnds(r)
  <2>1. Report(r, "provisional", "provisional") \/ Report(r, "final", "persist")
      BY <1>2 DEF WorkloadEnds
  <2>2. ControlOK' BY <1>0, <1>2, <2>1, MoveTyped DEF WorkloadEnds
  <2> QED BY <1>2, <2>2, DiskKept, IndexKept, TypePartsNext DEF WorkloadEnds
<1>3. CASE WorkloadFails(r)
  <2>1. \/ Report(r, "abort", "diagnose") \/ Report(r, "failure", "diagnose")
        \/ Goto(r, "drop") /\ UNCHANGED why
      BY <1>3 DEF WorkloadFails
  <2>2. ControlOK' BY <1>0, <1>3, <2>1, MoveTyped DEF WorkloadFails
  <2> QED BY <1>3, <2>2, DiskKept, IndexKept, TypePartsNext DEF WorkloadFails
<1>4. CASE DeadlinePasses(r)
  <2>1. \/ Report(r, "deadline", "diagnose") \/ Report(r, "failure", "diagnose")
        \/ Report(r, "deadline", "persist")
      BY <1>4 DEF DeadlinePasses
  <2>2. ControlOK' BY <1>0, <1>4, <2>1, MoveTyped DEF DeadlinePasses
  <2> QED BY <1>4, <2>2, DiskKept, IndexKept, TypePartsNext DEF DeadlinePasses
<1>5. CASE Diagnose(r)
  <2>1. Goto(r, "provisional") \/ Goto(r, "persist") \/ Goto(r, "drop")
      BY <1>5 DEF Diagnose
  <2>2. ControlOK' BY <1>0, <1>5, <2>1, MoveTyped DEF Diagnose
  <2> QED BY <1>5, <2>2, DiskKept, IndexKept, TypePartsNext DEF Diagnose
<1>6. CASE WriteProvisional(r)
  <2>1. report' \in [Runs -> Reports]
    <3>1. report' = report \/ report' = [report EXCEPT ![r] = why[r]]
        BY <1>6 DEF WriteProvisional
    <3>2. report \in [Runs -> Reports] /\ why[r] \in Reports BY DEF TypeOK
    <3> QED BY <3>1, <3>2
  <2>2. \/ Goto(r, "finalize") /\ UNCHANGED why
        \/ Report(r, "failure", "diagnose")
        \/ Goto(r, "drop") /\ UNCHANGED why
      BY <1>6 DEF WriteProvisional
  <2>3. UNCHANGED <<mirror, confirmed, root, exit, index>> BY <1>6 DEF WriteProvisional
  <2>4. ControlOK' BY <1>0, <2>2, <2>3, MoveTyped
  <2>5. DiskOK' BY <2>1, <2>3 DEF TypeOK, DiskOK
  <2> QED BY <2>3, <2>4, <2>5, IndexKept, TypePartsNext
<1>7. CASE Finalize(r)
  <2>1. \/ Report(r, "final", "persist") \/ Report(r, "failure", "persist")
        \/ Goto(r, "cleanup") /\ UNCHANGED why
      BY <1>7 DEF Finalize
  <2>2. ControlOK' BY <1>0, <1>7, <2>1, MoveTyped DEF Finalize
  <2> QED BY <1>7, <2>2, DiskKept, IndexKept, TypePartsNext DEF Finalize
<1> QED BY <1>1, <1>2, <1>3, <1>4, <1>5, <1>6, <1>7

\* persist_report.
LEMMA PublishTyped ==
    ASSUME TypeOK, PersistenceAssumption, NEW r \in Runs,
           \/ WriteBundle(r) \/ WriteMirror(r) \/ TakeLock(r) \/ LockFails(r)
           \/ ReadIndex(r) \/ WriteLine(r) \/ SyncLine(r)
    PROVE  TypeOK'
<1>0. {"flock", "mirror", "read", "write", "sync"} \subseteq Steps BY DEF Steps
<1>00. why[r] \in Reports BY DEF TypeOK
<1>1. CASE WriteBundle(r)
  <2>1. UNCHANGED <<mirror, root, exit, index>> BY <1>1 DEF WriteBundle
  <2>2. report' = report \/ report' = [report EXCEPT ![r] = why[r]] BY <1>1 DEF WriteBundle
  <2>3. \/ Persisted(r) \/ PersistFails(r)
        \/ \/ Goto(r, "flock") \/ Goto(r, "mirror")
           /\ UNCHANGED <<why, confirmed>>
      BY <1>1 DEF WriteBundle
  <2>4. ControlOK'
    <3>1. CASE Persisted(r) \/ PersistFails(r) BY <3>1, PersistTyped
    <3>2. CASE Goto(r, "flock") /\ UNCHANGED <<why, confirmed>> BY <1>0, <3>2, GoTyped
    <3>3. CASE Goto(r, "mirror") /\ UNCHANGED <<why, confirmed>> BY <1>0, <3>3, GoTyped
    <3> QED BY <2>3, <3>1, <3>2, <3>3
  <2>5. report' \in [Runs -> Reports] BY <1>00, <2>2 DEF TypeOK
  <2>6. DiskOK' BY <2>1, <2>5 DEF TypeOK, DiskOK
  <2> QED BY <2>1, <2>4, <2>6, IndexKept, TypePartsNext
<1>2. CASE WriteMirror(r)
  <2>1. UNCHANGED <<report, root, exit, index>> BY <1>2 DEF WriteMirror
  <2>2. mirror' = mirror \/ mirror' = [mirror EXCEPT ![r] = why[r]] BY <1>2 DEF WriteMirror
  <2>3. \/ PersistFails(r)
        \/ Goto(r, "flock") /\ UNCHANGED <<why, confirmed>>
      BY <1>2, Zenon DEF WriteMirror
  <2>4. ControlOK'
    <3>1. CASE PersistFails(r) BY <3>1, PersistTyped
    <3>2. CASE Goto(r, "flock") /\ UNCHANGED <<why, confirmed>> BY <1>0, <3>2, GoTyped
    <3> QED BY <2>3, <3>1, <3>2
  <2>5. mirror' \in [Runs -> Reports] BY <1>00, <2>2 DEF TypeOK
  <2>6. DiskOK' BY <2>1, <2>5 DEF TypeOK, DiskOK
  <2> QED BY <2>1, <2>4, <2>6, IndexKept, TypePartsNext
<1>3. CASE TakeLock(r)
  <2>1. /\ lock' = r /\ Goto(r, "read")
        /\ UNCHANGED <<why, confirmed, files, root, exit, lines, torn, occ>>
      BY <1>3 DEF TakeLock
  <2>2. ControlOK' BY <1>0, <2>1, GoTyped
  <2>3. IndexOK' BY <2>1 DEF TypeOK, IndexOK
  <2> QED BY <2>1, <2>2, <2>3, DiskKept, TypePartsNext
<1>4. CASE LockFails(r)
  <2>1. PersistFails(r) /\ UNCHANGED <<files, root, exit, index>> BY <1>4 DEF LockFails
  <2>2. ControlOK' BY <2>1, PersistTyped
  <2> QED BY <2>1, <2>2, DiskKept, IndexKept, TypePartsNext
<1>5. CASE ReadIndex(r)
  <2>1. UNCHANGED <<files, root, exit, lines, torn>> BY <1>5 DEF ReadIndex
  <2>2. CASE /\ occ' = [occ EXCEPT ![r] = Len(lines) + 1] /\ Goto(r, "write")
             /\ UNCHANGED <<why, confirmed, lock>>
    <3>1. ControlOK' BY <1>0, <2>2, GoTyped
    <3>2. Len(lines) + 1 \in Nat BY DEF TypeOK
    <3>3. occ' \in [Runs -> Nat] BY <2>2, <3>2 DEF TypeOK
    <3>4. IndexOK' BY <2>1, <2>2, <3>3 DEF TypeOK, IndexOK
    <3> QED BY <2>1, <3>1, <3>4, DiskKept, TypePartsNext
  <2>3. CASE UNCHANGED occ /\ Unlock(r) /\ PersistFails(r)
    <3>1. ControlOK' BY <2>3, PersistTyped
    <3>2. IndexOK' BY <2>1, <2>3, UnlockTyped DEF TypeOK, IndexOK
    <3> QED BY <2>1, <3>1, <3>2, DiskKept, TypePartsNext
  <2> QED BY <1>5, <2>2, <2>3 DEF ReadIndex
<1>6. CASE WriteLine(r)
  <2>1. UNCHANGED <<files, root, exit, occ>> BY <1>6 DEF WriteLine
  <2>2. CASE lines' = Append(lines, NewLine(r)) /\ Goto(r, "sync")
             /\ UNCHANGED <<why, confirmed, torn, lock>>
    <3>1. lines' \in Seq(Line) BY <2>2, LineTyped DEF TypeOK
    <3>2. ControlOK' BY <1>0, <2>2, GoTyped
    <3>3. IndexOK' BY <2>1, <2>2, <3>1 DEF TypeOK, IndexOK
    <3> QED BY <2>1, <3>2, <3>3, DiskKept, TypePartsNext
  <2>3. CASE torn' \in {torn, TRUE} /\ UNCHANGED lines /\ Unlock(r) /\ PersistFails(r)
    <3>1. torn' \in BOOLEAN BY <2>3 DEF TypeOK
    <3>2. ControlOK' BY <2>3, PersistTyped
    <3>3. IndexOK' BY <2>1, <2>3, <3>1, UnlockTyped DEF TypeOK, IndexOK
    <3> QED BY <2>1, <3>2, <3>3, DiskKept, TypePartsNext
  <2> QED BY <1>6, <2>2, <2>3 DEF WriteLine
<1>7. CASE SyncLine(r)
  <2>1. /\ Unlock(r) /\ (Persisted(r) \/ PersistFails(r))
        /\ UNCHANGED <<files, root, exit, lines, torn, occ>>
      BY <1>7 DEF SyncLine
  <2>2. ControlOK' BY <2>1, PersistTyped
  <2>3. IndexOK' BY <2>1, UnlockTyped DEF TypeOK, IndexOK
  <2> QED BY <2>1, <2>2, <2>3, DiskKept, TypePartsNext
<1> QED BY <1>1, <1>2, <1>3, <1>4, <1>5, <1>6, <1>7

\* The end of a run, whichever it is.
LEMMA EndTyped ==
    ASSUME TypeOK, PersistenceAssumption, NEW r \in Runs,
           Cleanup(r) \/ DropGuard(r) \/ MainFails(r) \/ Die(r)
    PROVE  TypeOK'
<1>0. "main" \in Steps BY DEF Steps
<1>1. CASE Cleanup(r)
  <2>1. GuardCleanup(r) /\ UNCHANGED <<why, files, confirmed, index>>
      BY <1>1 DEF Cleanup
  <2>2. root' \in [Runs -> {"absent", "live", "removed"}] BY <2>1, GuardTyped
  <2>3. CASE UNCHANGED exit /\ Goto(r, "main")
    <3>1. ControlOK' BY <1>0, <2>1, <2>3, GoTyped
    <3>2. DiskOK' BY <2>1, <2>2, <2>3 DEF TypeOK, DiskOK, files
    <3> QED BY <2>1, <3>1, <3>2, IndexKept, TypePartsNext
  <2>4. CASE \E code \in {"suite", "two"} : Exit(r, code)
    <3>1. PICK code \in {"suite", "two", "dead"} : Exit(r, code) BY <2>4
    <3>2. exit' \in [Runs -> {"running", "suite", "two", "dead"}] /\ ControlOK'
        BY <2>1, <3>1, ExitTyped
    <3>3. DiskOK' BY <2>1, <2>2, <3>2 DEF TypeOK, DiskOK, files
    <3> QED BY <2>1, <3>2, <3>3, IndexKept, TypePartsNext
  <2> QED BY <1>1, <2>3, <2>4 DEF Cleanup
<1>2. CASE DropGuard(r)
  <2>1. /\ GuardCleanup(r) /\ Goto(r, "main")
        /\ UNCHANGED <<why, files, confirmed, exit, index>>
      BY <1>2 DEF DropGuard
  <2>2. root' \in [Runs -> {"absent", "live", "removed"}] BY <2>1, GuardTyped
  <2>3. ControlOK' BY <1>0, <2>1, GoTyped
  <2>4. DiskOK' BY <2>1, <2>2 DEF TypeOK, DiskOK, files
  <2> QED BY <2>1, <2>3, <2>4, IndexKept, TypePartsNext
<1>3. CASE MainFails(r)
  <2>1. Exit(r, "two") /\ UNCHANGED <<why, files, confirmed, root, index>>
      BY <1>3 DEF MainFails
  <2>2. exit' \in [Runs -> {"running", "suite", "two", "dead"}] /\ ControlOK'
      BY <2>1, ExitTyped
  <2>3. DiskOK' BY <2>1, <2>2 DEF TypeOK, DiskOK, files
  <2> QED BY <2>1, <2>2, <2>3, IndexKept, TypePartsNext
<1>4. CASE Die(r)
  <2>1. Exit(r, "dead") /\ Unlock(r) /\ UNCHANGED <<why, files, confirmed, root, occ>>
      BY <1>4 DEF Die
  <2>2. lines' \in Seq(Line) /\ torn' \in BOOLEAN
    <3>1. \/ UNCHANGED <<lines, torn>>
          \/ torn' = TRUE /\ UNCHANGED lines
          \/ lines' = Append(lines, NewLine(r)) /\ UNCHANGED torn
        BY <1>4 DEF Die
    <3>2. lines \in Seq(Line) /\ torn \in BOOLEAN /\ NewLine(r) \in Line
        BY LineTyped DEF TypeOK
    <3>3. lines' \in Seq(Line) BY <3>1, <3>2
    <3>4. torn' = torn \/ torn' = TRUE BY <3>1
    <3> QED BY <3>2, <3>3, <3>4
  <2>3. exit' \in [Runs -> {"running", "suite", "two", "dead"}] /\ ControlOK'
      BY <2>1, ExitTyped
  <2>4. DiskOK' BY <2>1, <2>3 DEF TypeOK, DiskOK, files
  <2>5. IndexOK' BY <2>1, <2>2, UnlockTyped DEF TypeOK, IndexOK
  <2> QED BY <2>3, <2>4, <2>5, TypePartsNext
<1> QED BY <1>1, <1>2, <1>3, <1>4

LEMMA TypeStep ==
    ASSUME TypeOK, PersistenceAssumption,
           NEW r \in Runs, Step(r) \/ LockFails(r) \/ Die(r)
    PROVE  TypeOK'
BY WorkloadTyped, PublishTyped, EndTyped DEF Step

-----------------------------------------------------------------------------
LEMMA LineStays ==
    ASSUME TypeOK, NEW r \in Runs, OneLine(r), NEW q \in Runs, why'[q] = why[q],
           HasLine(q, why[q])
    PROVE  HasLine(q, why[q])'
<1>1. \E k \in 1 .. Len(lines') : lines'[k].run = q /\ lines'[k].report = why[q]
    BY LinesStay
<1> QED BY <1>1 DEF HasLine

LEMMA EvidenceStays ==
    ASSUME TypeOK, NEW r \in Runs, OneLine(r), NEW q \in Runs, Evidence(q),
           why'[q] = why[q], report'[q] = report[q], mirror'[q] = mirror[q]
    PROVE  Evidence(q)'
<1>1. HasLine(q, why[q]) => HasLine(q, why[q])' BY LineStays
<1> QED BY <1>1 DEF Evidence, Saved

(* The progress of a run that does not step. *)
LEMMA ProgressStays ==
    ASSUME TypeOK, NEW r \in Runs, Others(r), OneLine(r),
           NEW q \in Runs \ {r}, Progress(q)
    PROVE  Progress(q)'
<1>1. /\ pc'[q] = pc[q] /\ why'[q] = why[q]
      /\ report'[q] = report[q] /\ mirror'[q] = mirror[q]
      /\ confirmed'[q] = confirmed[q] /\ root'[q] = root[q] /\ exit'[q] = exit[q]
    BY DEF Others
<1>2. HasLine(q, why[q]) => HasLine(q, why[q])' BY <1>1, LineStays
<1>3. Evidence(q) => Evidence(q)' BY <1>1, EvidenceStays
<1> QED BY <1>1, <1>2, <1>3 DEF Progress, Saved

(* What the two ends of persist_report do to the control of their run.     *)
LEMMA PersistEnds ==
    ASSUME TypeOK, NEW r \in Runs
    PROVE  /\ Persisted(r) => pc'[r] = "cleanup" /\ confirmed'[r] /\ why' = why
           /\ PersistFails(r) => /\ pc'[r] \in {"diagnose", "cleanup", "drop"}
                                 /\ why'[r] \in {why[r], "abort"}
                                 /\ pc'[r] # "diagnose" => why'[r] = why[r]
                                 /\ confirmed' = confirmed
BY DEF TypeOK, Persisted, PersistFails, Confirm, Goto, Report

LEMMA ProgressStep ==
    ASSUME Inv, PersistenceAssumption,
           NEW r \in Runs, Step(r) \/ LockFails(r) \/ Die(r)
    PROVE  Progress(r)'
<1> TypeOK /\ Progress(r) BY DEF Inv
<1> USE DEF Progress
<1>1. CASE NewRoot(r) BY <1>1 DEF NewRoot, At, Goto, TypeOK, Reporting, Published, Locked, files, index
<1>2. CASE WorkloadEnds(r)
    BY <1>2 DEF WorkloadEnds, At, Goto, Report, TypeOK, Reporting, Published, Locked, files, index
<1>3. CASE WorkloadFails(r)
    BY <1>3 DEF WorkloadFails, At, Goto, Report, TypeOK, Reporting, Published, Locked, files, index
<1>4. CASE DeadlinePasses(r)
    BY <1>4 DEF DeadlinePasses, At, Goto, Report, TypeOK, Reporting, Published, Locked, files, index
<1>5. CASE Diagnose(r)
    BY <1>5 DEF Diagnose, At, Goto, TypeOK, Reporting, Published, Locked, files, index
<1>6. CASE WriteProvisional(r)
    BY <1>6 DEF WriteProvisional, At, Goto, Report, TypeOK, Reporting, Published, Locked, index
<1>7. CASE Finalize(r)
    BY <1>7 DEF Finalize, At, Goto, Report, TypeOK, Reporting, Published, Locked, files, index
<1>8. CASE WriteBundle(r)
    BY <1>8, PersistEnds DEF WriteBundle, At, Goto, TypeOK, Reporting, Published, Locked, Evidence, Saved, index
<1>9. CASE WriteMirror(r)
    BY <1>9, PersistEnds DEF WriteMirror, At, Goto, TypeOK, Reporting, Published, Locked, Saved, index
<1>10. CASE TakeLock(r)
    BY <1>10 DEF TakeLock, At, Goto, TypeOK, Reporting, Published, Locked, Saved, files
<1>11. CASE LockFails(r)
    BY <1>11, PersistEnds DEF LockFails, At, TypeOK, Reporting, Published, Locked, files, index
<1>12. CASE ReadIndex(r)
    BY <1>12, PersistEnds DEF ReadIndex, At, Goto, TypeOK, Reporting, Published, Locked, Saved, files
<1>13. CASE WriteLine(r)
  <2>1. CASE lines' = Append(lines, NewLine(r)) /\ Goto(r, "sync")
             /\ UNCHANGED <<why, confirmed, torn, lock>>
    <3>1. Len(lines) + 1 \in 1 .. Len(lines') /\ lines'[Len(lines) + 1] = NewLine(r)
        BY <2>1, LineTyped DEF TypeOK
    <3>2. NewLine(r).run = r /\ NewLine(r).report = why[r]
        BY <1>13 DEF WriteLine, At, NewLine, Published, Locked
    <3>3. HasLine(r, why[r])' BY <2>1, <3>1, <3>2 DEF HasLine
    <3> QED BY <1>13, <2>1, <3>3
            DEF WriteLine, At, Goto, TypeOK, Reporting, Published, Locked, Saved, files
  <2>2. CASE UNCHANGED lines /\ PersistFails(r)
      BY <1>13, <2>2, PersistEnds
         DEF WriteLine, At, TypeOK, Reporting, Published, Locked, Saved, files
  <2> QED BY <1>13, <2>1, <2>2 DEF WriteLine
<1>14. CASE SyncLine(r)
    BY <1>14, PersistEnds DEF SyncLine, At, TypeOK, Reporting, Published, Locked, Evidence, Saved, HasLine, files
<1>15. CASE Cleanup(r)
    BY <1>15 DEF Cleanup, GuardCleanup, At, Goto, Exit, TypeOK, Reporting, Published, Locked, Evidence, Saved, HasLine, files, index
<1>16. CASE DropGuard(r)
    BY <1>16 DEF DropGuard, GuardCleanup, At, Goto, TypeOK, Reporting, Published, Locked, Evidence, Saved, HasLine, files, index
<1>17. CASE MainFails(r)
    BY <1>17 DEF MainFails, At, Goto, Exit, TypeOK, Reporting, Published, Locked, Evidence, Saved, HasLine, files, index
<1>18. CASE Die(r)
  <2>1. Evidence(r) => Evidence(r)'
      BY <1>18, StepIsLocal, EvidenceStays DEF Die, files
  <2> QED BY <1>18, <2>1 DEF Die, Goto, Exit, TypeOK, Reporting, Published, Locked, files
<1> QED
    BY <1>1, <1>2, <1>3, <1>4, <1>5, <1>6, <1>7, <1>8, <1>9, <1>10, <1>11,
       <1>12, <1>13, <1>14, <1>15, <1>16, <1>17, <1>18 DEF Step

-----------------------------------------------------------------------------
(* The holder of the lock is alone with the index.                         *)
LEMMA LockingStep ==
    ASSUME Inv, PersistenceAssumption,
           NEW r \in Runs, Step(r) \/ LockFails(r) \/ Die(r),
           NEW q \in Runs
    PROVE  Locking(q)'
<1> TypeOK /\ Locking(q) /\ Locking(r) BY DEF Inv
<1>0. Others(r) BY StepIsLocal
<1> USE DEF Locking
<1>1. CASE UNCHANGED <<lines, torn, lock, occ>> /\ ~At(r, "read") /\ pc'[r] \notin Locked
    BY <1>0, <1>1 DEF Others, Locked
<1>2. CASE TakeLock(r)
    BY <1>0, <1>2 DEF TakeLock, At, Goto, TypeOK, Others, Locked, PersistenceAssumption
<1>3. CASE ReadIndex(r) \/ WriteLine(r) \/ SyncLine(r)
  <2>1. CASE q # r
    <3>1. pc[q] \notin Locked
        BY <1>3, <2>1 DEF ReadIndex, WriteLine, SyncLine, At, Locked
    <3>2. pc'[q] = pc[q] BY <1>0, <2>1 DEF Others
    <3> QED BY <3>1, <3>2 DEF Locked
  <2>2. CASE q = r /\ ReadIndex(r)
    <3>1. CASE ~torn /\ occ' = [occ EXCEPT ![r] = Len(lines) + 1] /\ Goto(r, "write")
               /\ UNCHANGED <<why, confirmed, lock>>
        BY <2>2, <3>1 DEF ReadIndex, At, Goto, TypeOK, Locked
    <3>2. CASE PersistFails(r) BY <2>2, <3>2, PersistEnds DEF Locked
    <3> QED BY <2>2, <3>1, <3>2 DEF ReadIndex
  <2>3. CASE q = r /\ WriteLine(r)
    <3>1. CASE Goto(r, "sync") /\ UNCHANGED lock
      <4>1. pc'[r] = "sync" /\ pc[r] = "write" BY <2>3, <3>1 DEF WriteLine, At, Goto, TypeOK
      <4> QED BY <2>3, <3>1, <4>1 DEF Locked
    <3>2. CASE PersistFails(r) BY <2>3, <3>2, PersistEnds DEF Locked
    <3> QED BY <2>3, <3>1, <3>2 DEF WriteLine
  <2>4. CASE q = r /\ SyncLine(r)
      BY <2>4, PersistEnds DEF SyncLine, Locked
  <2> QED BY <1>3, <2>1, <2>2, <2>3, <2>4
<1>4. CASE Die(r)
    BY <1>0, <1>4 DEF Die, At, Exit, Goto, Unlock, TypeOK, Others, Locked
<1>5. CASE ~(TakeLock(r) \/ ReadIndex(r) \/ WriteLine(r) \/ SyncLine(r) \/ Die(r))
  <2>1. UNCHANGED index /\ ~At(r, "read") /\ pc'[r] \notin Locked
    <3> USE DEF At, Goto, TypeOK, Locked
    <3>1. CASE NewRoot(r) BY <3>1 DEF NewRoot
    <3>2. CASE WorkloadEnds(r) BY <3>2 DEF WorkloadEnds, Report
    <3>3. CASE WorkloadFails(r) BY <3>3 DEF WorkloadFails, Report
    <3>4. CASE DeadlinePasses(r) BY <3>4 DEF DeadlinePasses, Report
    <3>5. CASE Diagnose(r) BY <3>5 DEF Diagnose
    <3>6. CASE WriteProvisional(r) BY <3>6 DEF WriteProvisional, Report
    <3>7. CASE Finalize(r) BY <3>7 DEF Finalize, Report
    <3>8. CASE WriteBundle(r)
      <4>1. UNCHANGED index /\ ~At(r, "read")
        <5>1. UNCHANGED index /\ pc[r] = "persist" BY <3>8 DEF WriteBundle
        <5> QED BY <5>1
      <4>2. CASE Persisted(r) \/ PersistFails(r) BY <4>1, <4>2, PersistEnds
      <4>3. CASE pc' = [pc EXCEPT ![r] = IF r \in DefaultOutput THEN "flock" ELSE "mirror"]
          BY <4>1, <4>3
      <4>4. \/ Persisted(r) \/ PersistFails(r)
            \/ Goto(r, IF r \in DefaultOutput THEN "flock" ELSE "mirror")
          BY <3>8, Zenon DEF WriteBundle
      <4> QED BY <4>2, <4>3, <4>4
    <3>9. CASE WriteMirror(r)
      <4>1. UNCHANGED index /\ ~At(r, "read")
        <5>1. UNCHANGED index /\ pc[r] = "mirror" BY <3>9 DEF WriteMirror
        <5> QED BY <5>1
      <4>2. CASE PersistFails(r) BY <4>1, <4>2, PersistEnds
      <4>3. CASE pc' = [pc EXCEPT ![r] = "flock"] BY <4>1, <4>3
      <4>4. PersistFails(r) \/ Goto(r, "flock") BY <3>9, Zenon DEF WriteMirror
      <4> QED BY <4>2, <4>3, <4>4
    <3>10. CASE LockFails(r) BY <3>10, PersistEnds DEF LockFails
    <3>11. CASE Cleanup(r) BY <3>11 DEF Cleanup, Exit
    <3>12. CASE DropGuard(r) BY <3>12 DEF DropGuard
    <3>13. CASE MainFails(r) BY <3>13 DEF MainFails, Exit
    <3> QED BY <1>5, <3>1, <3>2, <3>3, <3>4, <3>5, <3>6, <3>7, <3>8, <3>9, <3>10,
               <3>11, <3>12, <3>13 DEF Step
  <2> QED BY <1>1, <2>1 DEF index
<1> QED BY <1>2, <1>3, <1>4, <1>5

LEMMA InvStep ==
    ASSUME Inv, PersistenceAssumption, [Next]_vars PROVE Inv'
<1>1. CASE UNCHANGED vars
    BY <1>1 DEF vars, files, index, Inv, TypeOK, Progress, Locking, Evidence, Saved, HasLine
<1>2. ASSUME NEW r \in Runs, Step(r) \/ LockFails(r) \/ Die(r) PROVE Inv'
  <2>1. TypeOK' BY <1>2, TypeStep DEF Inv
  <2>2. ASSUME NEW q \in Runs PROVE Progress(q)'
    <3>1. CASE q = r BY <1>2, <3>1, ProgressStep
    <3>2. CASE q # r BY <1>2, <3>2, StepIsLocal, ProgressStays DEF Inv
    <3> QED BY <3>1, <3>2
  <2>3. ASSUME NEW q \in Runs PROVE Locking(q)' BY <1>2, LockingStep
  <2> QED BY <2>1, <2>2, <2>3 DEF Inv
<1> QED BY <1>1, <1>2 DEF Next, Done

LEMMA InvInit == ASSUME PersistenceAssumption, Init PROVE Inv
<1>0. lines \in Seq(Line) BY DEF Init
<1>1. TypeOK BY <1>0 DEF Init, TypeOK, Reports
<1>2. ASSUME NEW r \in Runs PROVE Progress(r) /\ Locking(r)
    BY <1>2 DEF Init, Progress, Locking, Reporting, Published, Locked
<1> QED BY <1>1, <1>2 DEF Inv

(* The invariant holds whatever fails, whoever dies, and in any order.     *)
THEOREM Invariance == Spec => []Inv
<1>1. Init => Inv BY InvInit, PersistenceAssumption
<1>2. Inv /\ [Next]_vars => Inv' BY InvStep, PersistenceAssumption
<1> QED BY <1>1, <1>2, PTL DEF Spec

(* The types of the variables.                                             *)
THEOREM TypeCorrect == Spec => []TypeOK
<1>1. Inv => TypeOK BY DEF Inv
<1> QED BY <1>1, Invariance, PTL

(* RunRootGuard: a run root is removed only when the run's report is on    *)
(* disk and, if the run is saved, in the history.                          *)
THEOREM EvidenceOutlives == Spec => []RootOutlivesEvidence
<1>1. Inv => RootOutlivesEvidence
  <2> SUFFICES ASSUME Inv, NEW r \in Runs, root[r] = "removed" PROVE Recorded(r)
      BY DEF RootOutlivesEvidence
  <2>1. Evidence(r) BY DEF Inv, Progress
  <2> QED BY <2>1 DEF Evidence, Recorded, HasLine
<1> QED BY <1>1, Invariance, PTL

(* run: a suite exit code is given only for a final report that is on disk *)
(* and, if the run is saved, in the history.                               *)
THEOREM ExitIsRecorded == Spec => []SuiteCodeIsRecorded
<1>1. Inv => SuiteCodeIsRecorded
  <2> SUFFICES ASSUME Inv, NEW r \in Runs, exit[r] = "suite"
               PROVE  /\ report[r] = "final"
                      /\ r \in Saves => \E k \in 1 .. Len(lines) :
                              lines[k].run = r /\ lines[k].report = "final"
      BY DEF SuiteCodeIsRecorded
  <2>1. Evidence(r) /\ why[r] = "final" BY DEF Inv, Progress
  <2> QED BY <2>1 DEF Evidence, HasLine
<1> QED BY <1>1, Invariance, PTL

-----------------------------------------------------------------------------
(* Before a run has written its line it has none.  A pillar or a storage   *)
(* run never comes back to where it is about to write one.                 *)
Early == {"new", "inner", "diagnose", "provisional", "finalize", "persist",
          "mirror", "flock", "read", "write"}

NoLineYet(r) ==
    Kind[r] # "matrix" /\ pc[r] \in Early => \A k \in 1 .. Len(lines) : lines[k].run # r

OneInv == OneLinePerRun /\ \A r \in Runs : NoLineYet(r)

\* The ends of persist_report of a run that is not of the matrix.
LEMMA PersistLeaves ==
    ASSUME TypeOK, NEW r \in Runs, Kind[r] # "matrix", Persisted(r) \/ PersistFails(r)
    PROVE  pc'[r] \notin Early
BY DEF TypeOK, Persisted, PersistFails, Goto, Report, Early

LEMMA EarlyComesFirst ==
    ASSUME TypeOK, NEW r \in Runs, Step(r) \/ LockFails(r) \/ Die(r),
           Kind[r] # "matrix", pc'[r] \in Early
    PROVE  pc[r] \in Early /\ UNCHANGED lines
<1> USE DEF TypeOK, At, Goto, Early
<1>1. CASE NewRoot(r) BY <1>1 DEF NewRoot, index
<1>2. CASE WorkloadEnds(r) BY <1>2 DEF WorkloadEnds, Report, index
<1>3. CASE WorkloadFails(r) BY <1>3 DEF WorkloadFails, Report, index
<1>4. CASE DeadlinePasses(r) BY <1>4 DEF DeadlinePasses, Report, index
<1>5. CASE Diagnose(r) BY <1>5 DEF Diagnose, index
<1>6. CASE WriteProvisional(r) BY <1>6 DEF WriteProvisional, Report, index
<1>7. CASE Finalize(r) BY <1>7 DEF Finalize, Report, index
<1>8. CASE WriteBundle(r) BY <1>8 DEF WriteBundle, index
<1>9. CASE WriteMirror(r) BY <1>9 DEF WriteMirror, index
<1>10. CASE TakeLock(r) BY <1>10 DEF TakeLock
<1>11. CASE LockFails(r) BY <1>11 DEF LockFails, index
<1>12. CASE ReadIndex(r) BY <1>12 DEF ReadIndex
<1>13. CASE WriteLine(r)
  <2>1. CASE Goto(r, "sync") BY <2>1
  <2>2. CASE PersistFails(r) BY <2>2, PersistLeaves
  <2> QED BY <1>13, <2>1, <2>2 DEF WriteLine
<1>14. CASE SyncLine(r) BY <1>14, PersistLeaves DEF SyncLine
<1>15. CASE Cleanup(r) BY <1>15 DEF Cleanup, Exit
<1>16. CASE DropGuard(r) BY <1>16 DEF DropGuard
<1>17. CASE MainFails(r) BY <1>17 DEF MainFails, Exit
<1>18. CASE Die(r) BY <1>18 DEF Die, Exit
<1> QED
    BY <1>1, <1>2, <1>3, <1>4, <1>5, <1>6, <1>7, <1>8, <1>9, <1>10, <1>11,
       <1>12, <1>13, <1>14, <1>15, <1>16, <1>17, <1>18 DEF Step

LEMMA OnlyWritersWrite ==
    ASSUME NEW r \in Runs, Step(r) \/ LockFails(r) \/ Die(r)
    PROVE  \/ UNCHANGED lines
           \/ pc[r] = "write" /\ lines' = Append(lines, NewLine(r))
<1>1. CASE WriteLine(r) BY <1>1 DEF WriteLine, At
<1>2. CASE Die(r) BY <1>2 DEF Die, At
<1>3. CASE ~WriteLine(r) /\ ~Die(r)
    BY <1>3 DEF Step, NewRoot, WorkloadEnds, WorkloadFails, DeadlinePasses, Diagnose,
       WriteProvisional, Finalize, WriteBundle, WriteMirror, TakeLock, LockFails,
       ReadIndex, SyncLine, Cleanup, DropGuard, MainFails, index
<1> QED BY <1>1, <1>2, <1>3

LEMMA OneStep ==
    ASSUME TypeOK, OneInv, NEW r \in Runs, Step(r) \/ LockFails(r) \/ Die(r)
    PROVE  OneInv'
<1>0. Others(r) BY StepIsLocal
<1>1. CASE UNCHANGED lines
  <2>1. OneLinePerRun' BY <1>1 DEF OneInv, OneLinePerRun
  <2>2. ASSUME NEW q \in Runs PROVE NoLineYet(q)'
    <3>1. CASE q = r BY <1>1, <3>1, EarlyComesFirst DEF OneInv, NoLineYet
    <3>2. CASE q # r BY <1>0, <1>1, <3>2 DEF Others, OneInv, NoLineYet
    <3> QED BY <3>1, <3>2
  <2> QED BY <2>1, <2>2 DEF OneInv
<1>2. CASE pc[r] = "write" /\ lines' = Append(lines, NewLine(r))
  <2>0. lines \in Seq(Line) /\ NewLine(r) \in Line BY LineTyped DEF TypeOK
  <2>1. /\ Len(lines) \in Nat /\ Len(lines') = Len(lines) + 1
        /\ lines'[Len(lines) + 1].run = r
        /\ \A k \in 1 .. Len(lines) : lines'[k] = lines[k]
      BY <1>2, <2>0 DEF NewLine
  <2>2. Kind[r] # "matrix" => \A k \in 1 .. Len(lines) : lines[k].run # r
      BY <1>2 DEF OneInv, NoLineYet, Early
  <2>3. OneLinePerRun'
    <3> SUFFICES ASSUME NEW j \in 1 .. Len(lines'), NEW k \in 1 .. Len(lines'),
                        lines'[j].run = lines'[k].run, Kind[lines'[j].run] # "matrix"
                 PROVE  j = k
        BY DEF OneLinePerRun
    <3>1. CASE j \in 1 .. Len(lines) /\ k \in 1 .. Len(lines)
        BY <2>1, <3>1 DEF OneInv, OneLinePerRun
    <3>2. CASE j = Len(lines) + 1 /\ k \in 1 .. Len(lines) BY <2>1, <2>2, <3>2
    <3>3. CASE k = Len(lines) + 1 /\ j \in 1 .. Len(lines) BY <2>1, <2>2, <3>3
    <3> QED BY <2>1, <3>1, <3>2, <3>3
  <2>4. ASSUME NEW q \in Runs PROVE NoLineYet(q)'
    <3>1. CASE q = r
      <4>1. lines' # lines BY <2>1
      <4> QED BY <3>1, <4>1, EarlyComesFirst DEF NoLineYet
    <3>2. CASE q # r BY <1>0, <2>1, <3>2 DEF Others, OneInv, NoLineYet
    <3> QED BY <3>1, <3>2
  <2> QED BY <2>3, <2>4 DEF OneInv
<1> QED BY <1>1, <1>2, OnlyWritersWrite

(* persist_report: a pillar or a storage run leaves at most one line in    *)
(* the history, whichever of its steps fails.                              *)
THEOREM OneLineEach == Spec => []OneLinePerRun
<1>1. Init => OneInv BY DEF Init, OneInv, OneLinePerRun, NoLineYet
<1>2. ASSUME TypeOK, OneInv, [Next]_vars PROVE OneInv'
  <2>1. CASE UNCHANGED vars
      BY <1>2, <2>1 DEF vars, index, OneInv, OneLinePerRun, NoLineYet
  <2>2. CASE \E r \in Runs : Step(r) \/ LockFails(r) \/ Die(r) BY <1>2, <2>2, OneStep
  <2> QED BY <1>2, <2>1, <2>2 DEF Next, Done
<1>3. OneInv => OneLinePerRun BY DEF OneInv
<1> QED BY <1>1, <1>2, <1>3, TypeCorrect, PTL DEF Spec

-----------------------------------------------------------------------------
(* What a step does to the index.                                          *)
LEMMA IndexStep ==
    ASSUME Inv, NEW r \in Runs, Step(r) \/ LockFails(r) \/ Die(r)
    PROVE  \/ UNCHANGED <<lines, torn>>
           \/ ~torn /\ torn' = TRUE /\ UNCHANGED lines
           \/ ~torn /\ UNCHANGED torn /\ occ[r] = Len(lines) + 1
              /\ lines' = Append(lines, NewLine(r))
<1>1. CASE WriteLine(r)
  <2>1. ~torn /\ occ[r] = Len(lines) + 1 BY <1>1 DEF WriteLine, At, Inv, Locking
  <2> QED BY <1>1, <2>1 DEF WriteLine
<1>2. CASE Die(r)
  <2>1. At(r, "write") => ~torn /\ occ[r] = Len(lines) + 1 BY DEF At, Inv, Locking
  <2> QED BY <1>2, <2>1 DEF Die
<1>3. CASE ~WriteLine(r) /\ ~Die(r)
    BY <1>3 DEF Step, NewRoot, WorkloadEnds, WorkloadFails, DeadlinePasses, Diagnose,
       WriteProvisional, Finalize, WriteBundle, WriteMirror, TakeLock, LockFails,
       ReadIndex, SyncLine, Cleanup, DropGuard, MainFails, index
<1> QED BY <1>1, <1>2, <1>3

(* append_index: the shared index implements an append-only history whose  *)
(* lines are numbered in order, however many processes append to it.       *)
THEOREM ImplementsHistory == Spec => HistorySpec
<1> DEFINE Entry(x) == [run |-> x.run, occurrence |-> x.occurrence]
           H == [k \in 1 .. Len(lines) |-> Entry(lines[k])]
<1>1. Init => History!Init
  <2> SUFFICES ASSUME Init PROVE H = <<>> /\ torn = FALSE BY DEF History!Init
  <2>1. 1 .. Len(lines) = {} BY DEF Init
  <2> QED BY <2>1 DEF Init
<1>2. ASSUME Inv, [Next]_vars PROVE [History!Next]_<<H, torn>>
  <2>1. CASE UNCHANGED <<lines, torn>> BY <2>1
  <2>2. ASSUME NEW r \in Runs, Step(r) \/ LockFails(r) \/ Die(r)
        PROVE  [History!Next]_<<H, torn>>
    <3>1. CASE ~torn /\ torn' = TRUE /\ UNCHANGED lines
        BY <3>1 DEF History!Next, History!Tear
    <3>2. CASE ~torn /\ UNCHANGED torn /\ occ[r] = Len(lines) + 1
               /\ lines' = Append(lines, NewLine(r))
      <4> DEFINE e == [run |-> r, occurrence |-> Len(H) + 1]
      <4>1. lines \in Seq(Line) /\ NewLine(r) \in Line
          BY <1>2, LineTyped DEF Inv, TypeOK
      <4>2. Len(lines) \in Nat /\ Len(H) = Len(lines) BY <4>1
      <4>3. Entry(NewLine(r)) = e BY <3>2, <4>2 DEF NewLine
      <4>4. H' = Append(H, e)
        <5>1. Len(lines') = Len(lines) + 1 /\ lines'[Len(lines) + 1] = NewLine(r)
            BY <3>2, <4>1
        <5>2. \A k \in 1 .. Len(lines) : lines'[k] = lines[k] BY <3>2, <4>1
        <5> QED BY <4>2, <4>3, <5>1, <5>2
      <4>5. History!AddLine(r) BY <3>2, <4>4 DEF History!AddLine
      <4> QED BY <4>5 DEF History!Next
    <3> QED BY <1>2, <2>1, <2>2, <3>1, <3>2, IndexStep
  <2> QED BY <1>2, <2>1, <2>2 DEF Next, Done, vars, index
<1> QED BY <1>1, <1>2, Invariance, PTL DEF Spec, HistorySpec, History!Spec

=============================================================================
