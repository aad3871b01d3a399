---------------------------- MODULE RowTimingProofs ----------------------------
(***************************************************************************)
(* Theorems about the row clocks for any number of rows, sessions, drivers *)
(* and collections.                                                        *)
(***************************************************************************)
EXTENDS RowTiming, FiniteSetTheorems, TLAPS

HasClock(d, s) == clocks[<<d, s>>] # NoClock

Awaited(d, s) == HasClock(d, s) /\ clocks[<<d, s>>].pending

\* Rows that Ledger::complete may have closed.
Completed == {r \in Recovering : over}

\* A session has at most one clock, which counts for all of its rows.
OneClock ==
    /\ \A s \in Sessions : \A d \in Drivers : HasClock(d, s) =>
          /\ clocks[<<d, s>>].rows = Work[s]
          /\ at[s] # NoDriver
          /\ \A e \in Drivers : HasClock(e, s) => e = d
    /\ \A s \in Sessions : at[s] = NoDriver => s \notin due

\* The clocks that run are those of the sessions that were not answered.
ClocksFollowDue ==
    \A s \in Sessions : Work[s] \cap Completed = {} =>
        (s \in due <=> \E d \in Drivers : Awaited(d, s))

\* What is known of a row's clock when it does not run.
RowAtRest(r) ==
    /\ bounds[r].submitted /\ ~Pending(r) =>
          /\ bounds[r].end # NoTime
          /\ r \notin Completed => bounds[r].end = heard[r]
    /\ ~bounds[r].submitted =>
          IF r \in scope THEN bounds[r].finished = NoTime
                         ELSE bounds[r].end # NoTime

RowsAtRest == \A r \in Launched : RowAtRest(r)

Inv == TypeOK /\ OneClock /\ ClocksFollowDue /\ RowsAtRest

-----------------------------------------------------------------------------
(* Types.                                                                  *)

\* The ledger starts empty.
LEMMA TypesHoldFirst ==
    Init => TypeOK
<1> SUFFICES ASSUME Init PROVE TypeOK
  OBVIOUS
<1>1. MaxTime \in Nat /\ MaxTurns \in Nat
  BY TimingAssumption
<1>2. clocks \in [Drivers \X Sessions -> Clock \cup {NoClock}]
  BY DEF Init
<1>3. \A k \in DOMAIN clocks : clocks[k] = NoClock
  BY DEF Init
<1>4. now = 0 /\ scope = {} /\ over = FALSE /\ due = {}
  BY DEF Init
<1>5. turns \in [Sessions -> 0 .. MaxTurns]
  BY <1>1 DEF Init
<1>6. /\ bounds \in [Rows -> Bounds \cup {NoBounds}] /\ heard \in [Rows -> Times]
      /\ at \in [Sessions -> Drivers \cup {NoDriver}]
  BY DEF Init, Times
<1>7. now \in 0 .. MaxTime
  BY <1>1, <1>4
<1>8. scope \in Collections \cup {{}} /\ over \in BOOLEAN
  BY <1>4
<1>9. due \subseteq Sessions /\ \A r \in scope : bounds[r] # NoBounds
  BY <1>4
<1>10. QED
  BY <1>2, <1>3, <1>5, <1>6, <1>7, <1>8, <1>9 DEF TypeOK

\* What a submission makes of a row's bounds.
LEMMA ReopenType ==
    ASSUME NEW b \in Bounds \cup {NoBounds}, now \in Nat
    PROVE  Reopen(b) \in Bounds /\ Reopen(b).submitted /\ Reopen(b).end = NoTime
           /\ Reopen(b) # NoBounds
<1>1. Reopen(b) \in Bounds /\ Reopen(b).submitted /\ Reopen(b).end = NoTime
  <2>1. CASE b \in Bounds /\ b.submitted
    BY <2>1 DEF Reopen, Bounds, Times
  <2>2. CASE ~(b \in Bounds /\ b.submitted)
    <3>1. Reopen(b) = [start |-> now, end |-> NoTime, submitted |-> TRUE,
                       finished |-> NoTime]
      BY <2>2 DEF Reopen
    <3>2. QED
      BY <3>1 DEF Bounds, Times
  <2>3. QED
    BY <2>1, <2>2
<1>2. QED
  BY <1>1, TimingAssumption

\* No row loses its bounds or is unsubmitted, and no clock gets new rows.
BoundsGrow ==
    /\ bounds' \in [Rows -> Bounds \cup {NoBounds}]
    /\ \A r \in Rows : bounds[r] # NoBounds =>
          bounds'[r] # NoBounds /\ (bounds[r].submitted => bounds'[r].submitted)

ClocksKept ==
    /\ clocks' \in [Drivers \X Sessions -> Clock \cup {NoClock}]
    /\ \A k \in Drivers \X Sessions : clocks'[k] # NoClock =>
          \E j \in Drivers \X Sessions :
             clocks[j] # NoClock /\ clocks'[k].rows = clocks[j].rows

\* Then what TypeOK says of two variables together still holds.
LEMMA StaysSubmitted ==
    ASSUME TypeOK, BoundsGrow, ClocksKept
    PROVE  \A k \in DOMAIN clocks' : clocks'[k] # NoClock =>
              \A r \in clocks'[k].rows : bounds'[r] # NoBounds /\ bounds'[r].submitted
<1> SUFFICES ASSUME NEW k \in Drivers \X Sessions, clocks'[k] # NoClock,
                    NEW r \in clocks'[k].rows
             PROVE  bounds'[r] # NoBounds /\ bounds'[r].submitted
  BY DEF ClocksKept
<1>1. PICK j \in Drivers \X Sessions :
         clocks[j] # NoClock /\ clocks'[k].rows = clocks[j].rows
  BY DEF ClocksKept
<1>2. r \in Rows /\ bounds[r] # NoBounds /\ bounds[r].submitted
  BY <1>1 DEF TypeOK, Clock
<1>3. QED
  BY <1>2 DEF BoundsGrow

\* Every step keeps the types.
LEMMA TypeStep ==
    ASSUME TypeOK, [Next]_vars
    PROVE  TypeOK'
<1>1. now \in Nat
  BY TimingAssumption DEF TypeOK
<1>2. CASE Tick \/ UNCHANGED vars
  BY <1>2, TimingAssumption DEF Tick, TypeOK, vars, ledger, truth
<1>3. CASE CloseRows
  <2>1. \A r \in Rows : bounds[r] \in Bounds \cup {NoBounds} /\ (r \in scope => bounds[r] \in Bounds)
    BY DEF TypeOK
  <2>2. ASSUME NEW r \in Rows
        PROVE  /\ bounds'[r] \in Bounds \cup {NoBounds}
               /\ bounds[r] # NoBounds =>
                     bounds'[r] # NoBounds /\ bounds'[r].submitted = bounds[r].submitted
    <3>1. CASE r \in scope
      <4>1. bounds'[r] = [bounds[r] EXCEPT !.finished = now,
                                   !.end = IF bounds[r].submitted THEN @ ELSE now]
        BY <1>3, <3>1 DEF CloseRows
      <4>2. bounds'[r] \in Bounds /\ bounds'[r].submitted = bounds[r].submitted
        BY <1>1, <2>1, <3>1, <4>1 DEF Bounds, Times
      <4>3. NoBounds \notin Bounds
        BY TimingAssumption
      <4>4. bounds'[r] # NoBounds
        BY <4>2, <4>3
      <4>5. QED
        BY <4>2, <4>4
    <3>2. CASE r \notin scope
      BY <1>3, <2>1, <3>2 DEF CloseRows
    <3>3. QED
      BY <3>1, <3>2
  <2>3. bounds' \in [Rows -> Bounds \cup {NoBounds}]
    BY <1>3, <2>2 DEF CloseRows
  <2>4. \A r \in Rows : bounds[r] # NoBounds =>
           bounds'[r] # NoBounds /\ bounds'[r].submitted = bounds[r].submitted
    BY <2>2
  <2>5. /\ scope' = {} /\ UNCHANGED <<now, clocks, over, at, truth>>
    BY <1>3 DEF CloseRows
  <2>6. (\A k \in DOMAIN clocks : clocks[k] # NoClock =>
          \A r \in clocks[k].rows : bounds[r] # NoBounds /\ bounds[r].submitted)'
    <3>1. ASSUME NEW k \in DOMAIN clocks, clocks[k] # NoClock, NEW r \in clocks[k].rows
          PROVE  bounds'[r] # NoBounds /\ bounds'[r].submitted
      <4>1. r \in Rows
        BY <3>1 DEF TypeOK, Clock
      <4>2. bounds[r] # NoBounds /\ bounds[r].submitted
        BY <3>1 DEF TypeOK
      <4>3. QED
        BY <2>4, <4>1, <4>2
    <3>2. QED
      BY <2>5, <3>1
  <2>7. QED
    BY <2>3, <2>5, <2>6 DEF TypeOK, truth
<1>4. ASSUME NEW c \in Collections, OpenRows(c)
      PROVE  TypeOK'
  <2>1. \A r \in c : r \in Rows /\ bounds[r] = NoBounds
    BY <1>4, TimingAssumption DEF OpenRows
  <2>2. [start |-> now, end |-> NoTime, submitted |-> FALSE, finished |-> NoTime] \in Bounds
    BY <1>1 DEF Bounds, Times
  <2>3. BoundsGrow /\ \A r \in c : bounds'[r] # NoBounds
    BY <1>4, <2>1, <2>2, TimingAssumption DEF OpenRows, TypeOK, BoundsGrow
  <2>4. ClocksKept
    BY <1>4 DEF OpenRows, TypeOK, ClocksKept
  <2>5. QED
    BY <1>4, <2>3, <2>4, StaysSubmitted DEF OpenRows, TypeOK, BoundsGrow, ClocksKept, truth
<1>5. ASSUME NEW s \in Sessions, Observe(s)
      PROVE  TypeOK'
  <2> DEFINE hit == {k \in KeysFor(at[s], s) : clocks[k].pending}
             rows == UNION {clocks[k].rows : k \in hit}
  <2>0. at[s] \in Drivers /\ hit \subseteq DOMAIN clocks
    BY <1>5 DEF Observe, KeysFor, PendingKeys, TypeOK
  <2>1. bounds' = [r \in Rows |-> IF r \in rows THEN [bounds[r] EXCEPT !.end = now]
                                                ELSE bounds[r]]
    BY <1>5 DEF Observe
  <2>2. clocks' = [k \in DOMAIN clocks |->
           IF k \in hit THEN [clocks[k] EXCEPT !.pending = FALSE] ELSE clocks[k]]
    BY <1>5 DEF Observe
  <2>3. \A k \in hit : clocks[k] # NoClock
    BY DEF KeysFor, PendingKeys
  <2>4. \A k \in hit \cap DOMAIN clocks : clocks[k] \in Clock
    BY <2>3 DEF TypeOK
  <2>5. ASSUME NEW r \in Rows
        PROVE  /\ bounds'[r] \in Bounds \cup {NoBounds}
               /\ bounds[r] # NoBounds =>
                     bounds'[r] # NoBounds /\ bounds'[r].submitted = bounds[r].submitted
    <3>1. CASE r \in rows
      <4>1. PICK k \in hit : r \in clocks[k].rows
        BY <3>1
      <4>2. k \in DOMAIN clocks
        BY <2>0
      <4>3. bounds[r] \in Bounds
        BY <2>3, <4>1, <4>2 DEF TypeOK
      <4>4. bounds'[r] = [bounds[r] EXCEPT !.end = now]
        BY <2>1, <3>1
      <4>5. bounds'[r] \in Bounds /\ bounds'[r].submitted = bounds[r].submitted
        BY <1>1, <4>3, <4>4 DEF Bounds, Times
      <4>6. QED
        BY <4>5, TimingAssumption
    <3>2. CASE r \notin rows
      BY <2>1, <3>2 DEF TypeOK
    <3>3. QED
      BY <3>1, <3>2
  <2>6. BoundsGrow
    BY <2>1, <2>5 DEF BoundsGrow
  <2>7. ClocksKept
    <3>1. ASSUME NEW k \in Drivers \X Sessions
          PROVE  /\ clocks'[k] \in Clock \cup {NoClock}
                 /\ clocks'[k] # NoClock =>
                       clocks[k] # NoClock /\ clocks'[k].rows = clocks[k].rows
      <4>1. CASE k \in hit
        BY <2>2, <2>3, <2>4, <4>1 DEF TypeOK, Clock
      <4>2. CASE k \notin hit
        BY <2>2, <4>2 DEF TypeOK
      <4>3. QED
        BY <4>1, <4>2
    <3>2. QED
      BY <2>2, <3>1 DEF ClocksKept, TypeOK
  <2>8. heard' \in [Rows -> Times] /\ due' \subseteq Sessions
    BY <1>1, <1>5 DEF Observe, TypeOK, Times
  <2>9. UNCHANGED <<now, scope, over, at, turns>>
    BY <1>5 DEF Observe
  <2>10. \A r \in scope' : bounds'[r] # NoBounds
    BY <2>6, <2>9, TimingAssumption DEF BoundsGrow, TypeOK
  <2>11. QED
    BY <2>6, <2>7, <2>8, <2>9, <2>10, StaysSubmitted DEF TypeOK, BoundsGrow, ClocksKept
<1>6. ASSUME NEW s \in Sessions, NEW d \in Drivers, Submit(d, s)
      PROVE  TypeOK'
  <2>1. bounds' \in [Rows -> Bounds \cup {NoBounds}]
    BY <1>1, <1>6, ReopenType DEF Submit, TypeOK
  <2>2. clocks' \in [Drivers \X Sessions -> Clock \cup {NoClock}]
    BY <1>6, TimingAssumption DEF Submit, TypeOK, Clock
  <2>3. \A r \in Rows : bounds'[r] = IF r \in Work[s] THEN Reopen(bounds[r]) ELSE bounds[r]
    BY <1>6 DEF Submit
  <2>4. ASSUME NEW k \in DOMAIN clocks', clocks'[k] # NoClock, NEW r \in clocks'[k].rows
        PROVE  bounds'[r] # NoBounds /\ bounds'[r].submitted
    <3>1. k \in Drivers \X Sessions /\ r \in Rows
      BY <2>2, <2>4 DEF Clock
    <3>2. CASE r \in Work[s]
      BY <1>1, <2>3, <3>1, <3>2, ReopenType DEF TypeOK
    <3>3. CASE r \notin Work[s]
      <4>1. clocks'[k] = IF k = <<d, s>> THEN [rows |-> Work[s], pending |-> TRUE]
                                         ELSE clocks[k]
        BY <1>6, <3>1 DEF Submit, TypeOK
      <4>2. clocks'[k] = clocks[k]
        BY <2>4, <3>3, <4>1
      <4>3. QED
        BY <2>3, <2>4, <3>1, <3>3, <4>2 DEF TypeOK
    <3>4. QED
      BY <3>2, <3>3
  <2>5. at' \in [Sessions -> Drivers \cup {NoDriver}] /\ turns' \in [Sessions -> 0 .. MaxTurns]
    BY <1>6, TimingAssumption DEF Submit, TypeOK
  <2>6. \A r \in scope' : bounds'[r] # NoBounds
    BY <1>1, <1>6, <2>3, ReopenType, TimingAssumption DEF Submit, TypeOK
  <2>7. due' \subseteq Sessions /\ heard' \in [Rows -> Times] /\ now' \in 0 .. MaxTime
        /\ scope' \in Collections \cup {{}} /\ over' \in BOOLEAN
    BY <1>6 DEF Submit, TypeOK
  <2>8. QED
    BY <2>1, <2>2, <2>4, <2>5, <2>6, <2>7 DEF TypeOK
<1>7. ASSUME NEW d \in Drivers, NEW e \in Drivers, Rebind(d, e)
      PROVE  TypeOK'
  <2>1. BoundsGrow
    BY <1>7 DEF Rebind, TypeOK, BoundsGrow
  <2>2. clocks' = [k \in Drivers \X Sessions |->
           IF k[1] = e THEN clocks[<<d, k[2]>>]
           ELSE IF k[1] = d THEN NoClock ELSE clocks[k]]
    BY <1>7 DEF Rebind, TypeOK
  <2>3. ClocksKept
    BY <2>2 DEF ClocksKept, TypeOK
  <2>4. QED
    BY <1>7, <2>1, <2>3, StaysSubmitted
       DEF Rebind, MoveSessions, TypeOK, BoundsGrow, ClocksKept, truth
<1>8. ASSUME NEW d \in Drivers, NEW e \in Drivers, Replace(d, e)
      PROVE  TypeOK'
  BY <1>8 DEF Replace, MoveSessions, TypeOK, ledger, truth
<1>9. ASSUME NEW r \in Rows, Finish(r)
      PROVE  TypeOK'
  <2>1. bounds[r] \in Bounds
    BY <1>9 DEF Finish, TypeOK
  <2>2. bounds' = [bounds EXCEPT ![r] = [bounds[r] EXCEPT !.finished = now]]
    BY <1>9 DEF Finish
  <2>3. /\ [bounds[r] EXCEPT !.finished = now] \in Bounds
        /\ [bounds[r] EXCEPT !.finished = now].submitted = bounds[r].submitted
    BY <1>1, <2>1 DEF Bounds, Times
  <2>4. [bounds[r] EXCEPT !.finished = now] # NoBounds
    BY <2>3, TimingAssumption
  <2>5. QED
    BY <1>9, <2>2, <2>3, <2>4 DEF Finish, TypeOK, Clock, truth
<1>10. ASSUME NEW completed \in SUBSET Recovering, EndTopLevel(completed)
       PROVE  TypeOK'
  <2>1. ASSUME NEW r \in Rows
        PROVE  /\ bounds'[r] \in Bounds \cup {NoBounds}
               /\ bounds[r] # NoBounds =>
                     bounds'[r] # NoBounds /\ bounds'[r].submitted = bounds[r].submitted
    <3>1. CASE r \in completed /\ bounds[r] # NoBounds
      <4>1. bounds[r] \in Bounds
        BY <3>1 DEF TypeOK
      <4>2. bounds'[r] = [bounds[r] EXCEPT !.end = now, !.finished = now]
        BY <1>10, <3>1 DEF EndTopLevel
      <4>3. bounds'[r] \in Bounds /\ bounds'[r].submitted = bounds[r].submitted
        BY <1>1, <4>1, <4>2 DEF Bounds, Times
      <4>4. QED
        BY <4>3, TimingAssumption
    <3>2. CASE ~(r \in completed /\ bounds[r] # NoBounds)
      BY <1>10, <3>2 DEF EndTopLevel, TypeOK
    <3>3. QED
      BY <3>1, <3>2
  <2>2. BoundsGrow
    BY <1>10, <2>1 DEF EndTopLevel, BoundsGrow
  <2>3. ASSUME NEW k \in Drivers \X Sessions
        PROVE  /\ clocks'[k] \in Clock \cup {NoClock}
               /\ clocks'[k] # NoClock =>
                     clocks[k] # NoClock /\ clocks'[k].rows = clocks[k].rows
    BY <1>10 DEF EndTopLevel, Retire, TypeOK, Clock
  <2>4. ClocksKept
    BY <1>10, <2>3 DEF EndTopLevel, TypeOK, ClocksKept
  <2>5. QED
    BY <1>10, <2>2, <2>4, StaysSubmitted
       DEF EndTopLevel, TypeOK, BoundsGrow, ClocksKept, truth
<1>11. QED
  BY <1>2, <1>3, <1>4, <1>5, <1>6, <1>7, <1>8, <1>9, <1>10 DEF Next

-----------------------------------------------------------------------------
(* The invariant.                                                          *)

\* It holds of an empty ledger.
LEMMA InvFirst ==
    Init => Inv
<1> SUFFICES ASSUME Init PROVE Inv
  OBVIOUS
<1>1. TypeOK
  BY TypesHoldFirst
<1>2. \A d \in Drivers, s \in Sessions : ~HasClock(d, s)
  BY DEF Init, HasClock
<1>3. Launched = {} /\ due = {}
  BY DEF Init, Launched
<1>4. QED
  BY <1>1, <1>2, <1>3 DEF Inv, OneClock, ClocksFollowDue, RowsAtRest, Awaited

\* Steps that leave the session clocks alone.
LEMMA QuietStep ==
    ASSUME Inv, TypeOK', UNCHANGED <<clocks, due, over, heard>>,
           \A s \in Sessions : at'[s] = NoDriver => at[s] = NoDriver,
           \A r \in Launched' : RowAtRest(r)'
    PROVE  Inv'
<1>1. OneClock'
  BY DEF Inv, OneClock, HasClock
<1>2. ClocksFollowDue'
  BY DEF Inv, ClocksFollowDue, HasClock, Awaited, Completed
<1>3. QED
  BY <1>1, <1>2 DEF Inv, RowsAtRest

\* A collection that starts or ends.
LEMMA ScopeStep ==
    ASSUME Inv, TypeOK', CloseRows \/ \E c \in Collections : OpenRows(c)
    PROVE  Inv'
<1>0. now \in Nat /\ NoTime \notin Nat
  BY TimingAssumption DEF Inv, TypeOK
<1>1. UNCHANGED <<clocks, due, over, heard, at>>
  BY DEF CloseRows, OpenRows, truth
<1>2. \A r \in Rows : Pending(r)' <=> Pending(r)
  BY <1>1 DEF Pending
<1>3. ASSUME NEW r \in Launched'
      PROVE  RowAtRest(r)'
  <2>1. r \in Rows
    BY DEF Launched
  <2>2. CASE CloseRows
    <3>1. bounds[r] \in Bounds /\ RowAtRest(r)
      BY <2>1, <2>2 DEF CloseRows, Launched, Inv, TypeOK, RowsAtRest
    <3>2. CASE r \in scope
      <4>1. bounds'[r] = [bounds[r] EXCEPT !.finished = now,
                                   !.end = IF bounds[r].submitted THEN @ ELSE now]
        BY <2>1, <2>2, <3>2 DEF CloseRows
      <4>2. /\ bounds'[r].submitted = bounds[r].submitted
            /\ bounds'[r].end = IF bounds[r].submitted THEN bounds[r].end ELSE now
        BY <3>1, <4>1 DEF Bounds
      <4>3. scope' = {} /\ heard' = heard
        BY <1>1, <2>2 DEF CloseRows
      <4>4. CASE bounds[r].submitted
        BY <1>2, <2>1, <3>1, <4>2, <4>3, <1>1, <4>4 DEF RowAtRest, Completed
      <4>5. CASE ~bounds[r].submitted
        <5>1. ~bounds'[r].submitted /\ bounds'[r].end # NoTime /\ r \notin scope'
          BY <1>0, <4>2, <4>3, <4>5
        <5>2. QED
          BY <5>1 DEF RowAtRest
      <4>6. QED
        BY <4>4, <4>5
    <3>3. CASE r \notin scope
      <4>1. bounds'[r] = bounds[r] /\ r \notin scope'
        BY <2>1, <2>2, <3>3 DEF CloseRows
      <4>2. QED
        BY <1>1, <1>2, <2>1, <3>1, <3>3, <4>1 DEF RowAtRest, Completed
    <3>4. QED
      BY <3>2, <3>3
  <2>3. ASSUME NEW c \in Collections, OpenRows(c)
        PROVE  RowAtRest(r)'
    <3>1. CASE r \in c
      <4>1. bounds'[r] = [start |-> now, end |-> NoTime, submitted |-> FALSE,
                          finished |-> NoTime] /\ r \in scope'
        BY <2>1, <2>3, <3>1 DEF OpenRows
      <4>2. QED
        BY <4>1 DEF RowAtRest
    <3>2. CASE r \notin c
      <4>1. bounds'[r] = bounds[r] /\ r \notin scope' /\ r \notin scope
        BY <2>1, <2>3, <3>2 DEF OpenRows
      <4>2. RowAtRest(r)
        BY <2>1, <4>1 DEF Launched, Inv, RowsAtRest
      <4>3. QED
        BY <1>1, <1>2, <2>1, <4>1, <4>2 DEF RowAtRest, Completed
    <3>3. QED
      BY <3>1, <3>2
  <2>4. QED
    BY <2>2, <2>3
<1>4. QED
  BY <1>1, <1>3, QuietStep

\* A row that times out.
LEMMA FinishStep ==
    ASSUME Inv, TypeOK', NEW q \in Rows, Finish(q)
    PROVE  Inv'
<1>1. UNCHANGED <<clocks, due, over, heard, at, scope>> /\ scope = {}
  BY DEF Finish, truth
<1>2. \A r \in Rows : Pending(r)' <=> Pending(r)
  BY <1>1 DEF Pending
<1>3. ASSUME NEW r \in Launched'
      PROVE  RowAtRest(r)'
  <2>1. r \in Rows /\ bounds[q] \in Bounds
    BY DEF Launched, Finish, Inv, TypeOK
  <2>2. bounds' = [bounds EXCEPT ![q] = [bounds[q] EXCEPT !.finished = now]]
    BY DEF Finish
  <2>3. /\ bounds[r] # NoBounds /\ bounds'[r].submitted = bounds[r].submitted
        /\ bounds'[r].end = bounds[r].end
    BY <2>1, <2>2 DEF Launched, Inv, TypeOK, Finish, Bounds
  <2>4. RowAtRest(r)
    BY <2>1, <2>3 DEF Inv, RowsAtRest, Launched
  <2>5. QED
    BY <1>1, <1>2, <2>1, <2>3, <2>4 DEF RowAtRest, Completed
<1>4. QED
  BY <1>1, <1>3, QuietStep

\* A row's clock runs as long as a session that works for it is awaited.
LEMMA PendingWork ==
    ASSUME TypeOK, OneClock, NEW r \in Rows
    PROVE  Pending(r) <=> \E d \in Drivers, s \in Sessions : Awaited(d, s) /\ r \in Work[s]
<1>1. \A d \in Drivers, s \in Sessions :
         Awaited(d, s) => clocks[<<d, s>>].rows = Work[s]
  BY DEF OneClock, Awaited
<1>2. ASSUME Pending(r)
      PROVE  \E d \in Drivers, s \in Sessions : Awaited(d, s) /\ r \in Work[s]
  <2>1. PICK k \in Drivers \X Sessions :
           clocks[k] # NoClock /\ clocks[k].pending /\ r \in clocks[k].rows
    BY <1>2 DEF Pending, TypeOK
  <2>2. PICK d \in Drivers, s \in Sessions : k = <<d, s>>
    OBVIOUS
  <2>3. QED
    BY <1>1, <2>1, <2>2 DEF Awaited, HasClock
<1>3. ASSUME NEW d \in Drivers, NEW s \in Sessions, Awaited(d, s), r \in Work[s]
      PROVE  Pending(r)
  <2>1. <<d, s>> \in DOMAIN clocks
    BY DEF TypeOK
  <2>2. QED
    BY <1>1, <1>3, <2>1 DEF Pending, Awaited, HasClock
<1>4. QED
  BY <1>2, <1>3

\* So it runs on while the same sessions are awaited.
LEMMA RowsPending ==
    ASSUME TypeOK, OneClock, TypeOK', OneClock', NEW r \in Rows,
           \A s \in Sessions : r \in Work[s] =>
              ((\E d \in Drivers : Awaited(d, s)') <=> \E d \in Drivers : Awaited(d, s))
    PROVE  Pending(r)' <=> Pending(r)
<1>1. Pending(r) <=> \E d \in Drivers, s \in Sessions : Awaited(d, s) /\ r \in Work[s]
  BY PendingWork
<1>2. Pending(r)' <=> \E d \in Drivers, s \in Sessions : Awaited(d, s)' /\ r \in Work[s]
  <2>1. \A d \in Drivers, s \in Sessions :
           Awaited(d, s)' => clocks'[<<d, s>>].rows = Work[s]
    BY DEF OneClock, Awaited
  <2>2. ASSUME Pending(r)'
        PROVE  \E d \in Drivers, s \in Sessions : Awaited(d, s)' /\ r \in Work[s]
    <3>1. PICK k \in Drivers \X Sessions :
             clocks'[k] # NoClock /\ clocks'[k].pending /\ r \in clocks'[k].rows
      BY <2>2 DEF Pending, TypeOK
    <3>2. PICK d \in Drivers, s \in Sessions : k = <<d, s>>
      OBVIOUS
    <3>3. QED
      BY <2>1, <3>1, <3>2 DEF Awaited, HasClock
  <2>3. ASSUME NEW d \in Drivers, NEW s \in Sessions, Awaited(d, s)', r \in Work[s]
        PROVE  Pending(r)'
    <3>1. <<d, s>> \in DOMAIN clocks'
      BY DEF TypeOK
    <3>2. QED
      BY <2>1, <2>3, <3>1 DEF Pending, Awaited, HasClock
  <2>4. QED
    BY <2>2, <2>3
<1>3. QED
  BY <1>1, <1>2

\* A submission: its rows run, others do not notice.
LEMMA SubmitStep ==
    ASSUME Inv, TypeOK', NEW d \in Drivers, NEW s \in Sessions, Submit(d, s)
    PROVE  Inv'
<1>1. /\ clocks' = [clocks EXCEPT ![<<d, s>>] = [rows |-> Work[s], pending |-> TRUE]]
      /\ clocks \in [Drivers \X Sessions -> Clock \cup {NoClock}]
  BY DEF Submit, Inv, TypeOK
<1>2. /\ at' = [at EXCEPT ![s] = d] /\ at \in [Sessions -> Drivers \cup {NoDriver}]
      /\ due' = due \cup {s} /\ UNCHANGED <<scope, over, heard>>
      /\ at[s] \in {d, NoDriver} /\ (at[s] = d => clocks[<<d, s>>] # NoClock)
  BY DEF Submit, Inv, TypeOK
<1>3. d # NoDriver /\ [rows |-> Work[s], pending |-> TRUE] # NoClock
  <2>1. [rows |-> Work[s], pending |-> TRUE] \in Clock
    BY TimingAssumption DEF Clock
  <2>2. QED
    BY <2>1, TimingAssumption
<1>4. clocks'[<<d, s>>] = [rows |-> Work[s], pending |-> TRUE]
  BY <1>1
<1>5. \A k \in Drivers \X Sessions : k # <<d, s>> => clocks'[k] = clocks[k]
  BY <1>1
<1>6. \A e \in Drivers : HasClock(e, s) => e = d
  BY <1>2 DEF Inv, OneClock, HasClock
<1>7. OneClock'
  <2>1. ASSUME NEW t \in Sessions, NEW e \in Drivers, HasClock(e, t)'
        PROVE  /\ clocks'[<<e, t>>].rows = Work[t]
               /\ at'[t] # NoDriver
               /\ \A f \in Drivers : HasClock(f, t)' => f = e
    <3>1. CASE t = s
      BY <1>2, <1>3, <1>4, <1>5, <1>6, <2>1, <3>1 DEF HasClock
    <3>2. CASE t # s
      <4>1. at'[t] = at[t] /\ \A f \in Drivers : clocks'[<<f, t>>] = clocks[<<f, t>>]
        BY <1>2, <1>5, <3>2
      <4>2. QED
        BY <2>1, <4>1 DEF Inv, OneClock, HasClock
    <3>3. QED
      BY <3>1, <3>2
  <2>2. \A t \in Sessions : at'[t] = NoDriver => t \notin due'
    BY <1>2, <1>3 DEF Inv, OneClock
  <2>3. QED
    BY <2>1, <2>2 DEF OneClock
<1>8. ClocksFollowDue'
  <2>1. Awaited(d, s)'
    BY <1>3, <1>4 DEF Awaited, HasClock
  <2>2. \A t \in Sessions \ {s} : \A e \in Drivers : Awaited(e, t)' <=> Awaited(e, t)
    BY <1>5 DEF Awaited, HasClock
  <2>3. QED
    BY <1>2, <2>1, <2>2 DEF Inv, ClocksFollowDue, Completed
<1>9. ASSUME NEW r \in Launched'
      PROVE  RowAtRest(r)'
  <2>1. r \in Rows /\ bounds'[r] = IF r \in Work[s] THEN Reopen(bounds[r]) ELSE bounds[r]
    BY DEF Launched, Submit
  <2>2. CASE r \in Work[s]
    <3>1. bounds'[r].submitted
      BY <2>1, <2>2, ReopenType DEF Inv, TypeOK
    <3>2. Pending(r)'
      BY <1>1, <1>3, <1>4, <2>2 DEF Pending
    <3>3. QED
      BY <3>1, <3>2 DEF RowAtRest
  <2>3. CASE r \notin Work[s]
    <3>1. bounds'[r] = bounds[r] /\ RowAtRest(r)
      BY <2>1, <2>3 DEF Launched, Inv, RowsAtRest
    <3>2. clocks[<<d, s>>] # NoClock => r \notin clocks[<<d, s>>].rows
      BY <2>3 DEF Inv, OneClock, HasClock
    <3>3. Pending(r)' <=> Pending(r)
      BY <1>1, <1>4, <1>5, <2>3, <3>2 DEF Pending
    <3>4. QED
      BY <1>2, <3>1, <3>3 DEF RowAtRest, Completed
  <2>4. QED
    BY <2>2, <2>3
<1>10. QED
  BY <1>7, <1>8, <1>9 DEF Inv, RowsAtRest

\* A session's driver finds the session's clock if that is running, and no other.
LEMMA KeysAreRight ==
    ASSUME Inv, NEW s \in Sessions, at[s] # NoDriver
    PROVE  \A k \in Drivers \X Sessions :
              k \in {j \in KeysFor(at[s], s) : clocks[j].pending} <=>
                 k[2] = s /\ Awaited(k[1], s)
<1>1. at[s] \in Drivers
  BY DEF Inv, TypeOK
<1>2. ASSUME NEW d \in Drivers, Awaited(d, s)
      PROVE  <<d, s>> \in KeysFor(at[s], s)
  <2>1. \A e \in Drivers : HasClock(e, s) => e = d
    BY <1>2 DEF Inv, OneClock, Awaited
  <2>2. CASE HasClock(at[s], s)
    BY <1>1, <2>1, <2>2 DEF KeysFor, HasClock
  <2>3. CASE ~HasClock(at[s], s)
    <3>1. PendingKeys(s) = {<<d, s>>}
      BY <1>2, <2>1 DEF PendingKeys, Awaited, HasClock
    <3>2. Cardinality(PendingKeys(s)) = 1
      BY <3>1, FS_Singleton
    <3>3. QED
      BY <2>3, <3>1, <3>2 DEF KeysFor, HasClock
  <2>4. QED
    BY <2>2, <2>3
<1>3. ASSUME NEW k \in KeysFor(at[s], s)
      PROVE  k \in Drivers \X Sessions /\ k = <<k[1], s>> /\ clocks[k] # NoClock
  BY <1>1, <1>3 DEF KeysFor, PendingKeys
<1>4. ASSUME NEW k \in Drivers \X Sessions
      PROVE  k \in {j \in KeysFor(at[s], s) : clocks[j].pending} <=>
                 k[2] = s /\ Awaited(k[1], s)
  <2>1. k = <<k[1], k[2]>> /\ k[1] \in Drivers
    OBVIOUS
  <2>2. QED
    BY <1>2, <1>3, <2>1 DEF Awaited, HasClock
<1>5. QED
  BY <1>4

\* What an answer changes.
LEMMA ObserveEffect ==
    ASSUME Inv, NEW s \in Sessions, Observe(s)
    PROVE  /\ s \in due <=> \E d \in Drivers : Awaited(d, s)
           /\ \A r \in Rows : bounds'[r] =
                IF s \in due /\ r \in Work[s] THEN [bounds[r] EXCEPT !.end = now]
                                             ELSE bounds[r]
           /\ \A d \in Drivers, t \in Sessions :
                /\ HasClock(d, t)' <=> HasClock(d, t)
                /\ HasClock(d, t) => clocks'[<<d, t>>].rows = clocks[<<d, t>>].rows
                /\ Awaited(d, t)' <=> Awaited(d, t) /\ t # s
<1> DEFINE hit == {k \in KeysFor(at[s], s) : clocks[k].pending}
           rows == UNION {clocks[k].rows : k \in hit}
<1>1. /\ at[s] # NoDriver /\ MayWork(s)
      /\ clocks' = [k \in DOMAIN clocks |->
            IF k \in hit THEN [clocks[k] EXCEPT !.pending = FALSE] ELSE clocks[k]]
      /\ bounds' = [r \in Rows |->
            IF r \in rows THEN [bounds[r] EXCEPT !.end = now] ELSE bounds[r]]
      /\ due' = due \ {s}
      /\ heard' = [r \in Rows |-> IF s \in due /\ r \in Work[s] THEN now ELSE heard[r]]
      /\ UNCHANGED <<now, scope, over, at, turns>>
  BY DEF Observe
<1>2. /\ clocks \in [Drivers \X Sessions -> Clock \cup {NoClock}]
      /\ heard \in [Rows -> Times] /\ now \in Nat /\ NoTime \notin Nat
  BY TimingAssumption DEF Inv, TypeOK
<1>3. \A k \in Drivers \X Sessions : k \in hit <=> k[2] = s /\ Awaited(k[1], s)
  BY <1>1, KeysAreRight
<1>4. hit \subseteq Drivers \X Sessions
  BY <1>1 DEF KeysFor, PendingKeys, Inv, TypeOK
<1>5. Work[s] \cap Completed = {}
  BY <1>1, TimingAssumption DEF MayWork, Completed
<1>6. s \in due <=> \E d \in Drivers : Awaited(d, s)
  BY <1>5 DEF Inv, ClocksFollowDue
<1>7. \A k \in hit : clocks[k] \in Clock /\ clocks[k].rows = Work[s]
  <2>1. ASSUME NEW k \in hit
        PROVE  clocks[k] \in Clock /\ clocks[k].rows = Work[s]
    <3>1. k \in Drivers \X Sessions
      BY <1>4
    <3>2. k[2] = s /\ HasClock(k[1], s)
      BY <1>3, <3>1 DEF Awaited
    <3>3. k = <<k[1], s>> /\ k[1] \in Drivers
      BY <3>1, <3>2
    <3>4. QED
      BY <1>2, <3>2, <3>3 DEF Inv, OneClock, HasClock
  <2>2. QED
    BY <2>1
<1>8. rows = IF s \in due THEN Work[s] ELSE {}
  <2>1. CASE s \in due
    <3>1. PICK d \in Drivers : Awaited(d, s)
      BY <1>6, <2>1
    <3>2. <<d, s>> \in hit
      BY <1>3, <3>1
    <3>3. QED
      BY <1>7, <2>1, <3>2
  <2>2. CASE s \notin due
    <3>1. hit = {}
      BY <1>3, <1>4, <1>6, <2>2
    <3>2. QED
      BY <2>2, <3>1
  <2>3. QED
    BY <2>1, <2>2
<1>9. ASSUME NEW k \in Drivers \X Sessions
      PROVE  /\ clocks'[k] # NoClock <=> clocks[k] # NoClock
             /\ clocks[k] # NoClock => clocks'[k].rows = clocks[k].rows
             /\ k \notin hit => clocks'[k] = clocks[k]
             /\ k \in hit => ~clocks'[k].pending
  <2>1. CASE k \in hit
    <3>1. clocks'[k] = [clocks[k] EXCEPT !.pending = FALSE]
      BY <1>1, <1>2, <2>1
    <3>2. /\ clocks'[k] \in Clock /\ clocks'[k].rows = clocks[k].rows
          /\ ~clocks'[k].pending
      BY <1>7, <2>1, <3>1 DEF Clock
    <3>3. QED
      BY <1>7, <2>1, <3>2, TimingAssumption
  <2>2. CASE k \notin hit
    BY <1>1, <1>2, <2>2
  <2>3. QED
    BY <2>1, <2>2
<1>10. \A d \in Drivers, t \in Sessions : Awaited(d, t)' <=> Awaited(d, t) /\ t # s
  <2>1. ASSUME NEW d \in Drivers, NEW t \in Sessions
        PROVE  Awaited(d, t)' <=> Awaited(d, t) /\ t # s
    <3>1. <<d, t>> \in Drivers \X Sessions /\ <<d, t>>[1] = d /\ <<d, t>>[2] = t
      OBVIOUS
    <3>2. <<d, t>> \in hit <=> t = s /\ Awaited(d, s)
      BY <1>3, <3>1
    <3>3. CASE <<d, t>> \in hit
      BY <1>9, <3>1, <3>2, <3>3 DEF Awaited, HasClock
    <3>4. CASE <<d, t>> \notin hit
      <4>1. clocks'[<<d, t>>] = clocks[<<d, t>>]
        BY <1>9, <3>1, <3>4
      <4>2. ~(t = s /\ Awaited(d, t))
        BY <3>2, <3>4
      <4>3. QED
        BY <4>1, <4>2 DEF Awaited, HasClock
    <3>5. QED
      BY <3>3, <3>4
  <2>2. QED
    BY <2>1
<1>11. \A d \in Drivers, t \in Sessions :
          /\ HasClock(d, t)' <=> HasClock(d, t)
          /\ HasClock(d, t) => clocks'[<<d, t>>].rows = clocks[<<d, t>>].rows
  <2>1. ASSUME NEW d \in Drivers, NEW t \in Sessions
        PROVE  /\ clocks'[<<d, t>>] # NoClock <=> clocks[<<d, t>>] # NoClock
               /\ clocks[<<d, t>>] # NoClock =>
                     clocks'[<<d, t>>].rows = clocks[<<d, t>>].rows
    <3>1. <<d, t>> \in Drivers \X Sessions
      OBVIOUS
    <3>2. QED
      BY <1>9, <3>1
  <2>2. QED
    BY <2>1 DEF HasClock
<1>12. \A r \in Rows : r \in rows <=> s \in due /\ r \in Work[s]
  BY <1>8
<1>13. \A r \in Rows : bounds'[r] =
          IF s \in due /\ r \in Work[s] THEN [bounds[r] EXCEPT !.end = now] ELSE bounds[r]
  <2> HIDE DEF rows
  <2>1. \A r \in Rows :
           bounds'[r] = IF r \in rows THEN [bounds[r] EXCEPT !.end = now] ELSE bounds[r]
    BY <1>1
  <2>2. QED
    BY <1>12, <2>1
<1>14. QED
  BY <1>6, <1>10, <1>11, <1>13

\* A terminal that is received, for the first time or again.
LEMMA ObserveStep ==
    ASSUME Inv, TypeOK', NEW s \in Sessions, Observe(s)
    PROVE  Inv'
<1>1. /\ due' = due \ {s} /\ UNCHANGED <<scope, over, at>>
      /\ \A r \in Rows : heard'[r] = IF s \in due /\ r \in Work[s] THEN now ELSE heard[r]
      /\ now \in Nat /\ NoTime \notin Nat
  <2>1. now \in Nat /\ NoTime \notin Nat
    BY TimingAssumption DEF Inv, TypeOK
  <2>2. QED
    BY <2>1 DEF Observe
<1>2. OneClock'
  <2>1. OneClock
    BY DEF Inv
  <2>2. \A d \in Drivers, t \in Sessions :
           /\ HasClock(d, t)' <=> HasClock(d, t)
           /\ HasClock(d, t) => clocks'[<<d, t>>].rows = clocks[<<d, t>>].rows
    BY ObserveEffect
  <2>3. ASSUME NEW t \in Sessions, NEW d \in Drivers, HasClock(d, t)'
        PROVE  /\ clocks'[<<d, t>>].rows = Work[t] /\ at'[t] # NoDriver
               /\ \A e \in Drivers : HasClock(e, t)' => e = d
    <3>1. HasClock(d, t) /\ clocks'[<<d, t>>].rows = clocks[<<d, t>>].rows
      BY <2>2, <2>3
    <3>2. clocks[<<d, t>>].rows = Work[t] /\ at[t] # NoDriver
      BY <2>1, <3>1 DEF OneClock
    <3>3. \A e \in Drivers : HasClock(e, t) => e = d
      BY <2>1, <3>1 DEF OneClock
    <3> QED
      BY <1>1, <2>2, <3>1, <3>2, <3>3
  <2>4. \A t \in Sessions : at'[t] = NoDriver => t \notin due'
    BY <1>1, <2>1 DEF OneClock
  <2> QED
    BY <2>3, <2>4 DEF OneClock
<1>3. ClocksFollowDue'
  <2> SUFFICES ASSUME NEW t \in Sessions, Work[t] \cap Completed = {}
               PROVE  t \in due' <=> \E d \in Drivers : Awaited(d, t)'
    BY <1>1 DEF ClocksFollowDue, Completed
  <2>1. t \in due <=> \E d \in Drivers : Awaited(d, t)
    BY DEF Inv, ClocksFollowDue
  <2>2. \A d \in Drivers : Awaited(d, t)' <=> Awaited(d, t) /\ t # s
    BY ObserveEffect
  <2>3. t \in due' <=> t \in due /\ t # s
    BY <1>1
  <2> QED
    BY <2>1, <2>2, <2>3
<1>4. ASSUME NEW r \in Launched'
      PROVE  RowAtRest(r)'
  <2>1. r \in Rows
    BY DEF Launched
  <2>2. CASE s \in due /\ r \in Work[s]
    <3>1. PICK d \in Drivers : Awaited(d, s)
      BY <2>2, ObserveEffect
    <3>2. r \in clocks[<<d, s>>].rows /\ clocks[<<d, s>>] # NoClock
          /\ <<d, s>> \in DOMAIN clocks
      BY <2>2, <3>1 DEF Inv, TypeOK, OneClock, Awaited, HasClock
    <3>3. bounds[r] \in Bounds /\ bounds[r].submitted
      BY <2>1, <3>2 DEF Inv, TypeOK
    <3>4. bounds'[r] = [bounds[r] EXCEPT !.end = now]
      BY <2>1, <2>2, ObserveEffect
    <3>5. bounds'[r].submitted /\ bounds'[r].end = now
      BY <3>3, <3>4 DEF Bounds
    <3>6. QED
      BY <1>1, <2>1, <2>2, <3>5 DEF RowAtRest
  <2>3. CASE ~(s \in due /\ r \in Work[s])
    <3>1. bounds'[r] = bounds[r] /\ heard'[r] = heard[r]
      BY <1>1, <2>1, <2>3, ObserveEffect
    <3>2. RowAtRest(r)
      BY <2>1, <3>1 DEF Launched, Inv, RowsAtRest
    <3>3. Pending(r)' <=> Pending(r)
      BY <1>2, <2>1, <2>3, ObserveEffect, RowsPending DEF Inv
    <3>4. QED
      BY <1>1, <3>1, <3>2, <3>3 DEF RowAtRest, Completed
  <2>4. QED
    BY <2>2, <2>3
<1>5. QED
  BY <1>2, <1>3, <1>4 DEF Inv, RowsAtRest

\* A recovery moves the clocks of one driver to another that has none.
LEMMA RebindEffect ==
    ASSUME Inv, NEW d \in Drivers, NEW e \in Drivers, Rebind(d, e)
    PROVE  /\ d # e /\ \A t \in Sessions : ~HasClock(e, t)
           /\ \A f \in Drivers, t \in Sessions :
                 clocks'[<<f, t>>] = IF f = e THEN clocks[<<d, t>>]
                                     ELSE IF f = d THEN NoClock ELSE clocks[<<f, t>>]
           /\ \A t \in Sessions :
                 (\E f \in Drivers : Awaited(f, t)') <=> \E f \in Drivers : Awaited(f, t)
<1>1. /\ clocks \in [Drivers \X Sessions -> Clock \cup {NoClock}]
      /\ clocks' = [k \in Drivers \X Sessions |->
            IF k[1] = e THEN clocks[<<d, k[2]>>]
            ELSE IF k[1] = d THEN NoClock ELSE clocks[k]]
  BY DEF Rebind, Inv, TypeOK
<1>2. d # e /\ \A t \in Sessions : ~HasClock(e, t)
  BY DEF Rebind, Unused, HasClock
<1>3. \A f \in Drivers, t \in Sessions :
         clocks'[<<f, t>>] = IF f = e THEN clocks[<<d, t>>]
                             ELSE IF f = d THEN NoClock ELSE clocks[<<f, t>>]
  BY <1>1
<1>4. ASSUME NEW t \in Sessions
      PROVE  (\E f \in Drivers : Awaited(f, t)') <=> \E f \in Drivers : Awaited(f, t)
  BY <1>2, <1>3 DEF Awaited, HasClock
<1>5. QED
  BY <1>2, <1>3, <1>4

\* A recovery of the main driver.
LEMMA RebindStep ==
    ASSUME Inv, TypeOK', NEW d \in Drivers, NEW e \in Drivers, Rebind(d, e)
    PROVE  Inv'
<1>1. UNCHANGED <<bounds, scope, over, due, heard>>
  BY DEF Rebind, truth
<1>2. \A t \in Sessions : at'[t] = NoDriver => at[t] = NoDriver
  BY TimingAssumption DEF Rebind, MoveSessions
<1>3. OneClock'
  <2> DEFINE From(f) == IF f = e THEN d ELSE f
  <2>1. ASSUME NEW t \in Sessions, NEW f \in Drivers, HasClock(f, t)'
        PROVE  /\ From(f) \in Drivers /\ HasClock(From(f), t) /\ f # d
               /\ clocks'[<<f, t>>] = clocks[<<From(f), t>>]
    <3>1. /\ d # e
          /\ clocks'[<<f, t>>] = IF f = e THEN clocks[<<d, t>>]
                                 ELSE IF f = d THEN NoClock ELSE clocks[<<f, t>>]
      BY RebindEffect
    <3>2. clocks'[<<f, t>>] # NoClock
      BY <2>1 DEF HasClock
    <3>3. CASE f = e
      BY <3>1, <3>2, <3>3 DEF HasClock
    <3>4. CASE f # e
      BY <3>1, <3>2, <3>4 DEF HasClock
    <3>5. QED
      BY <3>3, <3>4
  <2> HIDE DEF From
  <2>2. ASSUME NEW t \in Sessions, NEW f \in Drivers, HasClock(f, t)'
        PROVE  /\ clocks'[<<f, t>>].rows = Work[t]
               /\ at'[t] # NoDriver
    <3>1. PICK g \in Drivers : HasClock(g, t) /\ clocks'[<<f, t>>] = clocks[<<g, t>>]
      BY <2>1, <2>2
    <3>2. clocks[<<g, t>>].rows = Work[t] /\ at[t] # NoDriver
      BY <3>1 DEF Inv, OneClock
    <3>3. QED
      BY <1>2, <3>1, <3>2
  <2>3. ASSUME NEW t \in Sessions, NEW f \in Drivers, NEW g \in Drivers,
               HasClock(f, t)', HasClock(g, t)'
        PROVE  g = f
    <3>1. /\ From(f) \in Drivers /\ HasClock(From(f), t) /\ f # d
          /\ From(g) \in Drivers /\ HasClock(From(g), t) /\ g # d
      BY <2>1, <2>3
    <3>2. From(g) = From(f)
      BY <3>1 DEF Inv, OneClock
    <3>3. QED
      BY <3>1, <3>2 DEF From
  <2>4. \A t \in Sessions : at'[t] = NoDriver => t \notin due'
    BY <1>1, <1>2 DEF Inv, OneClock
  <2>5. QED
    BY <2>2, <2>3, <2>4 DEF OneClock
<1>4. ClocksFollowDue'
  BY <1>1, RebindEffect DEF Inv, ClocksFollowDue, Completed
<1>5. \A r \in Rows : Pending(r)' <=> Pending(r)
  BY <1>3, RebindEffect, RowsPending DEF Inv
<1>6. \A r \in Launched' : RowAtRest(r)'
  BY <1>1, <1>5 DEF Inv, RowsAtRest, RowAtRest, Launched, Completed
<1>7. QED
  BY <1>3, <1>4, <1>6 DEF Inv, RowsAtRest

\* What the end of the top level changes: only rows that are completed.
LEMMA EndEffect ==
    ASSUME Inv, NEW completed \in SUBSET Recovering, EndTopLevel(completed)
    PROVE  \A f \in Drivers, t \in Sessions :
              /\ HasClock(f, t)' <=> HasClock(f, t)
              /\ HasClock(f, t) => clocks'[<<f, t>>].rows = clocks[<<f, t>>].rows
              /\ Work[t] \cap completed = {} => (Awaited(f, t)' <=> Awaited(f, t))
<1>1. /\ clocks \in [Drivers \X Sessions -> Clock \cup {NoClock}]
      /\ now \in Nat /\ NoTime \notin Nat
      /\ scope = {} /\ over' = TRUE /\ UNCHANGED <<scope, at, due, heard>>
  <2>1. clocks \in [Drivers \X Sessions -> Clock \cup {NoClock}]
    BY DEF Inv, TypeOK
  <2>2. now \in Nat /\ NoTime \notin Nat
    BY TimingAssumption DEF Inv, TypeOK
  <2>3. scope = {} /\ over' = TRUE /\ UNCHANGED <<scope, at, due, heard>>
    BY DEF EndTopLevel, truth
  <2>4. QED
    BY <2>1, <2>2, <2>3
<1>2. ASSUME NEW k \in Drivers \X Sessions
      PROVE  /\ clocks'[k] # NoClock <=> clocks[k] # NoClock
             /\ clocks[k] # NoClock => clocks'[k].rows = clocks[k].rows
             /\ clocks[k] # NoClock /\ clocks[k].rows \cap completed = {} =>
                   (clocks'[k].pending <=> clocks[k].pending)
  <2>1. CASE clocks[k] # NoClock /\ completed # {}
    <3>1. clocks'[k] = [clocks[k] EXCEPT !.pending =
                           clocks[k].pending /\ clocks[k].rows \cap completed = {}]
      BY <1>1, <2>1 DEF EndTopLevel, Retire
    <3>2. clocks[k] \in Clock
      BY <1>1, <2>1
    <3>3. /\ clocks'[k] \in Clock /\ clocks'[k].rows = clocks[k].rows
          /\ clocks'[k].pending =
                (clocks[k].pending /\ clocks[k].rows \cap completed = {})
      BY <3>1, <3>2 DEF Clock
    <3>4. QED
      BY <2>1, <3>3, TimingAssumption
  <2>2. CASE ~(clocks[k] # NoClock /\ completed # {})
    BY <1>1, <2>2 DEF EndTopLevel
  <2>3. QED
    BY <2>1, <2>2
<1>3. \A k \in Drivers \X Sessions : clocks[k] # NoClock => clocks[k].rows = Work[k[2]]
  BY DEF Inv, OneClock, HasClock
<1>4. QED
  BY <1>2, <1>3 DEF HasClock, Awaited

\* The end of the top level, with the rows it completes.
LEMMA EndStep ==
    ASSUME Inv, TypeOK', NEW completed \in SUBSET Recovering, EndTopLevel(completed)
    PROVE  Inv'
<1>1. scope = {} /\ over' = TRUE /\ UNCHANGED <<scope, at, due, heard>>
  BY DEF EndTopLevel, truth
<1>2. now \in Nat /\ NoTime \notin Nat
  BY TimingAssumption DEF Inv, TypeOK
<1>3. OneClock'
  BY <1>1, EndEffect DEF Inv, OneClock
<1>4. ClocksFollowDue'
  <2>1. ASSUME NEW t \in Sessions, Work[t] \cap Completed' = {}
        PROVE  t \in due' <=> \E f \in Drivers : Awaited(f, t)'
    <3>1. Work[t] \cap completed = {} /\ Work[t] \cap Completed = {}
      BY <1>1, <2>1 DEF Completed
    <3>2. QED
      BY <1>1, <3>1, EndEffect DEF Inv, ClocksFollowDue
  <2>2. QED
    BY <2>1 DEF ClocksFollowDue
<1>5. ASSUME NEW r \in Launched'
      PROVE  RowAtRest(r)'
  <2>1. r \in Rows /\ bounds'[r] # NoBounds
    BY DEF Launched
  <2>2. bounds'[r] = IF r \in completed /\ bounds[r] # NoBounds
                     THEN [bounds[r] EXCEPT !.end = now, !.finished = now] ELSE bounds[r]
    BY <2>1 DEF EndTopLevel
  <2>3. bounds[r] \in Bounds /\ RowAtRest(r)
    BY <2>1, <2>2 DEF Inv, TypeOK, RowsAtRest, Launched
  <2>4. CASE r \in completed
    <3>1. bounds'[r] = [bounds[r] EXCEPT !.end = now, !.finished = now]
      BY <2>2, <2>3, <2>4, TimingAssumption
    <3>2. bounds'[r].end # NoTime /\ r \in Completed' /\ r \notin scope'
      BY <1>1, <1>2, <2>3, <2>4, <3>1 DEF Bounds, Completed
    <3>3. QED
      BY <3>2 DEF RowAtRest
  <2>5. CASE r \notin completed
    <3>1. bounds'[r] = bounds[r]
      BY <2>2, <2>5
    <3>2. \A t \in Sessions : r \in Work[t] => Work[t] \cap completed = {}
      BY <2>5, TimingAssumption
    <3>3. Pending(r)' <=> Pending(r)
      BY <1>3, <2>1, <3>2, EndEffect, RowsPending DEF Inv
    <3>4. QED
      BY <1>1, <2>3, <3>1, <3>3 DEF RowAtRest, Completed
  <2>6. QED
    BY <2>4, <2>5
<1>6. QED
  BY <1>3, <1>4, <1>5 DEF Inv, RowsAtRest

\* Every step keeps the invariant.
LEMMA InvStep ==
    Inv /\ [Next]_vars => Inv'
<1> SUFFICES ASSUME Inv, [Next]_vars
             PROVE  Inv'
  OBVIOUS
<1>1. TypeOK'
  BY TypeStep DEF Inv
<1>2. CASE Tick \/ UNCHANGED vars \/ \E d, e \in Drivers : Replace(d, e)
  <2>1. UNCHANGED <<bounds, clocks, scope, due, over, heard>>
    BY <1>2 DEF Tick, Replace, vars, ledger, truth
  <2>2. \A s \in Sessions : at'[s] = NoDriver => at[s] = NoDriver
    BY <1>2, TimingAssumption DEF Tick, Replace, MoveSessions, vars, Drivers
  <2>3. \A r \in Launched' : RowAtRest(r)'
    BY <2>1 DEF Inv, RowsAtRest, RowAtRest, Launched, Pending, Completed
  <2>4. QED
    BY <1>1, <2>1, <2>2, <2>3, QuietStep
<1>3. CASE CloseRows \/ \E c \in Collections : OpenRows(c)
  BY <1>1, <1>3, ScopeStep
<1>4. ASSUME NEW s \in Sessions, Observe(s) \/ \E d \in Drivers : Submit(d, s)
      PROVE  Inv'
  BY <1>1, <1>4, ObserveStep, SubmitStep
<1>5. ASSUME NEW d \in Drivers, NEW e \in Drivers, Rebind(d, e)
      PROVE  Inv'
  BY <1>1, <1>5, RebindStep
<1>6. ASSUME NEW r \in Rows, Finish(r)
      PROVE  Inv'
  BY <1>1, <1>6, FinishStep
<1>7. ASSUME NEW completed \in SUBSET Recovering, EndTopLevel(completed)
      PROVE  Inv'
  BY <1>1, <1>7, EndStep
<1>8. QED
  BY <1>2, <1>3, <1>4, <1>5, <1>6, <1>7 DEF Next

-----------------------------------------------------------------------------
(* The theorems.                                                           *)

\* The invariant holds in every behaviour.
LEMMA InvAlways ==
    Spec => []Inv
BY InvFirst, InvStep, PTL DEF Spec

(* Every variable has its type, and session clocks belong to submitted     *)
(* rows (submitted, observed, rebind_driver, complete).                    *)
THEOREM TypeCorrect ==
    Spec => []TypeOK
<1>1. Inv => TypeOK
  BY DEF Inv
<1>2. QED
  BY <1>1, InvAlways, PTL

(* A finished row's clock stands still (rows, Ledger::finish, apply).      *)
THEOREM FinishedStandStill ==
    Spec => []FinishedRowsStandStill
<1>1. ASSUME Inv, NEW r \in Launched, bounds[r].finished # NoTime
      PROVE  Reading(r) # NoTime
  <2>1. CASE Pending(r)
    BY <1>1, <2>1 DEF Reading
  <2>2. CASE ~Pending(r)
    <3>1. RowAtRest(r)
      BY <1>1 DEF Inv, RowsAtRest
    <3>2. bounds[r].end # NoTime
      BY <1>1, <2>2, <3>1 DEF RowAtRest
    <3>3. QED
      BY <2>2, <3>2 DEF Reading
  <2>3. QED
    BY <2>1, <2>2
<1>2. Inv => FinishedRowsStandStill
  BY <1>1 DEF FinishedRowsStandStill
<1>3. QED
  BY <1>2, InvAlways, PTL

(* A row's label says whether all its submissions were answered, and its   *)
(* clock stands at the last answer, whichever driver received it, unless   *)
(* Ledger::complete has closed it (submitted, observed, rebind_driver).    *)
THEOREM LabelsFollowAnswers ==
    Spec => []LabelFollowsAnswers
<1>1. ASSUME Inv, NEW r \in Launched \ {q \in Recovering : over}, bounds[r].submitted
      PROVE  /\ Label(r) = "submit-to-terminal" <=> ~Unanswered(r)
             /\ ~Unanswered(r) => Reading(r) = heard[r]
  <2>1. r \notin Completed /\ RowAtRest(r)
    BY <1>1 DEF Inv, RowsAtRest, Completed
  <2>2. Pending(r) <=> Unanswered(r)
    <3>1. \A s \in Sessions : r \in Work[s] => Work[s] \cap Completed = {}
      BY <2>1, TimingAssumption DEF Completed
    <3>2. Pending(r) <=> \E d \in Drivers, s \in Sessions : Awaited(d, s) /\ r \in Work[s]
      BY <1>1, PendingWork DEF Inv, Launched
    <3>3. \A s \in Sessions : r \in Work[s] => (s \in due <=> \E d \in Drivers : Awaited(d, s))
      BY <1>1, <3>1 DEF Inv, ClocksFollowDue
    <3>4. due \subseteq Sessions
      BY <1>1 DEF Inv, TypeOK
    <3>5. QED
      BY <3>2, <3>3, <3>4 DEF Unanswered
  <2>3. CASE Pending(r)
    BY <1>1, <2>2, <2>3 DEF Label
  <2>4. CASE ~Pending(r)
    <3>1. bounds[r].end # NoTime /\ bounds[r].end = heard[r]
      BY <1>1, <2>1, <2>4 DEF RowAtRest
    <3>2. Label(r) = "submit-to-terminal"
      BY <1>1, <2>4, <3>1 DEF Label
    <3>3. QED
      BY <2>2, <2>4, <3>1, <3>2 DEF Reading
  <2>5. QED
    BY <2>3, <2>4
<1>2. Inv => LabelFollowsAnswers
  BY <1>1 DEF LabelFollowsAnswers
<1>3. QED
  BY <1>2, InvAlways, PTL

\* A row whose bounds and pending sessions are the same reads the same.
LEMMA SameReading ==
    ASSUME NEW r \in Rows, bounds'[r] = bounds[r], Pending(r)' <=> Pending(r)
    PROVE  Reading(r)' = Reading(r)
BY DEF Reading

\* A step that is not a row's own work leaves its clock where it stands.
LEMMA OwnWorkStep ==
    ASSUME Inv, Inv', [Next]_vars, NEW r \in Launched, ~OwnWork(r), Reading(r) # NoTime
    PROVE  Reading(r)' = Reading(r)
<1>0. r \in Rows /\ bounds[r] # NoBounds /\ bounds[r] \in Bounds
  BY DEF Launched, Inv, TypeOK
<1>1. CASE Tick \/ UNCHANGED vars \/ \E d, e \in Drivers : Replace(d, e)
  <2>1. UNCHANGED <<bounds, clocks>>
    BY <1>1 DEF Tick, Replace, vars, ledger
  <2>2. QED
    BY <2>1 DEF Reading, Pending
<1>2. CASE CloseRows
  <2>1. clocks' = clocks /\ bounds'[r] = bounds[r]
    BY <1>0, <1>2 DEF CloseRows, OwnWork
  <2>2. QED
    BY <1>0, <2>1, SameReading DEF Pending
<1>3. ASSUME NEW c \in Collections, OpenRows(c)
      PROVE  Reading(r)' = Reading(r)
  <2>1. clocks' = clocks /\ bounds'[r] = bounds[r]
    BY <1>0, <1>3 DEF OpenRows
  <2>2. QED
    BY <1>0, <2>1, SameReading DEF Pending
<1>4. ASSUME NEW s \in Sessions, Observe(s)
      PROVE  Reading(r)' = Reading(r)
  <2>1. ~(s \in due /\ r \in Work[s])
    BY <1>4 DEF Observe, OwnWork
  <2>2. bounds'[r] = bounds[r]
    BY <1>0, <1>4, <2>1, ObserveEffect
  <2>3. Pending(r)' <=> Pending(r)
    BY <1>0, <1>4, <2>1, ObserveEffect, RowsPending DEF Inv
  <2>4. QED
    BY <1>0, <2>2, <2>3, SameReading
<1>5. ASSUME NEW s \in Sessions, NEW d \in Drivers, Submit(d, s)
      PROVE  Reading(r)' = Reading(r)
  <2>1. turns'[s] # turns[s]
    <3>1. turns[s] \in Nat /\ turns'[s] = turns[s] + 1
      BY <1>5, TimingAssumption DEF Submit, Inv, TypeOK
    <3>2. QED
      BY <3>1
  <2>2. r \notin Work[s]
    BY <2>1 DEF OwnWork
  <2>3. bounds'[r] = bounds[r]
    BY <1>0, <1>5, <2>2 DEF Submit
  <2>4. \A t \in Sessions : r \in Work[t] =>
           \A e \in Drivers : Awaited(e, t)' <=> Awaited(e, t)
    BY <1>5, <2>2 DEF Submit, Inv, TypeOK, Awaited, HasClock
  <2>5. Pending(r)' <=> Pending(r)
    BY <1>0, <2>4, RowsPending DEF Inv
  <2>6. QED
    BY <1>0, <2>3, <2>5, SameReading
<1>6. ASSUME NEW d \in Drivers, NEW e \in Drivers, Rebind(d, e)
      PROVE  Reading(r)' = Reading(r)
  <2>1. bounds'[r] = bounds[r]
    BY <1>6 DEF Rebind
  <2>2. Pending(r)' <=> Pending(r)
    BY <1>0, <1>6, RebindEffect, RowsPending DEF Inv
  <2>3. QED
    BY <1>0, <2>1, <2>2, SameReading
<1>7. ASSUME NEW q \in Rows, Finish(q)
      PROVE  Reading(r)' = Reading(r)
  <2>1. Pending(r)' <=> Pending(r)
    BY <1>7 DEF Finish, Pending
  <2>2. CASE r # q
    <3>1. bounds'[r] = bounds[r]
      BY <1>0, <1>7, <2>2 DEF Finish
    <3>2. QED
      BY <1>0, <2>1, <3>1, SameReading
  <2>3. CASE r = q
    <3>1. ~Pending(r)
      BY <1>7, <2>3 DEF Finish, Reading
    <3>2. bounds'[r] = [bounds[r] EXCEPT !.finished = now]
      BY <1>0, <1>7, <2>3 DEF Finish, Inv, TypeOK
    <3>3. bounds'[r].end = bounds[r].end
      BY <1>0, <3>2 DEF Bounds
    <3>4. QED
      BY <2>1, <3>1, <3>3 DEF Reading
  <2>4. QED
    BY <2>2, <2>3
<1>8. ASSUME NEW completed \in SUBSET Recovering, EndTopLevel(completed)
      PROVE  Reading(r)' = Reading(r)
  <2>1. r \notin completed
    BY <1>8 DEF EndTopLevel, OwnWork
  <2>2. bounds'[r] = bounds[r]
    BY <1>0, <1>8, <2>1 DEF EndTopLevel
  <2>3. \A t \in Sessions : r \in Work[t] => Work[t] \cap completed = {}
    BY <2>1, TimingAssumption
  <2>4. Pending(r)' <=> Pending(r)
    BY <1>0, <1>8, <2>3, EndEffect, RowsPending DEF Inv
  <2>5. QED
    BY <1>0, <2>2, <2>4, SameReading
<1>9. QED
  BY <1>1, <1>2, <1>3, <1>4, <1>5, <1>6, <1>7, <1>8 DEF Next

(* Only a row's own submissions, first answers, collection and completion  *)
(* move its clock once it has stopped (submitted, observed, rebind_driver, *)
(* complete).                                                              *)
THEOREM OnlyOwnWorkMoves ==
    Spec => OnlyOwnWorkMovesAClock
<1>1. Inv /\ Inv' /\ [Next]_vars =>
         [ \A r \in Launched :
              Reading(r) # NoTime /\ Reading(r)' # Reading(r) => OwnWork(r) ]_vars
  BY OwnWorkStep
<1>2. QED
  BY <1>1, InvAlways, PTL DEF Spec, OnlyOwnWorkMovesAClock
=============================================================================
