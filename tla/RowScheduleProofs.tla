--------------------------- MODULE RowScheduleProofs ---------------------------
(***************************************************************************)
(* Proofs about RowSchedule, for any selection of rows and collections.    *)
(*                                                                         *)
(* Up to the collection nothing is collected, and from it on the sessions  *)
(* it expects do not change (Fixed); the rows the expiry has passed are    *)
(* decided (Expiring).  From these it follows that the collector loses a   *)
(* row only by counting a session twice: sessions that are all different   *)
(* and as many as are expected are all that are expected.                  *)
(***************************************************************************)
EXTENDS RowSchedule, FiniteSetTheorems, FunctionTheorems, TLAPS

Keeps == UNCHANGED vars

LEMMA NextCases ==
    ASSUME [Next]_vars
    PROVE  \/ Ready \/ ResourceEnds \/ LaunchEnds \/ LaunchDone
           \/ \E r \in TopRows : \/ Launch(r) \/ Precollect(r) \/ Control(r)
                                 \/ Hold(r) \/ EarlyTimeout(r)
                                 \/ Expire(r) \/ Recover(r)
           \/ StartCollecting \/ CollectorClock
           \/ \E s \in Sessions :
                  AttachPending(s) \/ AttachTerminal(s) \/ AttachTimeout(s)
           \/ AllIn \/ NextPass \/ TimeUp \/ ExpireDone
           \/ Kill \/ RecoverDone \/ ShutDown
           \/ \E c \in Collections : RunCollection(c)
           \/ CollectionEnds \/ DeriveDone \/ Finish \/ Deadline \/ Abort
           \/ Keeps
BY DEF Next, Work, Keeps

LEMMA SessionRow == \A s \in Sessions : s[1] \in TopRows
BY DEF Sessions, SessionsOf

LEMMA OutcomesTyped ==
    /\ [r \in Rows |-> FinalOutcome(r)] \in [Rows -> Outcomes]
    /\ [r \in Rows |-> DeadlineOutcome(r)] \in [Rows -> Outcomes]
    /\ [r \in Rows |-> "aborted"] \in [Rows -> Outcomes]
BY DEF FinalOutcome, DeadlineOutcome, Outcomes

LEMMA LeaveTyped ==
    ASSUME TypeOK, NEW marked \in SUBSET Rows, Leave(marked)
    PROVE  errors' \in SUBSET Rows /\ completed' \in SUBSET Rows /\ step' \in Steps
<1>1. TopRows \subseteq Rows BY ScheduleAssumption
<1>2. WithEvents \subseteq Rows BY <1>1, SessionRow DEF WithEvents, TypeOK
<1>3. failed \subseteq Rows BY <1>1 DEF TypeOK
<1>4. errors' \subseteq Rows BY <1>3 DEF TypeOK, Leave
<1>5. completed' \subseteq Rows BY <1>2 DEF TypeOK, Leave
<1>6. step' \in Steps BY DEF Leave, Steps
<1> QED BY <1>4, <1>5, <1>6

LEMMA TypeStep == TypeOK /\ [Next]_vars => TypeOK'
<1> SUFFICES ASSUME TypeOK, [Next]_vars PROVE TypeOK'
    OBVIOUS
<1> USE DEF ledger, local
<1>0. /\ TopRows \subseteq Rows /\ Resource \subseteq Rows
      /\ Collections \subseteq SUBSET Rows /\ Recovering \subseteq TopRows
    BY ScheduleAssumption
<1>1. CASE Ready BY <1>0, <1>1 DEF TypeOK, Ready, Steps
<1>2. CASE ResourceEnds BY <1>0, <1>2 DEF TypeOK, ResourceEnds, RowsFail, Steps
<1>3. CASE LaunchEnds BY <1>0, <1>3 DEF TypeOK, LaunchEnds, RowsFail
<1>4. CASE LaunchDone BY <1>4 DEF TypeOK, LaunchDone, Steps
<1>5. CASE \E r \in TopRows : Launch(r) BY <1>0, <1>5 DEF TypeOK, Launch
<1>6. CASE \E r \in TopRows : Precollect(r)
    BY <1>0, <1>6 DEF TypeOK, Precollect, EarlyStep
<1>7. CASE \E r \in TopRows : Control(r) BY <1>7 DEF TypeOK, Control, EarlyStep
<1>8. CASE \E r \in TopRows : Hold(r) BY <1>8 DEF TypeOK, Hold, EarlyStep
<1>9. CASE \E r \in TopRows : EarlyTimeout(r)
    BY <1>0, <1>9 DEF TypeOK, EarlyTimeout, EarlyStep, RowsFail
<1>10. CASE \E r \in TopRows : Expire(r) BY <1>0, <1>10 DEF TypeOK, Expire
<1>11. CASE \E r \in TopRows : Recover(r) BY <1>0, <1>11 DEF TypeOK, Recover, RowsFail
<1>12. CASE StartCollecting
    <2>1. Expected \subseteq Sessions BY DEF TypeOK, Expected, ToCollect, Sessions
    <2> QED BY <1>12, <2>1 DEF TypeOK, StartCollecting, Steps
<1>13. CASE CollectorClock BY <1>13 DEF TypeOK, CollectorClock
<1>14. CASE \E s \in Sessions : AttachPending(s)
    BY <1>14 DEF TypeOK, AttachPending
<1>15. CASE \E s \in Sessions : AttachTerminal(s)
    BY <1>0, <1>15, SessionRow DEF TypeOK, AttachTerminal
<1>16. CASE \E s \in Sessions : AttachTimeout(s)
    BY <1>0, <1>16, SessionRow DEF TypeOK, AttachTimeout
<1>17. CASE AllIn
    <2>1. {s[1] : s \in complete} \subseteq Rows BY <1>0, SessionRow DEF TypeOK
    <2> QED BY <1>17, <2>1, LeaveTyped DEF TypeOK, AllIn
<1>18. CASE NextPass
    <2>1. Outstanding \subseteq Sessions
        BY DEF TypeOK, Outstanding, Expected, ToCollect, Sessions
    <2> QED BY <1>18, <2>1 DEF TypeOK, NextPass
<1>19. CASE TimeUp BY <1>19 DEF TypeOK, TimeUp, ToCollect, Steps
<1>20. CASE ExpireDone BY <1>20, LeaveTyped DEF TypeOK, ExpireDone
<1>21. CASE Kill BY <1>21 DEF TypeOK, Kill, Runnable, Steps
<1>22. CASE RecoverDone BY <1>22 DEF TypeOK, RecoverDone, Steps
<1>23. CASE ShutDown BY <1>23 DEF TypeOK, ShutDown, Runnable, Steps
<1>24. CASE \E c \in Collections : RunCollection(c)
    BY <1>0, <1>24 DEF TypeOK, RunCollection
<1>25. CASE CollectionEnds
    <2>1. running \in {Resource} \cup Collections BY <1>25 DEF TypeOK, CollectionEnds
    <2> QED BY <1>0, <1>25, <2>1 DEF TypeOK, CollectionEnds, RowsFail
<1>26. CASE DeriveDone BY <1>26 DEF TypeOK, DeriveDone, Steps
<1>27. CASE Finish BY <1>27, OutcomesTyped DEF TypeOK, Finish, End, Reports, Steps
<1>28. CASE Deadline BY <1>28, OutcomesTyped DEF TypeOK, Deadline, End, Reports, Steps
<1>29. CASE Abort BY <1>29, OutcomesTyped DEF TypeOK, Abort, End, Reports, Steps
<1>30. CASE Keeps BY <1>30 DEF TypeOK, Keeps, vars, place
<1> QED
    BY <1>1, <1>2, <1>3, <1>4, <1>5, <1>6, <1>7, <1>8, <1>9, <1>10, <1>11, <1>12,
       <1>13, <1>14, <1>15, <1>16, <1>17, <1>18, <1>19, <1>20, <1>21, <1>22, <1>23,
       <1>24, <1>25, <1>26, <1>27, <1>28, <1>29, <1>30, NextCases

(* Every variable keeps its type: rows are only ever noted among the        *)
(* selected ones, sessions among those of top-level rows.                   *)
THEOREM TypeCorrect == Spec => []TypeOK
<1>1. Init => TypeOK BY DEF Init, TypeOK, Steps
<1> QED BY <1>1, TypeStep, PTL DEF Spec

-----------------------------------------------------------------------------
(* The two books of errors.                                                *)

LEMMA ErrorsStep == ErrorsReachTheLedger /\ [Next]_vars => ErrorsReachTheLedger'
<1> SUFFICES ASSUME ErrorsReachTheLedger, [Next]_vars PROVE ErrorsReachTheLedger'
    OBVIOUS
<1> USE DEF ledger, local, ErrorsReachTheLedger
<1>1. CASE Ready \/ ResourceEnds \/ LaunchEnds \/ LaunchDone
    BY <1>1 DEF Ready, ResourceEnds, LaunchEnds, LaunchDone, RowsFail
<1>2. CASE \E r \in TopRows : Launch(r) BY <1>2 DEF Launch
<1>3. CASE \E r \in TopRows :
               Precollect(r) \/ Control(r) \/ Hold(r) \/ EarlyTimeout(r)
    BY <1>3 DEF Precollect, Control, Hold, EarlyTimeout, EarlyStep, RowsFail
<1>4. CASE \E r \in TopRows : Expire(r) \/ Recover(r)
    BY <1>4 DEF Expire, Recover, RowsFail
<1>5. CASE StartCollecting \/ CollectorClock \/ NextPass \/ TimeUp
    BY <1>5 DEF StartCollecting, CollectorClock, NextPass, TimeUp
<1>6. CASE \E s \in Sessions : AttachPending(s) \/ AttachTerminal(s) \/ AttachTimeout(s)
    BY <1>6 DEF AttachPending, AttachTerminal, AttachTimeout
<1>7. CASE AllIn \/ ExpireDone BY <1>7 DEF AllIn, ExpireDone, Leave
<1>8. CASE Kill \/ RecoverDone \/ ShutDown BY <1>8 DEF Kill, RecoverDone, ShutDown
<1>9. CASE \E c \in Collections : RunCollection(c) BY <1>9 DEF RunCollection
<1>10. CASE CollectionEnds \/ DeriveDone BY <1>10 DEF CollectionEnds, DeriveDone, RowsFail
<1>11. CASE Finish \/ Deadline \/ Abort BY <1>11 DEF Finish, Deadline, Abort, End
<1>12. CASE Keeps BY <1>12 DEF Keeps, vars
<1> QED
    BY <1>1, <1>2, <1>3, <1>4, <1>5, <1>6, <1>7, <1>8, <1>9, <1>10, <1>11, <1>12,
       NextCases

(* Wherever the run is interrupted, the ledger its report is made from has  *)
(* the errors that run_inner and collect_terminals have noted, and no other. *)
THEOREM LedgerHasErrors == Spec => []ErrorsReachTheLedger
<1>1. Init => ErrorsReachTheLedger BY DEF Init, ErrorsReachTheLedger
<1> QED BY <1>1, ErrorsStep, PTL DEF Spec

-----------------------------------------------------------------------------
(* What the collector loses.                                               *)

Before == {"start", "resource", "launch", "early"}

Undone == complete = {} /\ failed = {} /\ pass = {}

Fixed ==
    /\ step \in Before => Undone
    /\ launching # NoRow => step \in {"launch", "over"}
    /\ complete \subseteq Expected /\ failed \subseteq ToCollect
    /\ pass \subseteq Expected

Decided(r) == r \in failed \/ Answered(r, complete)

Expiring ==
    step = "expire" => /\ left \subseteq ToCollect /\ pass = {}
                       /\ \A r \in ToCollect \ left : Decided(r)

CollectInv == TypeOK /\ Fixed /\ Expiring /\ OnlyMiscountsLoseRows

LEMMA ExpectedFixed ==
    ASSUME UNCHANGED <<open, pre, held>>
    PROVE  ToCollect' = ToCollect /\ Expected' = Expected
<1>1. ToCollect' = ToCollect BY DEF ToCollect
<1> QED BY <1>1 DEF Expected, SessionsOf

LEMMA ExpectedRow ==
    /\ \A s \in Expected : s[1] \in ToCollect
    /\ \A r \in ToCollect : SessionsOf(r) \subseteq Expected
BY DEF Expected, SessionsOf

LEMMA SessionsFinite == IsFiniteSet(Sessions)
<1>1. \A r \in TopRows : IsFiniteSet(SessionsOf(r))
    <2> SUFFICES ASSUME NEW r \in TopRows PROVE IsFiniteSet(SessionsOf(r))
        OBVIOUS
    <2>1. Actors[r] \in Int BY ScheduleAssumption
    <2>2. IsFiniteSet(1 .. Actors[r]) BY <2>1, FS_Interval
    <2>3. IsFiniteSet({r}) BY FS_Singleton
    <2> QED BY <2>2, <2>3, FS_Product DEF SessionsOf
<1> DEFINE T == {SessionsOf(r) : r \in TopRows}
           f == [r \in TopRows |-> SessionsOf(r)]
<1>2. f \in Surjection(TopRows, T)
    <2>1. f \in [TopRows -> T] OBVIOUS
    <2>2. \A t \in T : \E r \in TopRows : f[r] = t OBVIOUS
    <2> HIDE DEF T, f
    <2> QED BY <2>1, <2>2, Fun_IsSurj
<1>3. IsFiniteSet(TopRows) BY ScheduleAssumption
<1>4. IsFiniteSet(T)
    <2> HIDE DEF T, f
    <2> QED BY <1>2, <1>3, FS_Surjection
<1>5. \A t \in T : IsFiniteSet(t) BY <1>1
<1>6. Sessions = UNION T BY DEF Sessions
<1> HIDE DEF T
<1> QED BY <1>4, <1>5, <1>6, FS_UNION

\* As many different sessions as there are: the collector's count is right.
LEMMA CountedIsDecided ==
    ASSUME TypeOK, Fixed, AllCounted, ~Miscounted
    PROVE  \A r \in ToCollect : Decided(r)
<1> DEFINE Errored == UNION {SessionsOf(r) : r \in failed}
<1>1. Expected \subseteq Sessions BY DEF TypeOK, Expected, ToCollect, Sessions
<1>2. complete \subseteq Expected BY DEF Fixed
<1>3. Errored \subseteq Expected BY ExpectedRow DEF Fixed
<1>4. complete \cap Errored = {} BY DEF Miscounted, SessionsOf
<1>5. \A s \in Errored : s[1] \in failed BY DEF SessionsOf
<1>6. Cardinality(complete) + Cardinality(Errored) = Cardinality(Expected)
    BY DEF AllCounted
<1> HIDE DEF Errored
<1>7. IsFiniteSet(Expected) BY <1>1, SessionsFinite, FS_Subset
<1>8. IsFiniteSet(complete) /\ IsFiniteSet(Errored) BY <1>2, <1>3, <1>7, FS_Subset
<1>9. Cardinality(complete \cup Errored) = Cardinality(Expected)
    <2>1. Cardinality(complete \cap Errored) = 0 BY <1>4, FS_EmptySet
    <2>2. Cardinality(complete \cup Errored)
             = Cardinality(complete) + Cardinality(Errored) - 0
        BY <1>8, <2>1, FS_Union
    <2>3. Cardinality(complete) \in Nat /\ Cardinality(Errored) \in Nat
        BY <1>8, FS_CardinalityType
    <2> QED BY <1>6, <2>2, <2>3
<1>10. complete \cup Errored = Expected
    <2>1. (complete \cup Errored) \in SUBSET Expected BY <1>2, <1>3
    <2> QED BY <1>7, <1>9, <2>1, FS_Subset
<1> SUFFICES ASSUME NEW r \in ToCollect, r \notin failed PROVE Answered(r, complete)
    BY DEF Decided
<1>11. \A s \in SessionsOf(r) : s[1] = r BY DEF SessionsOf
<1>12. SessionsOf(r) \subseteq complete BY <1>5, <1>10, <1>11, ExpectedRow
<1> QED BY <1>12 DEF Answered

\* Steps of the run after the collection.
After == {"kill", "recover", "shutdown", "derive", "evaluate", "over"}

Afterwards ==
    /\ step \in After /\ step' \in After
    /\ step = "over" => step' = "over"
    /\ UNCHANGED <<launching, open, pre, held, complete, failed, pass>>

LEMMA AfterwardsKeeps ==
    ASSUME Fixed, Expiring, OnlyMiscountsLoseRows, Afterwards
    PROVE  Fixed' /\ Expiring' /\ OnlyMiscountsLoseRows'
<1>1. ToCollect' = ToCollect /\ Expected' = Expected
    BY ExpectedFixed DEF Afterwards
<1>2. Fixed' BY <1>1 DEF Fixed, Afterwards, Before, After
<1>3. Expiring' BY DEF Expiring, Afterwards, After
<1>4. Collected' => Collected BY DEF Collected, Afterwards, After
<1>5. Miscounted' <=> Miscounted BY DEF Miscounted, Afterwards
<1>6. CollectionDecidesEveryRow => CollectionDecidesEveryRow'
    BY <1>1, <1>4 DEF CollectionDecidesEveryRow, Afterwards, Answered, SessionsOf
<1> QED BY <1>2, <1>3, <1>5, <1>6 DEF OnlyMiscountsLoseRows

\* Before the collection nothing can be lost.
Early ==
    /\ step \in Before /\ step' \in Before
    /\ launching' # NoRow => step' = "launch"
    /\ UNCHANGED <<complete, failed, pass>>

LEMMA EarlyKeeps ==
    ASSUME Fixed, Early
    PROVE  Fixed' /\ Expiring' /\ OnlyMiscountsLoseRows'
<1>1. Undone' BY DEF Fixed, Early, Undone
<1>2. Fixed' BY <1>1 DEF Fixed, Early, Undone
<1>3. ~Collected' /\ step' # "expire" BY DEF Collected, Early, Before
<1> QED BY <1>2, <1>3 DEF Expiring, OnlyMiscountsLoseRows, CollectionDecidesEveryRow

\* The collector goes on: what it expects stays the same.
Collecting ==
    /\ step \notin Before /\ step' \notin Before
    /\ UNCHANGED <<launching, open, pre, held>>

LEMMA CollectStep ==
    ASSUME CollectInv, Collecting,
           step \in {"collect", "expire"}, step' \in {"collect", "expire"},
           complete' \subseteq Expected, failed' \subseteq ToCollect,
           pass' \subseteq Expected, Expiring'
    PROVE  Fixed' /\ Expiring' /\ OnlyMiscountsLoseRows'
<1>1. ToCollect' = ToCollect /\ Expected' = Expected
    BY ExpectedFixed DEF Collecting
<1>2. Fixed' BY <1>1 DEF CollectInv, Fixed, Collecting, Before
<1>3. ~Collected' BY DEF Collected
<1> QED BY <1>2, <1>3 DEF OnlyMiscountsLoseRows, CollectionDecidesEveryRow

\* The collector returns.
LEMMA LeaveStep ==
    ASSUME CollectInv, Collecting, NEW marked, Leave(marked),
           UNCHANGED <<complete, failed, pass>>, step \notin {"launch", "over"},
           ~Miscounted => \A r \in ToCollect : Decided(r)
    PROVE  Fixed' /\ Expiring' /\ OnlyMiscountsLoseRows'
<1>1. ToCollect' = ToCollect /\ Expected' = Expected
    BY ExpectedFixed DEF Collecting
<1>2. step' \in {"kill", "shutdown"} BY DEF Leave
<1>3. launching = NoRow BY DEF CollectInv, Fixed
<1>4. Fixed' BY <1>1, <1>2, <1>3 DEF CollectInv, Fixed, Collecting, Before
<1>5. Expiring' BY <1>2 DEF Expiring
<1>6. Miscounted' <=> Miscounted BY DEF Miscounted
<1>7. ~Miscounted => CollectionDecidesEveryRow'
    BY <1>1 DEF CollectionDecidesEveryRow, Decided, Answered, SessionsOf
<1> QED BY <1>4, <1>5, <1>6, <1>7 DEF OnlyMiscountsLoseRows

LEMMA EndStep ==
    ASSUME CollectInv, NEW kind, NEW outcomes, End(kind, outcomes)
    PROVE  Fixed' /\ Expiring' /\ OnlyMiscountsLoseRows'
<1>1. ToCollect' = ToCollect /\ Expected' = Expected
    BY ExpectedFixed DEF End, local
<1>2. Fixed' BY <1>1 DEF CollectInv, Fixed, End, local, Before
<1> QED BY <1>2 DEF End, Expiring, OnlyMiscountsLoseRows, CollectionDecidesEveryRow,
                    Collected

\* A row that expires is decided, and those decided before stay so.
LEMMA ExpireStep ==
    ASSUME CollectInv, NEW r \in TopRows, Expire(r)
    PROVE  Fixed' /\ Expiring' /\ OnlyMiscountsLoseRows'
<1>1. /\ step = "expire" /\ step' = "expire" /\ r \in left /\ left' = left \ {r}
      /\ complete' = complete /\ pass' = pass /\ failed \subseteq failed'
    BY DEF Expire
<1>2. Collecting BY DEF Expire, Collecting, Before
<1>3. ToCollect' = ToCollect BY <1>2, ExpectedFixed DEF Collecting
<1>4. r \in failed' \/ Answered(r, complete) BY DEF Expire
<1>5. r \in ToCollect BY <1>1 DEF CollectInv, Expiring
<1>6. Expiring'
    BY <1>1, <1>3, <1>4 DEF CollectInv, Expiring, Decided, Answered, SessionsOf
<1>7. failed' \subseteq ToCollect BY <1>5 DEF Expire, CollectInv, Fixed
<1>8. complete' \subseteq Expected /\ pass' \subseteq Expected
    BY DEF Expire, CollectInv, Fixed
<1> QED BY <1>1, <1>2, <1>6, <1>7, <1>8, CollectStep

LEMMA CollectInvStep == CollectInv /\ [Next]_vars => CollectInv'
<1> SUFFICES ASSUME CollectInv, [Next]_vars
             PROVE  Fixed' /\ Expiring' /\ OnlyMiscountsLoseRows'
    BY TypeStep DEF CollectInv
<1> USE DEF ledger, local
<1>0. Fixed /\ Expiring /\ OnlyMiscountsLoseRows BY DEF CollectInv
<1>1. CASE Ready
    BY <1>0, <1>1, EarlyKeeps DEF Ready, Early, Before, Fixed
<1>2. CASE ResourceEnds \/ LaunchEnds
    BY <1>0, <1>2, EarlyKeeps DEF ResourceEnds, LaunchEnds, Early, Before, Fixed
<1>3. CASE LaunchDone
    BY <1>0, <1>3, EarlyKeeps DEF LaunchDone, Early, Before
<1>4. CASE \E r \in TopRows : Launch(r)
    BY <1>0, <1>4, EarlyKeeps DEF Launch, Early, Before
<1>5. CASE \E r \in TopRows :
               Precollect(r) \/ Control(r) \/ Hold(r) \/ EarlyTimeout(r)
    BY <1>0, <1>5, EarlyKeeps
       DEF Precollect, Control, Hold, EarlyTimeout, EarlyStep, Early, Before, Fixed
<1>6. CASE StartCollecting
    <2>1. step' = "collect" /\ complete' = {} /\ failed' = {} /\ pass' = Expected
          /\ launching' = NoRow
        BY <1>0, <1>6 DEF StartCollecting, Fixed, Before, Undone
    <2>2. Expected' = Expected BY <1>6, ExpectedFixed DEF StartCollecting
    <2>3. Fixed' BY <2>1, <2>2 DEF Fixed, Before
    <2> QED BY <2>1, <2>3 DEF Expiring, OnlyMiscountsLoseRows,
                              CollectionDecidesEveryRow, Collected
<1>7. CASE CollectorClock \/ NextPass
    <2>1. Outstanding \subseteq Expected BY DEF Outstanding
    <2> QED BY <1>0, <1>7, <2>1, CollectStep
            DEF CollectorClock, NextPass, Collecting, Before, Fixed, Expiring
<1>8. CASE \E s \in Sessions : AttachPending(s) \/ AttachTerminal(s)
    BY <1>0, <1>8, CollectStep
       DEF AttachPending, AttachTerminal, Collecting, Before, Fixed, Expiring
<1>9. CASE \E s \in Sessions : AttachTimeout(s)
    BY <1>0, <1>9, CollectStep, ExpectedRow
       DEF AttachTimeout, Collecting, Before, Fixed, Expiring
<1>10. CASE AllIn
    <2>1. step = "collect" /\ step' \in {"kill", "shutdown"}
        BY <1>10 DEF AllIn, Leave
    <2>2. Collecting BY <1>10, <2>1 DEF AllIn, Collecting, Before
    <2>3. ~Miscounted => \A r \in ToCollect : Decided(r)
        BY <1>10, CountedIsDecided DEF AllIn, CollectInv
    <2> QED BY <1>10, <2>1, <2>2, <2>3, LeaveStep DEF AllIn
<1>11. CASE TimeUp
    <2>1. /\ step = "collect" /\ step' = "expire" /\ left' = ToCollect
          /\ pass = {} /\ UNCHANGED <<complete, failed, pass>>
        BY <1>11 DEF TimeUp
    <2>2. Collecting BY <1>11 DEF TimeUp, Collecting, Before
    <2>3. ToCollect' = ToCollect BY <2>2, ExpectedFixed DEF Collecting
    <2>4. Expiring' BY <2>1, <2>3 DEF Expiring
    <2> QED BY <1>0, <2>1, <2>2, <2>4, CollectStep DEF Fixed
<1>12. CASE \E r \in TopRows : Expire(r) BY <1>12, ExpireStep
<1>13. CASE ExpireDone
    <2>1. step = "expire" /\ left = {} /\ step' \in {"kill", "shutdown"}
        BY <1>13 DEF ExpireDone, Leave
    <2>2. Collecting BY <1>13, <2>1 DEF ExpireDone, Collecting, Before
    <2>3. \A r \in ToCollect : Decided(r) BY <1>0, <2>1 DEF Expiring
    <2> QED BY <1>13, <2>1, <2>2, <2>3, LeaveStep DEF ExpireDone
<1>14. CASE Kill \/ RecoverDone \/ ShutDown
    BY <1>0, <1>14, AfterwardsKeeps DEF Kill, RecoverDone, ShutDown, Afterwards, After
<1>15. CASE \E r \in TopRows : Recover(r)
    BY <1>0, <1>15, AfterwardsKeeps DEF Recover, Afterwards, After
<1>16. CASE \E c \in Collections : RunCollection(c)
    BY <1>0, <1>16, AfterwardsKeeps DEF RunCollection, Afterwards, After
<1>17. CASE CollectionEnds \/ DeriveDone
    BY <1>0, <1>17, AfterwardsKeeps DEF CollectionEnds, DeriveDone, Afterwards, After
<1>18. CASE Finish \/ Deadline \/ Abort
    BY <1>18, EndStep DEF Finish, Deadline, Abort
<1>19. CASE Keeps
    BY <1>0, <1>19 DEF Keeps, vars, place, Fixed, Undone, Expiring, Decided, Answered,
       OnlyMiscountsLoseRows, CollectionDecidesEveryRow, Collected, Miscounted,
       ToCollect, Expected, SessionsOf
<1> QED
    BY <1>1, <1>2, <1>3, <1>4, <1>5, <1>6, <1>7, <1>8, <1>9, <1>10, <1>11, <1>12,
       <1>13, <1>14, <1>15, <1>16, <1>17, <1>18, <1>19, NextCases

LEMMA InitCollect == Init => CollectInv
<1> SUFFICES ASSUME Init PROVE CollectInv
    OBVIOUS
<1>1. TypeOK BY DEF Init, TypeOK, Steps
<1>2. Fixed BY DEF Init, Fixed, Undone, Before
<1> QED BY <1>1, <1>2 DEF Init, CollectInv, Expiring, OnlyMiscountsLoseRows,
                          CollectionDecidesEveryRow, Collected

LEMMA CollectInvAlways == Spec => []CollectInv
BY InitCollect, CollectInvStep, PTL DEF Spec

(* A row that is neither collected nor an error when the collector returns  *)
(* has been lost because some session was counted twice, and for no other   *)
(* reason.                                                                  *)
THEOREM LossIsMiscount == Spec => []OnlyMiscountsLoseRows
<1>1. CollectInv => OnlyMiscountsLoseRows BY DEF CollectInv
<1> QED BY <1>1, CollectInvAlways, PTL

-----------------------------------------------------------------------------
(* Rows with one session.                                                  *)

Fresh == \A s \in pass : s \notin complete /\ s[1] \notin failed

SingleInv == CollectInv /\ Fresh /\ ~Miscounted

LEMMA SingleStep ==
    ASSUME \A r \in TopRows : Actors[r] = 1
    PROVE  SingleInv /\ [Next]_vars => SingleInv'
<1> SUFFICES ASSUME SingleInv, [Next]_vars PROVE Fresh' /\ ~Miscounted'
    BY CollectInvStep DEF SingleInv
<1> USE DEF ledger, local, Fresh, Miscounted
<1>0. /\ Fresh /\ ~Miscounted /\ complete \subseteq Sessions /\ pass \subseteq Sessions
    BY DEF SingleInv, CollectInv, TypeOK
<1>a. \A s \in Sessions : s \in SessionsOf(s[1]) BY DEF Sessions, SessionsOf
<1>b. \A s, q \in Sessions : s[1] = q[1] => s = q BY DEF Sessions, SessionsOf
<1>1. CASE Ready \/ ResourceEnds \/ LaunchEnds \/ LaunchDone
    BY <1>0, <1>1 DEF Ready, ResourceEnds, LaunchEnds, LaunchDone
<1>2. CASE \E r \in TopRows : Launch(r) \/ Recover(r)
    BY <1>0, <1>2 DEF Launch, Recover
<1>3. CASE \E r \in TopRows :
               Precollect(r) \/ Control(r) \/ Hold(r) \/ EarlyTimeout(r)
    BY <1>0, <1>3 DEF Precollect, Control, Hold, EarlyTimeout, EarlyStep
<1>4. CASE StartCollecting
    BY <1>0, <1>4 DEF StartCollecting, SingleInv, CollectInv, Fixed, Before, Undone
<1>5. CASE CollectorClock \/ TimeUp BY <1>0, <1>5 DEF CollectorClock, TimeUp
<1>6. CASE NextPass BY <1>0, <1>6 DEF NextPass, Outstanding
<1>7. CASE \E s \in Sessions : AttachPending(s)
    BY <1>0, <1>7 DEF AttachPending
<1>8. CASE \E s \in Sessions : AttachTerminal(s)
    BY <1>0, <1>8, <1>b DEF AttachTerminal
<1>9. CASE \E s \in Sessions : AttachTimeout(s)
    BY <1>0, <1>9, <1>a, <1>b DEF AttachTimeout
<1>10. CASE \E r \in TopRows : Expire(r)
    <2> SUFFICES ASSUME NEW r \in TopRows, Expire(r) PROVE Fresh' /\ ~Miscounted'
        BY <1>10
    <2>1. pass = {}
        BY DEF Expire, SingleInv, CollectInv, Expiring
    <2>2. \A s \in complete : s[1] = r => SessionsOf(r) = {s}
        BY <1>0 DEF Sessions, SessionsOf
    <2>3. r \in failed' /\ r \notin failed => ~Answered(r, complete) BY DEF Expire
    <2>4. \A s \in complete : s[1] \notin failed'
        BY <1>0, <2>2, <2>3 DEF Expire, Answered
    <2> QED BY <2>1, <2>4 DEF Expire
<1>11. CASE AllIn \/ ExpireDone BY <1>0, <1>11 DEF AllIn, ExpireDone
<1>12. CASE Kill \/ RecoverDone \/ ShutDown \/ CollectionEnds \/ DeriveDone
    BY <1>0, <1>12 DEF Kill, RecoverDone, ShutDown, CollectionEnds, DeriveDone
<1>13. CASE \E c \in Collections : RunCollection(c)
    BY <1>0, <1>13 DEF RunCollection
<1>14. CASE Finish \/ Deadline \/ Abort
    BY <1>0, <1>14 DEF Finish, Deadline, Abort, End
<1>15. CASE Keeps BY <1>0, <1>15 DEF Keeps, vars, place
<1> QED
    BY <1>1, <1>2, <1>3, <1>4, <1>5, <1>6, <1>7, <1>8, <1>9, <1>10, <1>11, <1>12,
       <1>13, <1>14, <1>15, NextCases

(* Where every row has one session, no row's timeout can make the collector *)
(* drop another row: the miscount needs a row with several.                 *)
THEOREM SingleSessionsAreDecided ==
    ASSUME \A r \in TopRows : Actors[r] = 1
    PROVE  Spec => []CollectionDecidesEveryRow
<1>1. Init => SingleInv
    <2> SUFFICES ASSUME Init PROVE SingleInv
        OBVIOUS
    <2>1. CollectInv BY InitCollect
    <2> QED BY <2>1 DEF SingleInv, Init, Fresh, Miscounted
<1>2. SingleInv /\ [Next]_vars => SingleInv' BY SingleStep
<1>3. SingleInv => CollectionDecidesEveryRow
    BY DEF SingleInv, CollectInv, OnlyMiscountsLoseRows
<1> QED BY <1>1, <1>2, <1>3, PTL DEF Spec

-----------------------------------------------------------------------------
(* The final report.                                                       *)

Attempted == TopRows \cap Supported

\* Every row that was to be launched is open or has failed.
Launching ==
    /\ step = "launch" =>
          \A r \in Attempted : r \in left \cup open \cup errors \cup {launching}
    /\ step \notin {"start", "resource", "launch", "over"} =>
          Attempted \subseteq open \cup errors

\* run_inner has the collector's errors.
Handed == Collected => failed \subseteq errors

FinalInv ==
    /\ CollectInv /\ ErrorsReachTheLedger /\ Launching /\ Handed
    /\ report # NoReport => step = "over"
    /\ FinalReportIsFounded

LEMMA LaunchingStep ==
    ASSUME TypeOK, Fixed, Launching, Handed, [Next]_vars
    PROVE  Launching' /\ Handed'
<1> USE DEF ledger, local, Launching, Handed, Collected, Attempted
<1>1. CASE Ready BY <1>1 DEF Ready
<1>2. CASE ResourceEnds BY <1>2 DEF ResourceEnds, RowsFail
<1>3. CASE LaunchEnds BY <1>3 DEF LaunchEnds, RowsFail
<1>4. CASE LaunchDone
    <2>1. NoRow \notin TopRows BY ScheduleAssumption
    <2> QED BY <1>4, <2>1 DEF LaunchDone
<1>5. CASE \E r \in TopRows : Launch(r)
    <2>1. NoRow \notin TopRows BY ScheduleAssumption
    <2> QED BY <1>5, <2>1 DEF Launch
<1>6. CASE \E r \in TopRows :
               Precollect(r) \/ Control(r) \/ Hold(r) \/ EarlyTimeout(r)
    BY <1>6 DEF Precollect, Control, Hold, EarlyTimeout, EarlyStep, RowsFail
<1>7. CASE \E r \in TopRows : Expire(r) BY <1>7 DEF Expire
<1>8. CASE \E r \in TopRows : Recover(r) BY <1>8 DEF Recover, RowsFail
<1>9. CASE StartCollecting \/ CollectorClock \/ NextPass \/ TimeUp
    BY <1>9 DEF StartCollecting, CollectorClock, NextPass, TimeUp
<1>10. CASE \E s \in Sessions : AttachPending(s) \/ AttachTerminal(s) \/ AttachTimeout(s)
    BY <1>10 DEF AttachPending, AttachTerminal, AttachTimeout
<1>11. CASE AllIn \/ ExpireDone BY <1>11 DEF AllIn, ExpireDone, Leave
<1>12. CASE Kill \/ RecoverDone \/ ShutDown BY <1>12 DEF Kill, RecoverDone, ShutDown
<1>13. CASE \E c \in Collections : RunCollection(c) BY <1>13 DEF RunCollection
<1>14. CASE CollectionEnds \/ DeriveDone BY <1>14 DEF CollectionEnds, DeriveDone, RowsFail
<1>15. CASE Finish \/ Deadline \/ Abort BY <1>15 DEF Finish, Deadline, Abort, End
<1>16. CASE Keeps BY <1>16 DEF Keeps, vars, place
<1> QED
    BY <1>1, <1>2, <1>3, <1>4, <1>5, <1>6, <1>7, <1>8, <1>9, <1>10, <1>11, <1>12,
       <1>13, <1>14, <1>15, <1>16, NextCases

\* What the evaluation finds of a row that only has sessions of its own.
LEMMA PlainRowIsJudged ==
    ASSUME FinalInv, step = "evaluate", ~Miscounted,
           NEW r \in PlainRows \ Recovering, r \notin errors
    PROVE  FinalOutcome(r) = "measured" /\ Done(r)
<1>1. r \in open /\ r \in Supported /\ r \in TopRows /\ Measuring(r) = {}
    BY DEF FinalInv, Launching, Attempted, PlainRows
<1>2. r \notin failed BY DEF FinalInv, Handed, Collected
<1>3. r \in pre \/ (r \in ToCollect /\ Answered(r, complete))
    <2>1. CASE r \in pre BY <2>1
    <2>2. CASE r \notin pre
        <3>1. r \in ToCollect BY <1>1, <2>2 DEF ToCollect
        <3>2. CollectionDecidesEveryRow
            BY DEF FinalInv, CollectInv, OnlyMiscountsLoseRows
        <3> QED BY <1>2, <3>1, <3>2 DEF CollectionDecidesEveryRow, Collected
    <2> QED BY <2>1, <2>2
<1>4. Answered(r, complete) => \E s \in complete : s[1] = r
    <2>1. <<r, 1>> \in SessionsOf(r)
        BY <1>1, ScheduleAssumption DEF SessionsOf
    <2> QED BY <2>1 DEF Answered
<1>5. r \in WithEvents BY <1>3, <1>4 DEF WithEvents
<1>6. FinalOutcome(r) = "measured" BY <1>1, <1>5 DEF FinalOutcome, HasEvidence
<1> QED BY <1>1, <1>3, <1>6 DEF Done

LEMMA FinishStep ==
    ASSUME FinalInv, Finish
    PROVE  FinalReportIsFounded'
<1>1. /\ step = "evaluate" /\ report' = [kind |-> "final",
                                       rows |-> [r \in Rows |-> FinalOutcome(r)]]
      /\ UNCHANGED <<running, ledger, local>>
    BY DEF Finish, End
<1>2. \A r \in Rows : report'.rows[r] = FinalOutcome(r) BY <1>1
<1>3. rowErrors' = errors
    BY <1>1 DEF FinalInv, ErrorsReachTheLedger, Handed, Collected, ledger
<1>4. \A r \in Rows : FinalOutcome(r) = "error" <=> r \in errors
    BY DEF FinalOutcome
<1>5. Miscounted' <=> Miscounted BY <1>1 DEF Miscounted, local
<1>6. \A r \in Rows : Done(r)' <=> Done(r)
    BY <1>1 DEF Done, Measuring, ToCollect, Answered, SessionsOf, local
<1>7. PlainRows' = PlainRows /\ PlainRows \subseteq Rows
    BY ScheduleAssumption DEF PlainRows, Measuring
<1>8. ~Miscounted' => \A r \in PlainRows \ Recovering :
          report'.rows[r] = "error" \/ (report'.rows[r] = "measured" /\ Done(r)')
    BY <1>1, <1>2, <1>4, <1>5, <1>6, <1>7, PlainRowIsJudged
<1> QED BY <1>2, <1>3, <1>4, <1>7, <1>8 DEF FinalReportIsFounded

\* Once a run has reported it does nothing more.
LEMMA OverIsOver ==
    ASSUME step = "over", [Next]_vars
    PROVE  UNCHANGED vars
<1>1. ~(Ready \/ ResourceEnds \/ LaunchEnds \/ LaunchDone \/ StartCollecting)
    BY DEF Ready, ResourceEnds, LaunchEnds, LaunchDone, StartCollecting
<1>2. \A r \in TopRows : ~(\/ Launch(r) \/ Precollect(r) \/ Control(r) \/ Hold(r)
                            \/ EarlyTimeout(r) \/ Expire(r) \/ Recover(r))
    BY DEF Launch, Precollect, Control, Hold, EarlyTimeout, EarlyStep, Expire, Recover
<1>3. \A s \in Sessions : ~(AttachPending(s) \/ AttachTerminal(s) \/ AttachTimeout(s))
    BY DEF AttachPending, AttachTerminal, AttachTimeout
<1>4. ~(CollectorClock \/ AllIn \/ NextPass \/ TimeUp \/ ExpireDone)
    BY DEF CollectorClock, AllIn, NextPass, TimeUp, ExpireDone
<1>5. ~(Kill \/ RecoverDone \/ ShutDown \/ CollectionEnds \/ DeriveDone)
    BY DEF Kill, RecoverDone, ShutDown, CollectionEnds, DeriveDone
<1>6. \A c \in Collections : ~RunCollection(c) BY DEF RunCollection
<1>7. ~(Finish \/ Deadline \/ Abort) BY DEF Finish, Deadline, Abort, Waiting
<1> QED BY <1>1, <1>2, <1>3, <1>4, <1>5, <1>6, <1>7, NextCases DEF Keeps

LEMMA ReportOnce ==
    ASSUME [Next]_vars
    PROVE  \/ report' = report \/ Finish
           \/ step' = "over" /\ report'.kind \in {"deadline", "abort"}
<1>1. Ready \/ ResourceEnds \/ LaunchEnds \/ LaunchDone \/ StartCollecting
          => report' = report
    BY DEF Ready, ResourceEnds, LaunchEnds, LaunchDone, StartCollecting
<1>2. \A r \in TopRows : \/ Launch(r) \/ Precollect(r) \/ Control(r) \/ Hold(r)
                          \/ EarlyTimeout(r) \/ Expire(r) \/ Recover(r)
                          => report' = report
    BY DEF Launch, Precollect, Control, Hold, EarlyTimeout, EarlyStep, Expire, Recover
<1>3. \A s \in Sessions : AttachPending(s) \/ AttachTerminal(s) \/ AttachTimeout(s)
                           => report' = report
    BY DEF AttachPending, AttachTerminal, AttachTimeout
<1>4. CollectorClock \/ AllIn \/ NextPass \/ TimeUp \/ ExpireDone => report' = report
    BY DEF CollectorClock, AllIn, NextPass, TimeUp, ExpireDone
<1>5. Kill \/ RecoverDone \/ ShutDown \/ CollectionEnds \/ DeriveDone
          => report' = report
    BY DEF Kill, RecoverDone, ShutDown, CollectionEnds, DeriveDone
<1>6. \A c \in Collections : RunCollection(c) => report' = report
    BY DEF RunCollection
<1>7. Keeps => report' = report BY DEF Keeps, vars
<1>8. Deadline \/ Abort => step' = "over" /\ report'.kind \in {"deadline", "abort"}
    BY DEF Deadline, Abort, End
<1> QED BY <1>1, <1>2, <1>3, <1>4, <1>5, <1>6, <1>7, <1>8, NextCases

LEMMA FinalStep == FinalInv /\ [Next]_vars => FinalInv'
<1> SUFFICES ASSUME FinalInv, [Next]_vars
             PROVE  (report # NoReport => step = "over")' /\ FinalReportIsFounded'
    BY CollectInvStep, ErrorsStep, LaunchingStep DEF FinalInv, CollectInv
<1>1. CASE step = "over"
    <2>1. UNCHANGED vars BY <1>1, OverIsOver
    <2>2. FinalReportIsFounded'
        BY <2>1 DEF FinalInv, FinalReportIsFounded, vars, place, ledger, local, Miscounted,
           Done, Measuring, PlainRows, ToCollect, Answered, SessionsOf
    <2> QED BY <2>1, <2>2 DEF FinalInv, vars, place
<1>2. CASE step # "over"
    <2>1. report = NoReport BY <1>2 DEF FinalInv
    <2>2. CASE report' = report BY <2>1, <2>2 DEF FinalReportIsFounded
    <2>3. CASE Finish BY <2>3, FinishStep DEF Finish, End
    <2>4. CASE step' = "over" /\ report'.kind \in {"deadline", "abort"}
        BY <2>4 DEF FinalReportIsFounded
    <2> QED BY <2>2, <2>3, <2>4, ReportOnce
<1> QED BY <1>1, <1>2

LEMMA InitFinal == Init => FinalInv
<1> SUFFICES ASSUME Init PROVE FinalInv
    OBVIOUS
<1>1. CollectInv BY InitCollect
<1> QED BY <1>1 DEF Init, FinalInv, ErrorsReachTheLedger, Launching, Handed, Collected,
                    FinalReportIsFounded

(* The final report judges a row by all its sessions or calls it an error,  *)
(* and an error it calls exactly the rows that one was noted for.           *)
THEOREM FinalReportFounded == Spec => []FinalReportIsFounded
<1>1. FinalInv => FinalReportIsFounded BY DEF FinalInv
<1> QED BY <1>1, InitFinal, FinalStep, PTL DEF Spec
-----------------------------------------------------------------------------
(* The report of a deadline.  What RunProgress says of a plain row is what *)
(* its sessions have done, from one await to the next.                     *)
Books ==
    ~Miscounted => \A r \in PlainRows \ rowErrors :
        /\ r \in launched <=> r \in begun
        /\ r \in completed <=> Done(r)

LEMMA PlainFacts ==
    ASSUME NEW r \in PlainRows
    PROVE  /\ r \in TopRows /\ r \in Rows /\ r \in Supported
           /\ r \notin Resource /\ \A c \in Collections : r \notin c
           /\ Done(r) <=> \/ r \in pre \cup resumed
                          \/ r \in ToCollect /\ Answered(r, complete)
<1>1. r \in TopRows /\ r \in Supported /\ Measuring(r) = {} BY DEF PlainRows
<1>2. r \in Rows BY <1>1, ScheduleAssumption
<1> QED BY <1>1, <1>2 DEF Measuring, Done

LEMMA PlainFixed == PlainRows' = PlainRows BY DEF PlainRows, Measuring

\* Steps that touch neither a session nor a row's own books.
Aloof ==
    /\ UNCHANGED <<failed, open, pre, held, complete, resumed>>
    /\ rowErrors \subseteq rowErrors'
    /\ \A r \in PlainRows : /\ r \in launched' <=> r \in launched
                            /\ r \in begun' <=> r \in begun
                            /\ r \in completed' <=> r \in completed

LEMMA AloofKeeps == ASSUME Books, Aloof PROVE Books'
<1>1. Miscounted' <=> Miscounted BY DEF Aloof, Miscounted
<1>2. ToCollect' = ToCollect BY DEF Aloof, ToCollect
<1>3. ASSUME NEW r \in PlainRows PROVE Done(r)' <=> Done(r)
    <2>1. Measuring(r) = {} /\ Measuring(r)' = {} BY DEF PlainRows, Measuring
    <2> QED BY <1>2, <2>1 DEF Done, Aloof, Answered, SessionsOf
<1> QED BY <1>1, <1>3, PlainFixed DEF Books, Aloof

\* Before the collection nothing is answered.
LEMMA NothingAnswered ==
    ASSUME NEW r \in TopRows, complete = {} PROVE ~Answered(r, complete)
<1>1. <<r, 1>> \in SessionsOf(r) BY ScheduleAssumption DEF SessionsOf
<1> QED BY <1>1 DEF Answered

LEMMA PreparingKeeps ==
    ASSUME Books, Fixed, step \in Before, UNCHANGED <<complete, failed, resumed>>,
           rowErrors \subseteq rowErrors',
           \A r \in PlainRows \ rowErrors' :
               /\ (r \in launched <=> r \in begun) => (r \in launched' <=> r \in begun')
               /\ (r \in completed <=> r \in pre \cup resumed)
                       => (r \in completed' <=> r \in pre' \cup resumed')
    PROVE  Books'
<1>1. complete = {} /\ failed = {} BY DEF Fixed, Undone
<1>2. ~Miscounted BY <1>1 DEF Miscounted
<1>3. ASSUME NEW r \in PlainRows
      PROVE  /\ Done(r) <=> r \in pre \cup resumed
             /\ Done(r)' <=> r \in pre' \cup resumed'
    <2>1. r \in TopRows BY PlainFacts
    <2>2. ~Answered(r, complete) BY <1>1, <2>1, NothingAnswered
    <2>3. ~Answered(r, complete)' BY <2>2 DEF Answered, SessionsOf
    <2>4. Measuring(r) = {} /\ Measuring(r)' = {} BY DEF PlainRows, Measuring
    <2> QED BY <2>2, <2>3, <2>4 DEF Done
<1> QED BY <1>2, <1>3, PlainFixed DEF Books

\* A terminal answers its row when it is the last.
LEMMA TerminalKeeps ==
    ASSUME Books, Fixed, NEW s \in Sessions, AttachTerminal(s)
    PROVE  Books'
<1>1. s \in Expected /\ s[1] \in ToCollect
    BY ExpectedRow DEF AttachTerminal, Fixed
<1>2. /\ complete' = complete \cup {s} /\ ToCollect' = ToCollect
      /\ completed' = IF Answered(s[1], complete') THEN completed \cup {s[1]}
                                                   ELSE completed
      /\ UNCHANGED <<launched, rowErrors, failed, pre, resumed, begun>>
    BY ExpectedFixed DEF AttachTerminal
<1>3. Miscounted => Miscounted' BY <1>2 DEF Miscounted
<1> SUFFICES ASSUME ~Miscounted', NEW r \in PlainRows \ rowErrors
             PROVE  /\ r \in launched' <=> r \in begun'
                    /\ r \in completed' <=> Done(r)'
    BY <1>2, PlainFixed DEF Books
<1>4. /\ r \in launched <=> r \in begun
      /\ r \in completed <=> Done(r)
    BY <1>3 DEF Books
<1>5. Measuring(r) = {} /\ Measuring(r)' = {} BY DEF PlainRows, Measuring
<1>6. Done(r)' <=> \/ r \in pre \cup resumed
                   \/ r \in ToCollect /\ Answered(r, complete')
    BY <1>2, <1>5 DEF Done, Answered, SessionsOf
<1>7. Done(r) <=> \/ r \in pre \cup resumed
                  \/ r \in ToCollect /\ Answered(r, complete)
    BY <1>5 DEF Done
<1>8. Answered(r, complete) => Answered(r, complete') BY <1>2 DEF Answered
<1>9. CASE r = s[1] BY <1>1, <1>2, <1>4, <1>6, <1>7, <1>8, <1>9
<1>10. CASE r # s[1]
    <2>1. s \notin SessionsOf(r) BY <1>10 DEF SessionsOf
    <2>2. Answered(r, complete') => Answered(r, complete) BY <1>2, <2>1 DEF Answered
    <2> QED BY <1>2, <1>4, <1>6, <1>7, <1>8, <1>10, <2>2
<1> QED BY <1>9, <1>10

\* Whatever the collector marks when it returns has terminalized.
LEMMA LeaveKeeps ==
    ASSUME Books, CollectInv, ErrorsReachTheLedger, NEW marked, Leave(marked),
           marked \subseteq {s[1] : s \in complete},
           UNCHANGED <<launched, rowErrors, failed, open, pre, held, complete, resumed,
                       begun>>,
           ~Miscounted => \A r \in ToCollect : Decided(r)
    PROVE  Books'
<1>1. Miscounted' <=> Miscounted BY DEF Miscounted
<1>2. ToCollect' = ToCollect BY ExpectedFixed
<1> SUFFICES ASSUME ~Miscounted, NEW r \in PlainRows \ rowErrors
             PROVE  r \in completed' <=> Done(r)'
    BY <1>1, PlainFixed DEF Books
<1>3. Measuring(r) = {} /\ Measuring(r)' = {} BY DEF PlainRows, Measuring
<1>4. Done(r)' <=> Done(r) BY <1>2, <1>3 DEF Done, Answered, SessionsOf
<1>5. r \in completed <=> Done(r) BY DEF Books
<1>6. completed \subseteq completed' BY DEF Leave
<1>7. ASSUME r \in completed', r \notin completed PROVE Done(r)
    <2>1. r \in {s[1] : s \in complete} \cup pre BY <1>7 DEF Leave, WithEvents
    <2>2. CASE r \in pre BY <1>3, <2>2 DEF Done
    <2>3. CASE r \in {s[1] : s \in complete}
        <3>1. r \in ToCollect BY <2>3, ExpectedRow DEF CollectInv, Fixed
        <3>2. r \notin failed BY DEF ErrorsReachTheLedger
        <3> QED BY <1>3, <3>1, <3>2 DEF Done, Decided
    <2> QED BY <2>1, <2>2, <2>3
<1> QED BY <1>4, <1>5, <1>6, <1>7

LEMMA ExpireKeeps ==
    ASSUME Books, CollectInv, NEW r \in TopRows, Expire(r)
    PROVE  Books'
<1>1. /\ r \in ToCollect /\ ToCollect' = ToCollect
      /\ UNCHANGED <<launched, begun, pre, resumed, complete>>
      /\ rowErrors \subseteq rowErrors' /\ failed \subseteq failed'
    BY ExpectedFixed DEF Expire, CollectInv, Expiring
<1>2. Miscounted => Miscounted' BY <1>1 DEF Miscounted
<1> SUFFICES ASSUME ~Miscounted', NEW q \in PlainRows \ rowErrors'
             PROVE  /\ q \in launched' <=> q \in begun'
                    /\ q \in completed' <=> Done(q)'
    BY PlainFixed DEF Books
<1>3. (q \in launched <=> q \in begun) /\ (q \in completed <=> Done(q))
    BY <1>1, <1>2 DEF Books
<1>4. Measuring(q) = {} /\ Measuring(q)' = {} BY DEF PlainRows, Measuring
<1>5. Done(q)' <=> Done(q) BY <1>1, <1>4 DEF Done, Answered, SessionsOf
<1>6. q # r => (q \in completed' <=> q \in completed) BY DEF Expire
<1>7. q = r /\ Answered(r, complete) => Done(q) BY <1>1, <1>4 DEF Done
<1>8. q = r /\ ~Answered(r, complete) => completed' = completed BY DEF Expire
<1>9. completed \subseteq completed' BY DEF Expire
<1> QED BY <1>1, <1>3, <1>5, <1>6, <1>7, <1>8, <1>9

LEMMA RecoverKeeps ==
    ASSUME Books, NEW r \in TopRows, Recover(r)
    PROVE  Books'
<1>1. /\ UNCHANGED <<launched, begun, failed, open, pre, held, complete>>
      /\ rowErrors \subseteq rowErrors'
      /\ \/ completed' = completed \cup {r} /\ resumed' = resumed \cup {r}
         \/ UNCHANGED <<completed, resumed>>
    BY DEF Recover, RowsFail
<1>2. Miscounted' <=> Miscounted BY <1>1 DEF Miscounted
<1>3. ToCollect' = ToCollect BY <1>1, ExpectedFixed
<1>4. ASSUME NEW q \in PlainRows
      PROVE  /\ Done(q) <=> \/ q \in pre \cup resumed
                            \/ q \in ToCollect /\ Answered(q, complete)
             /\ Done(q)' <=> \/ q \in pre \cup resumed'
                             \/ q \in ToCollect /\ Answered(q, complete)
    <2>1. Measuring(q) = {} /\ Measuring(q)' = {} BY DEF PlainRows, Measuring
    <2> QED BY <1>1, <1>3, <2>1 DEF Done, Answered, SessionsOf
<1> QED BY <1>1, <1>2, <1>4, PlainFixed DEF Books

LEMMA BooksStep == FinalInv /\ Books /\ [Next]_vars => Books'
<1> SUFFICES ASSUME FinalInv, Books, [Next]_vars PROVE Books'
    OBVIOUS
<1>0. TypeOK /\ Fixed /\ CollectInv /\ ErrorsReachTheLedger
    BY DEF FinalInv, CollectInv
<1>1. \A r \in PlainRows : r \notin Resource /\ \A c \in Collections : r \notin c
    BY PlainFacts
<1> USE DEF ledger, local
<1>2. CASE Ready BY <1>1, <1>2, AloofKeeps DEF Ready, Aloof
<1>3. CASE ResourceEnds BY <1>1, <1>3, AloofKeeps DEF ResourceEnds, RowsFail, Aloof
<1>4. ASSUME NEW r \in TopRows, Launch(r) PROVE Books'
    BY <1>0, <1>4, AloofKeeps, PreparingKeeps DEF Launch, Before
<1>5. CASE LaunchEnds BY <1>0, <1>5, PreparingKeeps DEF LaunchEnds, RowsFail, Before
<1>6. CASE \/ LaunchDone \/ StartCollecting \/ CollectorClock \/ NextPass \/ TimeUp
           \/ Kill \/ RecoverDone \/ ShutDown \/ DeriveDone
           \/ \E s \in Sessions : AttachPending(s)
    BY <1>6, AloofKeeps
       DEF Aloof, LaunchDone, StartCollecting, CollectorClock, NextPass, TimeUp, Kill,
           RecoverDone, ShutDown, DeriveDone, AttachPending
<1>7. ASSUME NEW r \in TopRows, Precollect(r) \/ Control(r) \/ Hold(r) \/ EarlyTimeout(r)
      PROVE  Books'
    BY <1>0, <1>7, PreparingKeeps
       DEF Precollect, Control, Hold, EarlyTimeout, EarlyStep, RowsFail, Before
<1>8. ASSUME NEW s \in Sessions, AttachTerminal(s) PROVE Books'
    BY <1>0, <1>8, TerminalKeeps
<1>9. ASSUME NEW s \in Sessions, AttachTimeout(s) PROVE Books'
    <2>1. /\ UNCHANGED <<launched, completed, open, pre, held, complete, resumed, begun>>
          /\ rowErrors \subseteq rowErrors' /\ failed \subseteq failed'
        BY <1>9 DEF AttachTimeout
    <2>2. Miscounted => Miscounted' BY <2>1 DEF Miscounted
    <2>3. ToCollect' = ToCollect BY <2>1, ExpectedFixed
    <2>4. ASSUME NEW q \in PlainRows PROVE Done(q)' <=> Done(q)
        <3>1. Measuring(q) = {} /\ Measuring(q)' = {} BY DEF PlainRows, Measuring
        <3> QED BY <2>1, <2>3, <3>1 DEF Done, Answered, SessionsOf
    <2> QED BY <2>1, <2>2, <2>4, PlainFixed DEF Books
<1>10. CASE AllIn
    <2>1. ~Miscounted => \A r \in ToCollect : Decided(r)
        BY <1>0, <1>10, CountedIsDecided DEF AllIn
    <2> QED BY <1>0, <1>10, <2>1, LeaveKeeps DEF AllIn
<1>11. CASE ExpireDone
    <2>1. \A r \in ToCollect : Decided(r)
        BY <1>0, <1>11 DEF ExpireDone, CollectInv, Expiring
    <2> QED BY <1>0, <1>11, <2>1, LeaveKeeps DEF ExpireDone
<1>12. ASSUME NEW r \in TopRows, Expire(r) PROVE Books' BY <1>0, <1>12, ExpireKeeps
<1>13. ASSUME NEW r \in TopRows, Recover(r) PROVE Books' BY <1>13, RecoverKeeps
<1>14. ASSUME NEW c \in Collections, RunCollection(c) PROVE Books'
    BY <1>1, <1>14, AloofKeeps DEF RunCollection, Aloof
<1>15. CASE CollectionEnds
    BY <1>15, AloofKeeps DEF CollectionEnds, RowsFail, Aloof
<1>16. CASE Finish \/ Deadline \/ Abort
    BY <1>16, AloofKeeps DEF Finish, Deadline, Abort, End, Aloof
<1>17. CASE Keeps BY <1>17, AloofKeeps DEF Keeps, vars, Aloof
<1> QED
    BY <1>2, <1>3, <1>4, <1>5, <1>6, <1>7, <1>8, <1>9, <1>10, <1>11, <1>12, <1>13,
       <1>14, <1>15, <1>16, <1>17, NextCases

LEMMA DeadlineStep ==
    ASSUME FinalInv, Books, Deadline PROVE DeadlineReportIsRight'
<1>1. /\ report' = [kind |-> "deadline", rows |-> [r \in Rows |-> DeadlineOutcome(r)]]
      /\ UNCHANGED <<running, ledger, local, begun>>
    BY DEF Deadline, End
<1>2. Miscounted' <=> Miscounted BY <1>1 DEF Miscounted, local
<1> SUFFICES ASSUME ~Miscounted, NEW r \in PlainRows \ rowErrors
             PROVE  report'.rows[r] = CASE Done(r)' -> "unevaluated"
                                        [] r \in begun' /\ ~Done(r)' -> "active"
                                        [] r \notin begun' /\ ~Done(r)' -> "not launched"
    BY <1>1, <1>2, PlainFixed DEF DeadlineReportIsRight, ledger
<1>3. Done(r)' <=> Done(r)
    <2>1. Measuring(r) = {} /\ Measuring(r)' = {} BY DEF PlainRows, Measuring
    <2> QED BY <1>1, <2>1 DEF Done, ToCollect, Answered, SessionsOf, local
<1>4. (r \in launched <=> r \in begun) /\ (r \in completed <=> Done(r)) BY DEF Books
<1>5. r \in Rows /\ r \in Supported BY PlainFacts
<1>6. report'.rows[r] = DeadlineOutcome(r) BY <1>1, <1>5
<1> QED BY <1>1, <1>3, <1>4, <1>5, <1>6 DEF DeadlineOutcome

LEMMA DeadlineReports ==
    ASSUME [Next]_vars
    PROVE  report' = report \/ Deadline \/ report'.kind \in {"final", "abort"}
<1>1. CASE Finish BY <1>1 DEF Finish, End
<1>2. CASE Abort BY <1>2 DEF Abort, End
<1>3. CASE ~Finish /\ ~Abort /\ ~Deadline
    BY <1>3, NextCases
       DEF Ready, ResourceEnds, LaunchEnds, LaunchDone, Launch, Precollect, Control,
           Hold, EarlyTimeout, EarlyStep, Expire, Recover, StartCollecting,
           CollectorClock, AttachPending, AttachTerminal, AttachTimeout, AllIn,
           NextPass, TimeUp, ExpireDone, Kill, RecoverDone, ShutDown, RunCollection,
           CollectionEnds, DeriveDone, Keeps, vars
<1> QED BY <1>1, <1>2, <1>3

(* What the report of a run that its deadline ended says of a row that has  *)
(* only sessions of the main driver - terminalized, active, not launched -  *)
(* was so, unless a session was counted twice.                              *)
THEOREM DeadlineIsRight == Spec => []DeadlineReportIsRight
<1> DEFINE Inv == FinalInv /\ Books /\ DeadlineReportIsRight
<1>1. Init => Inv
    <2> SUFFICES ASSUME Init PROVE Inv
        OBVIOUS
    <2>1. FinalInv BY InitFinal
    <2>2. ASSUME NEW r \in PlainRows PROVE ~Done(r) /\ r \notin completed
        <3>1. r \in TopRows /\ r \in Supported BY PlainFacts
        <3>2. ~Answered(r, complete) BY <3>1, NothingAnswered DEF Init
        <3>3. Measuring(r) = {} BY DEF PlainRows
        <3> QED BY <3>1, <3>2, <3>3 DEF Init, Done
    <2>3. Books BY <2>2 DEF Init, Books
    <2> QED BY <2>1, <2>3 DEF Init, DeadlineReportIsRight
<1>2. ASSUME Inv, [Next]_vars PROVE Inv'
    <2>1. FinalInv' BY <1>2, FinalStep
    <2>2. Books' BY <1>2, BooksStep
    <2>3. DeadlineReportIsRight'
        <3>1. CASE step = "over"
            <4>1. UNCHANGED vars BY <1>2, <3>1, OverIsOver
            <4> QED BY <1>2, <4>1
                    DEF DeadlineReportIsRight, vars, place, ledger, local, Miscounted,
                        Done, Measuring, PlainRows, ToCollect, Answered, SessionsOf
        <3>2. CASE step # "over"
            <4>1. report = NoReport BY <1>2, <3>2 DEF FinalInv
            <4>2. CASE report' = report BY <4>1, <4>2 DEF DeadlineReportIsRight
            <4>3. CASE Deadline BY <1>2, <4>3, DeadlineStep
            <4>4. CASE report'.kind \in {"final", "abort"}
                BY <4>4 DEF DeadlineReportIsRight
            <4> QED BY <1>2, <4>2, <4>3, <4>4, DeadlineReports
        <3> QED BY <3>1, <3>2
    <2> QED BY <2>1, <2>2, <2>3
<1>3. Inv => DeadlineReportIsRight OBVIOUS
<1> HIDE DEF Inv
<1> QED BY <1>1, <1>2, <1>3, PTL DEF Spec
=============================================================================
