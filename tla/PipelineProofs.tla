--------------------------- MODULE PipelineProofs ---------------------------
(***************************************************************************)
(* Theorems about the pipeline, for every calendar, retention, healing     *)
(* window, run length and number of crashes: its types, and then its seals *)
(* and committed facts, whatever an operator configures and wherever a run *)
(* is interrupted.                                                         *)
(*                                                                         *)
(* None of the invariants about seals is inductive alone.  A seal stays    *)
(* true because prune removes seals before hours, which needs the cutoff   *)
(* to be behind every seal once the seals are done (PruneOrder).  It holds *)
(* final facts because no hour is committed early, which needs every       *)
(* planned hour to have been settled at the captured instant (PlanSettled) *)
(* and the clock not to have run backwards since (ClockAhead).             *)
(***************************************************************************)
EXTENDS Pipeline, IntegerSetProofs

USE DEF disk, clock, public_state, runState, aux

-----------------------------------------------------------------------------
\* The calendar.
LEMMA DaysFinite == IsFiniteSet(Days) /\ Days \subseteq Nat
<1>1. IsFiniteSet(Epoch .. LastDay)
  BY FS_Interval, CalendarAssumption
<1> QED  BY <1>1, CalendarAssumption DEF Days

LEMMA DaySetsFinite ==
  ASSUME NEW S \in SUBSET Days
  PROVE  IsFiniteSet(S) /\ S \subseteq Int /\ Cardinality(S) \in Nat
<1>1. IsFiniteSet(S)
  BY DaysFinite, FS_Subset
<1> QED  BY <1>1, DaysFinite, FS_CardinalityType

\* Retention keeps exactly RetainDays sealed days, whichever days are sealed and
\* however many days are missing between them: the slice seals[-retain_days:]
\* of FactStore.prune.
THEOREM RetentionCutoffKeeps ==
  ASSUME NEW S \in SUBSET Days, Cardinality(S) >= RetainDays
  PROVE  /\ RetentionCutoff(S) \in S
         /\ Cardinality({ e \in S : RetentionCutoff(S) <= e }) = RetainDays
<1>1. IsFiniteSet(S) /\ S \subseteq Int /\ Cardinality(S) \in Nat
  BY DaySetsFinite
<1>2. RetainDays \in 1 .. Cardinality(S)
  BY <1>1, RetentionAssumption, CalendarAssumption
<1>3. \E d \in S : Cardinality(From(S, d)) = RetainDays
  BY <1>1, <1>2, RankOnto
<1> QED  BY <1>3 DEF RetentionCutoff, From

-----------------------------------------------------------------------------
\* Types.
LEMMA StoreSteps ==
  ASSUME StoreTypeOK, NEW d \in Days
  PROVE  /\ \A h \in HourNos, c \in Contents : CommitHour(d, h, c) => StoreTypeOK'
         /\ ~SealRaises(d) /\ SealDay(d) => StoreTypeOK'
         /\ AbandonDay(d) => StoreTypeOK'
         /\ UnlinkSeal(d) => StoreTypeOK'
         /\ \A h \in HourNos : TearHour(d, h) \/ RemoveHour(d, h) => StoreTypeOK'
<1>1. ASSUME NEW h \in HourNos, NEW c \in Contents, CommitHour(d, h, c)
      PROVE  StoreTypeOK'
  BY <1>1 DEF StoreTypeOK, CommitHour
<1>2. ASSUME ~SealRaises(d), SealDay(d)  PROVE  StoreTypeOK'
  <2>1. hours[d] \in [HourNos -> Contents]
    BY <1>2 DEF StoreTypeOK, SealRaises, Readable
  <2> QED  BY <1>2, <2>1 DEF StoreTypeOK, SealDay
<1>3. ASSUME AbandonDay(d)  PROVE  StoreTypeOK'
  BY <1>3 DEF StoreTypeOK, AbandonDay
<1>4. ASSUME UnlinkSeal(d)  PROVE  StoreTypeOK'
  BY <1>4 DEF StoreTypeOK, UnlinkSeal
<1>5. ASSUME NEW h \in HourNos, TearHour(d, h) \/ RemoveHour(d, h)
      PROVE  StoreTypeOK'
  <2>1. CASE TearHour(d, h)
    BY <2>1 DEF StoreTypeOK, TearHour
  <2>2. CASE RemoveHour(d, h)
    BY <2>2 DEF StoreTypeOK, RemoveHour
  <2> QED  BY <1>5, <2>1, <2>2
<1> QED  BY <1>1, <1>2, <1>3, <1>4, <1>5

LEMMA ListingsAreContents ==
  ASSUME NEW d \in Days, NEW h \in HourNos  PROVE  Listings(d, h) \subseteq Contents
BY DEF Listings, Contents

LEMMA NextProductType ==
  ASSUME TypeOK, NEW done \in SUBSET Products, NextProduct(done)
  PROVE  product' \in Products /\ pc' \in PCs /\ cutoff' \in Days
<1>1. CASE product = "heroes"
  BY <1>1 DEF TypeOK, NextProduct, Products, PCs
<1>2. CASE product # "heroes" /\ ~(BothPublished(done) /\ PruneApplies)
  BY <1>2 DEF TypeOK, NextProduct, Products, PCs
<1>3. CASE product # "heroes" /\ BothPublished(done) /\ PruneApplies
  <2>1. RetentionCutoff(SealedDays) \in Days
    <3>1. SealedDays \in SUBSET Days /\ Cardinality(SealedDays) >= RetainDays
      BY <1>3 DEF SealedDays, PruneApplies
    <3> QED  BY <3>1, RetentionCutoffKeeps
  <2> QED  BY <1>3, <2>1 DEF TypeOK, NextProduct, Products, PCs
<1> QED  BY <1>1, <1>2, <1>3

\* What a run keeps in memory, apart from the disk and the clock.
MemoryTypeOK ==
    /\ local \in [Products -> SUBSET Days] /\ public \in [Products -> SUBSET Days]
    /\ history \in {"none", "ok", "partial", "failed"}
    /\ pc \in PCs
    /\ now \in Days \X Halves
    /\ anchor \in Days \cup {NoAnchor} /\ publish \in BOOLEAN
    /\ todo \subseteq Days /\ plan \subseteq Days \X HourNos
    /\ expired \in BOOLEAN /\ failed \in BOOLEAN /\ aborted \in BOOLEAN
    /\ window \subseteq Days /\ product \in Products /\ published \subseteq Products
    /\ cutoff \in Days
    /\ retired \subseteq Days

ClockTypeOK ==
    /\ today \in Days /\ half \in Halves
    /\ ticks \in 0 .. MaxRunTicks /\ crashes \in 0 .. MaxCrashes

LEMMA TypeParts == TypeOK <=> StoreTypeOK /\ ClockTypeOK /\ MemoryTypeOK
BY DEF TypeOK, ClockTypeOK, MemoryTypeOK

LEMMA EpochIsDay ==
  Epoch \in Days /\ 0 \in Halves /\ 0 \in 0 .. MaxRunTicks /\ 0 \in 0 .. MaxCrashes
BY CalendarAssumption, PipelineAssumption DEF Days, Halves

LEMMA InitType == Init => TypeOK
<1> SUFFICES ASSUME Init  PROVE  TypeOK
  OBVIOUS
<1>1. StoreTypeOK
  BY DEF Init, StoreInit, StoreTypeOK
<1>2. ClockTypeOK
  BY EpochIsDay DEF Init, ClockTypeOK
<1>3. MemoryTypeOK
  BY EpochIsDay DEF Init, MemoryTypeOK, Products, PCs
<1> QED  BY <1>1, <1>2, <1>3, TypeParts

\* The store and the clock are typed by what each action does to them.
LEMMA StoreStepType == TypeOK /\ [Next]_vars => StoreTypeOK'
<1> SUFFICES ASSUME TypeOK, [Next]_vars  PROVE  StoreTypeOK'
  OBVIOUS
<1>0. StoreTypeOK
  BY TypeParts
<1>1. ASSUME UNCHANGED disk  PROVE  StoreTypeOK'
  BY <1>0, <1>1 DEF StoreTypeOK
<1>2. ASSUME NEW d \in Days, NEW h \in HourNos, IngestHour(d, h)
      PROVE  StoreTypeOK'
  <2>1. PICK c \in Contents : UNCHANGED disk \/ CommitHour(d, h, c)
    BY <1>2, ListingsAreContents DEF IngestHour
  <2> QED  BY <1>0, <1>1, <2>1, StoreSteps
<1>3. ASSUME NEW d \in Days, AbandonExpiredDay(d)  PROVE  StoreTypeOK'
  BY <1>0, <1>1, <1>3, StoreSteps DEF AbandonExpiredDay
<1>4. ASSUME NEW d \in Days, SealTriedDay(d)  PROVE  StoreTypeOK'
  BY <1>0, <1>1, <1>4, StoreSteps DEF SealTriedDay
<1>5. ASSUME NEW d \in Days, PruneSeal(d)  PROVE  StoreTypeOK'
  BY <1>0, <1>5, StoreSteps DEF PruneSeal
<1>6. ASSUME NEW d \in Days, NEW h \in HourNos, PruneHour(d, h)
      PROVE  StoreTypeOK'
  BY <1>0, <1>6, StoreSteps DEF PruneHour
<1>7. ASSUME NEW d \in Days, NEW h \in HourNos, FailHour(d, h) \/ ExpireHour(d, h)
      PROVE  StoreTypeOK'
  BY <1>1, <1>7 DEF FailHour, ExpireHour
<1>8. ASSUME NEW d \in Days, FailSeal(d)  PROVE  StoreTypeOK'
  BY <1>0, <1>1, <1>8, StoreSteps DEF FailSeal
<1>9. CASE \/ UNCHANGED vars \/ Tick \/ StartRun \/ Abort \/ Crash \/ PlanHeal
           \/ EndHeal \/ SelectWindow \/ EndPruneSeals \/ EndPrune \/ Finish
  BY <1>1, <1>9 DEF vars, Tick, StartRun, Abort, Crash, PlanHeal, EndHeal,
     SelectWindow, EndPruneSeals, EndPrune, Finish
<1>10. CASE BuildProduct \/ FailBuild \/ PublishProduct \/ FailPublish
  BY <1>1, <1>10 DEF BuildProduct, FailBuild, PublishProduct, FailPublish
<1> QED
  BY <1>2, <1>3, <1>4, <1>5, <1>6, <1>7, <1>8, <1>9, <1>10
     DEF Next, RunStep, HealStep

LEMMA ClockStepType == TypeOK /\ [Next]_vars => ClockTypeOK'
<1> SUFFICES ASSUME TypeOK, [Next]_vars  PROVE  ClockTypeOK'
  OBVIOUS
<1>0. ClockTypeOK
  BY TypeParts
<1>1. ASSUME UNCHANGED <<clock, ticks, crashes>>  PROVE  ClockTypeOK'
  BY <1>0, <1>1 DEF ClockTypeOK
<1>2. CASE Tick
  <2>1. today' \in Days /\ half' \in Halves
    BY <1>0, <1>2, EpochIsDay, CalendarAssumption DEF Tick, ClockTypeOK, Days
  <2>2. ticks' \in 0 .. MaxRunTicks
    BY <1>0, <1>2, PipelineAssumption DEF Tick, ClockTypeOK
  <2> QED  BY <1>0, <1>2, <2>1, <2>2 DEF Tick, ClockTypeOK
<1>3. CASE Crash
  BY <1>0, <1>3, EpochIsDay, PipelineAssumption DEF Crash, NoRun, ClockTypeOK
<1>4. CASE Finish
  BY <1>0, <1>4, EpochIsDay DEF Finish, NoRun, ClockTypeOK
<1>5. ASSUME NEW d \in Days, HealStep(d)  PROVE  ClockTypeOK'
  BY <1>1, <1>5 DEF HealStep, IngestHour, FailHour, ExpireHour, AbandonExpiredDay,
     SealTriedDay, FailSeal
<1>6. ASSUME NEW d \in Days, PruneSeal(d) \/ \E h \in HourNos : PruneHour(d, h)
      PROVE  ClockTypeOK'
  BY <1>1, <1>6 DEF PruneSeal, PruneHour
<1>7. CASE \/ UNCHANGED vars \/ StartRun \/ Abort \/ PlanHeal
           \/ EndHeal \/ SelectWindow \/ EndPruneSeals \/ EndPrune
  BY <1>1, <1>7 DEF vars, StartRun, Abort, PlanHeal, EndHeal, SelectWindow,
     EndPruneSeals, EndPrune
<1>8. CASE BuildProduct \/ FailBuild \/ PublishProduct \/ FailPublish
  BY <1>1, <1>8 DEF BuildProduct, FailBuild, PublishProduct, FailPublish
<1> QED
  BY <1>2, <1>3, <1>4, <1>5, <1>6, <1>7, <1>8 DEF Next, RunStep

LEMMA UnwindType == MemoryTypeOK /\ Unwind /\ UNCHANGED <<public_state, retired>> => MemoryTypeOK'
BY EpochIsDay DEF MemoryTypeOK, Unwind, Products, PCs

LEMMA NoRunType ==
  ASSUME MemoryTypeOK, NoRun, pc' = "idle", UNCHANGED <<local, public, retired>>,
         history' \in {history, "ok", "partial", "failed"}
  PROVE  MemoryTypeOK'
<1>1. history' \in {"none", "ok", "partial", "failed"}
  BY DEF MemoryTypeOK
<1>2. "idle" \in PCs /\ "heroes" \in Products
  BY DEF PCs, Products
<1>3. now' \in Days \X Halves /\ cutoff' \in Days
  BY EpochIsDay DEF NoRun
<1> QED  BY <1>1, <1>2, <1>3 DEF MemoryTypeOK, NoRun

LEMMA MemoryStepType == TypeOK /\ [Next]_vars => MemoryTypeOK'
<1> SUFFICES ASSUME TypeOK, [Next]_vars  PROVE  MemoryTypeOK'
  OBVIOUS
<1>0. MemoryTypeOK /\ ClockTypeOK
  BY TypeParts
<1>1. CASE UNCHANGED vars \/ Tick \/ EndHeal \/ EndPruneSeals \/ EndPrune
  BY <1>0, <1>1 DEF MemoryTypeOK, vars, Tick, EndHeal, EndPruneSeals, EndPrune, PCs
<1>2. CASE StartRun
  BY <1>0, <1>2, PipelineAssumption DEF MemoryTypeOK, ClockTypeOK, StartRun, PCs
<1>3. CASE PlanHeal
  <2>1. CASE Unwind
    BY <1>0, <1>3, <2>1, UnwindType DEF PlanHeal
  <2>2. CASE ~Unwind
    BY <1>0, <1>3, <2>2 DEF PlanHeal, MemoryTypeOK, HealingDays, PCs
  <2> QED  BY <2>1, <2>2
<1>4. ASSUME NEW d \in Days, HealStep(d)  PROVE  MemoryTypeOK'
  <2>1. ASSUME NEW h \in HourNos, IngestHour(d, h)  PROVE  MemoryTypeOK'
    <3>1. CASE Unwind
      BY <1>0, <2>1, <3>1, UnwindType DEF IngestHour
    <3>2. CASE ~Unwind
      BY <1>0, <2>1, <3>2 DEF IngestHour, MemoryTypeOK
    <3> QED  BY <3>1, <3>2
  <2>2. ASSUME NEW h \in HourNos, FailHour(d, h) \/ ExpireHour(d, h)
        PROVE  MemoryTypeOK'
    BY <1>0, <2>2 DEF FailHour, ExpireHour, MemoryTypeOK
  <2>3. CASE AbandonExpiredDay(d)
    <3>1. CASE Unwind
      BY <1>0, <2>3, <3>1, UnwindType DEF AbandonExpiredDay
    <3>2. CASE ~Unwind
      BY <1>0, <2>3, <3>2 DEF AbandonExpiredDay, MemoryTypeOK
    <3> QED  BY <3>1, <3>2
  <2>4. CASE SealTriedDay(d) \/ FailSeal(d)
    BY <1>0, <2>4 DEF SealTriedDay, FailSeal, MemoryTypeOK
  <2> QED  BY <1>4, <2>1, <2>2, <2>3, <2>4 DEF HealStep
<1>5. CASE SelectWindow
  <2>1. SelectAnalysisWindow(SealedDays, anchor) \subseteq Days
    BY DEF SelectAnalysisWindow, SealedDays
  <2> QED  BY <1>0, <1>5, <2>1 DEF SelectWindow, MemoryTypeOK, PCs
<1>6. CASE BuildProduct
  BY <1>0, <1>6, NextProductType DEF BuildProduct, MemoryTypeOK, PCs
<1>7. CASE FailBuild
  BY <1>0, <1>7, NextProductType DEF FailBuild, MemoryTypeOK
<1>8. CASE PublishProduct
  BY <1>0, <1>8, NextProductType DEF PublishProduct, MemoryTypeOK
<1>9. CASE FailPublish
  BY <1>0, <1>9, NextProductType DEF FailPublish, MemoryTypeOK
<1>10. ASSUME NEW d \in Days, PruneSeal(d)  PROVE  MemoryTypeOK'
  BY <1>0, <1>10 DEF PruneSeal, MemoryTypeOK
<1>11. ASSUME NEW d \in Days, NEW h \in HourNos, PruneHour(d, h)
       PROVE  MemoryTypeOK'
  BY <1>0, <1>11 DEF PruneHour, MemoryTypeOK
<1>12. CASE Finish
  BY <1>0, <1>12, NoRunType DEF Finish, Outcome
<1>13. CASE Abort
  BY <1>0, <1>13, UnwindType DEF Abort
<1>14. CASE Crash
  BY <1>0, <1>14, NoRunType DEF Crash
<1> QED
  BY <1>1, <1>2, <1>3, <1>4, <1>5, <1>6, <1>7, <1>8, <1>9, <1>10, <1>11, <1>12,
     <1>13, <1>14 DEF Next, RunStep

LEMMA TypeStep == TypeOK /\ [Next]_vars => TypeOK'
<1> SUFFICES ASSUME TypeOK, [Next]_vars  PROVE  TypeOK'
  OBVIOUS
<1>1. StoreTypeOK' /\ ClockTypeOK' /\ MemoryTypeOK'
  BY StoreStepType, ClockStepType, MemoryStepType
<1> QED  BY <1>1 DEF TypeOK, ClockTypeOK, MemoryTypeOK

\* In every execution every variable of the pipeline has its type, the cutoff of
\* a prune included: a run of prune always finds the seal it keeps from.
THEOREM TypeCorrect == Spec => []TypeOK
BY InitType, TypeStep, PTL DEF Spec

-----------------------------------------------------------------------------
\* Seals and committed facts.

\* now, the captured instant, is not after the clock
ClockAhead == now[1] < today \/ (now[1] = today /\ now[2] <= half)

\* every hour a run is going to fetch was settled at the captured instant
PlanSettled ==
  \A d \in Days, h \in HourNos :
    <<d, h>> \in plan => IsHourSettled(d, h, now[1], now[2])

\* no plan outlives its run
IdlePlanEmpty == pc = "idle" => plan = {}

\* once the seal loop of prune has ended, no sealed day is before the cutoff
PruneOrder == pc = "prune_hours" => \A d \in SealedDays : ~(d < cutoff)

SealInv ==
  /\ TypeOK /\ ClockAhead /\ PlanSettled /\ IdlePlanEmpty /\ PruneOrder
  /\ NoEarlyCommit /\ SealsBackedByFacts

\* The listing of an hour that was settled at an earlier instant is complete.
LEMMA SettledListing ==
  ASSUME NEW d \in Days, NEW h \in HourNos, TypeOK, ClockAhead,
         IsHourSettled(d, h, now[1], now[2])
  PROVE  Listings(d, h) = Finals
<1>1. /\ now[1] \in Int /\ now[2] \in Int /\ now[2] <= 2 * HoursPerDay - 1
      /\ today \in Int /\ half \in Int /\ 0 <= half /\ d \in Int /\ h \in Int
      /\ HoursPerDay \in Int
  BY CalendarAssumption DEF TypeOK, Days, Halves, HourNos
<1>2. ~StillArriving(d, h)
  BY <1>1 DEF ClockAhead, IsHourSettled, StillArriving, SettleLag
<1> QED  BY <1>2 DEF Listings

LEMMA ClockStep == SealInv /\ [Next]_vars => ClockAhead'
<1> SUFFICES ASSUME SealInv, [Next]_vars  PROVE  ClockAhead'
  OBVIOUS
<1>0. TypeOK /\ ClockAhead
  BY DEF SealInv
<1>1. /\ today \in Int /\ half \in Int /\ now[1] \in Int /\ now[2] \in Int
      /\ Epoch \in Int /\ Epoch <= today /\ 0 <= half
  BY <1>0, CalendarAssumption DEF TypeOK, Days, Halves
<1>2. ASSUME UNCHANGED <<clock, now>>  PROVE  ClockAhead'
  BY <1>0, <1>2 DEF ClockAhead
<1>3. ASSUME UNCHANGED clock, NoRun  PROVE  ClockAhead'
  BY <1>1, <1>3 DEF ClockAhead, NoRun
<1>4. CASE Tick
  BY <1>0, <1>1, <1>4 DEF Tick, ClockAhead
<1>5. CASE StartRun
  BY <1>1, <1>5 DEF StartRun, ClockAhead
<1>6. CASE Crash \/ Finish
  BY <1>3, <1>6 DEF Crash, Finish
<1>7. CASE UNCHANGED vars \/ Abort \/ PlanHeal \/ EndHeal \/ SelectWindow
           \/ EndPruneSeals \/ EndPrune
  BY <1>2, <1>7 DEF vars, Abort, PlanHeal, Unwind, EndHeal, SelectWindow,
     EndPruneSeals, EndPrune
<1>8. CASE BuildProduct \/ FailBuild \/ PublishProduct \/ FailPublish
  BY <1>2, <1>8 DEF BuildProduct, FailBuild, PublishProduct, FailPublish
<1>9. ASSUME NEW d \in Days, HealStep(d)  PROVE  ClockAhead'
  BY <1>2, <1>9 DEF HealStep, IngestHour, FailHour, ExpireHour, AbandonExpiredDay,
     SealTriedDay, FailSeal, Unwind
<1>10. ASSUME NEW d \in Days, PruneSeal(d) \/ \E h \in HourNos : PruneHour(d, h)
       PROVE  ClockAhead'
  BY <1>2, <1>10 DEF PruneSeal, PruneHour
<1> QED
  BY <1>4, <1>5, <1>6, <1>7, <1>8, <1>9, <1>10 DEF Next, RunStep

\* Only the plan adds to the plan, at the captured instant.
LEMMA PlanStep == SealInv /\ [Next]_vars => PlanSettled'
<1> SUFFICES ASSUME SealInv, [Next]_vars  PROVE  PlanSettled'
  OBVIOUS
<1>0. PlanSettled /\ IdlePlanEmpty
  BY DEF SealInv
<1>1. ASSUME now' = now, plan' \subseteq plan  PROVE  PlanSettled'
  BY <1>0, <1>1 DEF PlanSettled, IsHourSettled
<1>2. ASSUME plan' = {}  PROVE  PlanSettled'
  BY <1>2 DEF PlanSettled
<1>3. CASE PlanHeal
  <2>1. CASE Unwind
    BY <1>2, <2>1 DEF Unwind
  <2>2. CASE ~Unwind
    <3>1. now' = now
      BY <1>3, <2>2 DEF PlanHeal
    <3>2. ASSUME NEW d \in Days, NEW h \in HourNos, <<d, h>> \in plan'
          PROVE  IsHourSettled(d, h, now[1], now[2])
      <4>1. h \in SettledMissingHours(d, MissingHours(d), now[1], now[2])
        BY <1>3, <2>2, <3>2 DEF PlanHeal
      <4> QED  BY <4>1 DEF SettledMissingHours
    <3> QED  BY <3>1, <3>2 DEF PlanSettled, IsHourSettled
  <2> QED  BY <2>1, <2>2
<1>4. CASE StartRun
  BY <1>0, <1>2, <1>4 DEF StartRun, IdlePlanEmpty
<1>5. CASE Crash \/ Finish \/ Abort
  BY <1>2, <1>5 DEF Crash, Finish, Abort, NoRun, Unwind
<1>6. CASE UNCHANGED vars \/ Tick \/ EndHeal \/ SelectWindow \/ EndPruneSeals \/ EndPrune
  BY <1>1, <1>6 DEF vars, Tick, EndHeal, SelectWindow, EndPruneSeals, EndPrune
<1>7. CASE BuildProduct \/ FailBuild \/ PublishProduct \/ FailPublish
  BY <1>1, <1>7 DEF BuildProduct, FailBuild, PublishProduct, FailPublish
<1>8. ASSUME NEW d \in Days, HealStep(d)  PROVE  PlanSettled'
  BY <1>1, <1>2, <1>8 DEF HealStep, IngestHour, FailHour, ExpireHour, AbandonExpiredDay,
     SealTriedDay, FailSeal, Unwind
<1>9. ASSUME NEW d \in Days, PruneSeal(d) \/ \E h \in HourNos : PruneHour(d, h)
       PROVE  PlanSettled'
  BY <1>1, <1>9 DEF PruneSeal, PruneHour
<1> QED
  BY <1>3, <1>4, <1>5, <1>6, <1>7, <1>8, <1>9 DEF Next, RunStep

LEMMA IdlePlanStep == SealInv /\ [Next]_vars => IdlePlanEmpty'
<1> SUFFICES ASSUME SealInv, [Next]_vars  PROVE  IdlePlanEmpty'
  OBVIOUS
<1>0. IdlePlanEmpty
  BY DEF SealInv
<1>1. ASSUME plan' = {}  PROVE  IdlePlanEmpty'
  BY <1>1 DEF IdlePlanEmpty
<1>2. ASSUME pc' # "idle"  PROVE  IdlePlanEmpty'
  BY <1>2 DEF IdlePlanEmpty
<1>3. CASE UNCHANGED vars \/ Tick
  BY <1>0, <1>3 DEF vars, Tick, IdlePlanEmpty
<1>4. CASE Crash \/ Finish \/ Abort
  BY <1>1, <1>4 DEF Crash, Finish, Abort, NoRun, Unwind
<1>5. CASE StartRun \/ PlanHeal \/ EndHeal \/ SelectWindow \/ EndPruneSeals \/ EndPrune
  BY <1>2, <1>5 DEF StartRun, PlanHeal, Unwind, EndHeal, SelectWindow,
     EndPruneSeals, EndPrune
<1>6. CASE BuildProduct \/ FailBuild \/ PublishProduct \/ FailPublish
  BY <1>2, <1>6 DEF BuildProduct, FailBuild, PublishProduct, FailPublish, NextProduct
<1>7. ASSUME NEW d \in Days, HealStep(d)  PROVE  IdlePlanEmpty'
  BY <1>2, <1>7 DEF HealStep, IngestHour, FailHour, ExpireHour, AbandonExpiredDay,
     SealTriedDay, FailSeal, Unwind
<1>8. ASSUME NEW d \in Days, PruneSeal(d) \/ \E h \in HourNos : PruneHour(d, h)
      PROVE  IdlePlanEmpty'
  BY <1>2, <1>8 DEF PruneSeal, PruneHour
<1> QED
  BY <1>3, <1>4, <1>5, <1>6, <1>7, <1>8 DEF Next, RunStep

LEMMA PruneOrderStep == SealInv /\ [Next]_vars => PruneOrder'
<1> SUFFICES ASSUME SealInv, [Next]_vars  PROVE  PruneOrder'
  OBVIOUS
<1>0. PruneOrder
  BY DEF SealInv
<1>1. ASSUME pc' # "prune_hours"  PROVE  PruneOrder'
  BY <1>1 DEF PruneOrder
<1>2. ASSUME UNCHANGED <<pc, seals, cutoff>>  PROVE  PruneOrder'
  BY <1>0, <1>2 DEF PruneOrder, SealedDays, HasSeal
<1>3. CASE EndPruneSeals
  BY <1>3 DEF EndPruneSeals, ExpiredSeals, PruneOrder, SealedDays, HasSeal
<1>4. CASE UNCHANGED vars \/ Tick
  BY <1>2, <1>4 DEF vars, Tick
<1>5. CASE StartRun \/ PlanHeal \/ EndHeal \/ SelectWindow \/ EndPrune
           \/ Crash \/ Finish \/ Abort
  BY <1>1, <1>5 DEF StartRun, PlanHeal, Unwind, EndHeal, SelectWindow, EndPrune,
     Crash, Finish, Abort
<1>6. CASE BuildProduct \/ FailBuild \/ PublishProduct \/ FailPublish
  BY <1>1, <1>6 DEF BuildProduct, FailBuild, PublishProduct, FailPublish, NextProduct
<1>7. ASSUME NEW d \in Days, HealStep(d) \/ PruneSeal(d)  PROVE  PruneOrder'
  BY <1>1, <1>7 DEF HealStep, IngestHour, FailHour, ExpireHour, AbandonExpiredDay,
     SealTriedDay, FailSeal, Unwind, PruneSeal
<1>8. ASSUME NEW d \in Days, NEW h \in HourNos, PruneHour(d, h)  PROVE  PruneOrder'
  BY <1>2, <1>8 DEF PruneHour, TearHour, RemoveHour
<1> QED
  BY <1>3, <1>4, <1>5, <1>6, <1>7, <1>8 DEF Next, RunStep

\* What a step does to the disk: nothing, or one operation of the store that it
\* was allowed to make.
LEMMA DiskStep ==
  ASSUME SealInv, [Next]_vars
  PROVE  \/ UNCHANGED disk
         \/ \E d \in Days, h \in HourNos, c \in Finals :
              /\ IsHourSettled(d, h, now[1], now[2]) /\ d \in todo
              /\ ~CommitRaises(d, h, c) /\ CommitHour(d, h, c)
         \/ \E d \in Days : AbandonDay(d)
         \/ \E d \in Days : ~SealRaises(d) /\ SealDay(d)
         \/ \E d \in Days : UnlinkSeal(d)
         \/ \E d \in Days, h \in HourNos :
              /\ d < cutoff /\ ~HasSeal(d)
              /\ hours[d][h] # Absent
              /\ TearHour(d, h) \/ (RemoveHour(d, h) /\ hours[d][h] = Torn)
<1> DEFINE Goal ==
         \/ UNCHANGED disk
         \/ \E d \in Days, h \in HourNos, c \in Finals :
              /\ IsHourSettled(d, h, now[1], now[2]) /\ d \in todo
              /\ ~CommitRaises(d, h, c) /\ CommitHour(d, h, c)
         \/ \E d \in Days : AbandonDay(d)
         \/ \E d \in Days : ~SealRaises(d) /\ SealDay(d)
         \/ \E d \in Days : UnlinkSeal(d)
         \/ \E d \in Days, h \in HourNos :
              /\ d < cutoff /\ ~HasSeal(d)
              /\ hours[d][h] # Absent
              /\ TearHour(d, h) \/ (RemoveHour(d, h) /\ hours[d][h] = Torn)
<1>1. ASSUME NEW d \in Days, NEW h \in HourNos, IngestHour(d, h)  PROVE  Goal
  <2>1. <<d, h>> \in plan /\ d \in todo
    BY <1>1 DEF IngestHour, IsCurrentHour, IsCurrentDay
  <2>2. TypeOK /\ ClockAhead /\ IsHourSettled(d, h, now[1], now[2])
    BY <2>1 DEF SealInv, PlanSettled
  <2>3. Listings(d, h) = Finals
    BY <2>2, SettledListing
  <2> QED  BY <1>1, <2>1, <2>2, <2>3 DEF IngestHour
<1>2. ASSUME NEW d \in Days, NEW h \in HourNos, FailHour(d, h) \/ ExpireHour(d, h)
      PROVE  Goal
  BY <1>2 DEF FailHour, ExpireHour
<1>3. ASSUME NEW d \in Days, AbandonExpiredDay(d)  PROVE  Goal
  BY <1>3 DEF AbandonExpiredDay
<1>4. ASSUME NEW d \in Days, SealTriedDay(d)  PROVE  Goal
  <2>1. CASE UNCHANGED disk
    BY <2>1
  <2>2. CASE ~UNCHANGED disk
    BY <1>4, <2>2 DEF SealTriedDay
  <2> QED  BY <2>1, <2>2
<1>5. ASSUME NEW d \in Days, FailSeal(d)  PROVE  Goal
  BY <1>5 DEF FailSeal
<1>6. ASSUME NEW d \in Days, PruneSeal(d)  PROVE  Goal
  BY <1>6 DEF PruneSeal
<1>7. ASSUME NEW d \in Days, NEW h \in HourNos, PruneHour(d, h)  PROVE  Goal
  <2>1. d < cutoff /\ hours[d][h] # Absent
    BY <1>7 DEF PruneHour, IsFirstExpired, ExpiredHours
  <2>2. ~HasSeal(d)
    BY <1>7, <2>1 DEF PruneHour, SealInv, PruneOrder, SealedDays
  <2> QED  BY <1>7, <2>1, <2>2 DEF PruneHour
<1>8. CASE UNCHANGED vars \/ Tick \/ StartRun \/ PlanHeal \/ EndHeal \/ SelectWindow
           \/ EndPruneSeals \/ EndPrune \/ Crash \/ Finish \/ Abort
  BY <1>8 DEF vars, Tick, StartRun, PlanHeal, EndHeal, SelectWindow, EndPruneSeals,
     EndPrune, Crash, Finish, Abort
<1>9. CASE BuildProduct \/ FailBuild \/ PublishProduct \/ FailPublish
  BY <1>9 DEF BuildProduct, FailBuild, PublishProduct, FailPublish
<1>10. Goal
  BY <1>1, <1>2, <1>3, <1>4, <1>5, <1>6, <1>7, <1>8, <1>9 DEF Next, RunStep, HealStep
<1> QED  BY <1>10

LEMMA NoEarlyCommitStep == SealInv /\ [Next]_vars => NoEarlyCommit'
<1> SUFFICES ASSUME SealInv, [Next]_vars  PROVE  NoEarlyCommit'
  OBVIOUS
<1>0. StoreTypeOK /\ NoEarlyCommit
  BY TypeParts DEF SealInv
<1>1. ASSUME hours' = hours  PROVE  NoEarlyCommit'
  BY <1>0, <1>1 DEF NoEarlyCommit
<1>2. ASSUME NEW d \in Days, NEW h \in HourNos, NEW c,
             c # Growing, hours' = [hours EXCEPT ![d][h] = c]
      PROVE  NoEarlyCommit'
  BY <1>0, <1>2 DEF NoEarlyCommit, StoreTypeOK
<1>3. ASSUME NEW d \in Days, NEW h \in HourNos, NEW c \in Finals, CommitHour(d, h, c)
      PROVE  NoEarlyCommit'
  <2>1. c # Growing /\ hours[d][h] # Growing
    BY <1>0, StoreAssumption DEF NoEarlyCommit
  <2>2. hours' = [hours EXCEPT ![d][h] = IF hours[d][h] = Absent THEN c ELSE hours[d][h]]
    BY <1>3 DEF CommitHour
  <2> QED  BY <1>2, <2>1, <2>2
<1>4. ASSUME NEW d \in Days, NEW h \in HourNos, TearHour(d, h) \/ RemoveHour(d, h)
      PROVE  NoEarlyCommit'
  <2>1. Torn # Growing /\ Absent # Growing
    BY StoreAssumption DEF Contents
  <2> QED  BY <1>2, <1>4, <2>1 DEF TearHour, RemoveHour
<1> QED
  BY <1>1, <1>3, <1>4, DiskStep DEF AbandonDay, SealDay, UnlinkSeal

LEMMA SealsStep == SealInv /\ [Next]_vars => SealsBackedByFacts'
<1> SUFFICES ASSUME SealInv, [Next]_vars  PROVE  SealsBackedByFacts'
  OBVIOUS
<1>0. StoreTypeOK /\ NoEarlyCommit /\ SealsBackedByFacts
  BY TypeParts DEF SealInv
<1>1. ASSUME UNCHANGED <<hours, seals>>  PROVE  SealsBackedByFacts'
  BY <1>0, <1>1 DEF SealsBackedByFacts, SealedDays, HasSeal
<1>2. ASSUME NEW d \in Days, NEW h \in HourNos, NEW c \in Finals,
             ~CommitRaises(d, h, c), CommitHour(d, h, c)
      PROVE  SealsBackedByFacts'
  <2>1. ASSUME NEW e \in SealedDays  PROVE  hours'[e] = hours[e]
    <3>1. CASE e = d
      <4>1. hours[d] \in [HourNos -> Contents] /\ hours[d][h] # Absent
        BY <1>0, <2>1, <3>1, StoreAssumption DEF SealsBackedByFacts, Contents
      <4> QED  BY <1>0, <1>2, <3>1, <4>1 DEF CommitHour, StoreTypeOK
    <3>2. CASE e # d
      BY <1>0, <1>2, <3>2 DEF CommitHour, StoreTypeOK, SealedDays
    <3> QED  BY <3>1, <3>2
  <2>2. seals' = seals
    BY <1>2 DEF CommitHour
  <2> QED  BY <1>0, <2>1, <2>2 DEF SealsBackedByFacts, SealedDays, HasSeal
<1>3. ASSUME NEW d \in Days, ~SealRaises(d), SealDay(d)  PROVE  SealsBackedByFacts'
  <2>1. hours[d] \in [HourNos -> Finals]
    <3>1. hours[d] \in [HourNos -> Contents]
      BY <1>0, <1>3 DEF SealRaises, Readable, StoreTypeOK
    <3>2. \A h \in HourNos : hours[d][h] # Growing
      BY <1>0 DEF NoEarlyCommit
    <3> QED  BY <3>1, <3>2 DEF Contents
  <2>2. hours' = hours /\ seals' = [seals EXCEPT ![d] = hours[d]]
    BY <1>3 DEF SealDay
  <2> QED  BY <1>0, <2>1, <2>2 DEF SealsBackedByFacts, SealedDays, HasSeal, StoreTypeOK
<1>4. ASSUME NEW d \in Days, UnlinkSeal(d)  PROVE  SealsBackedByFacts'
  BY <1>0, <1>4 DEF UnlinkSeal, SealsBackedByFacts, SealedDays, HasSeal, StoreTypeOK
<1>5. ASSUME NEW d \in Days, NEW h \in HourNos, ~HasSeal(d),
             TearHour(d, h) \/ RemoveHour(d, h)
      PROVE  SealsBackedByFacts'
  <2>1. \A e \in SealedDays : hours'[e] = hours[e]
    BY <1>0, <1>5 DEF TearHour, RemoveHour, SealedDays, StoreTypeOK
  <2>2. seals' = seals
    BY <1>5 DEF TearHour, RemoveHour
  <2> QED  BY <1>0, <2>1, <2>2 DEF SealsBackedByFacts, SealedDays, HasSeal
<1> QED
  BY <1>1, <1>2, <1>3, <1>4, <1>5, DiskStep DEF AbandonDay

\* What is planned was settled at the run's clock, what is sealed is whole, and a
\* prune that deletes hours has removed every seal below its cutoff before
\* (PipelineDriver._heal, FactStore.seal_day and prune).
THEOREM SealInvariant == Spec => []SealInv
<1>1. Init => SealInv
  <2> SUFFICES ASSUME Init  PROVE  SealInv
    OBVIOUS
  <2>1. TypeOK
    BY InitType
  <2>2. ClockAhead /\ PlanSettled /\ IdlePlanEmpty /\ PruneOrder
    BY DEF Init, ClockAhead, PlanSettled, IdlePlanEmpty, PruneOrder
  <2>3. SealedDays = {}
    BY DEF Init, StoreInit, SealedDays, HasSeal
  <2>4. NoEarlyCommit /\ SealsBackedByFacts
    BY <2>3, StoreAssumption DEF Init, StoreInit, NoEarlyCommit, SealsBackedByFacts, Contents
  <2> QED  BY <2>1, <2>2, <2>4 DEF SealInv
<1>2. SealInv /\ [Next]_vars => SealInv'
  <2> SUFFICES ASSUME SealInv, [Next]_vars  PROVE  SealInv'
    OBVIOUS
  <2>1. TypeOK'
    BY TypeStep DEF SealInv
  <2>2. ClockAhead' /\ PlanSettled' /\ IdlePlanEmpty' /\ PruneOrder'
    BY ClockStep, PlanStep, IdlePlanStep, PruneOrderStep
  <2>3. NoEarlyCommit' /\ SealsBackedByFacts'
    BY NoEarlyCommitStep, SealsStep
  <2> QED  BY <2>1, <2>2, <2>3 DEF SealInv
<1> QED  BY <1>1, <1>2, PTL DEF Spec

\* No run ever commits an hour from a listing that could still grow, however
\* long it works after capturing its clock (SourceHourIntake, is_hour_settled).
THEOREM NothingCommittedEarly == Spec => []NoEarlyCommit
<1>1. SealInv => NoEarlyCommit
  BY DEF SealInv
<1> QED  BY <1>1, SealInvariant, PTL

\* Wherever runs are lost or prunes interrupted, every seal on disk names hours
\* that are whole, unchanged and final (FactStore.seal_day, FactStore.prune).
THEOREM SealsAlwaysBacked == Spec => []SealsBackedByFacts
<1>1. SealInv => SealsBackedByFacts
  BY DEF SealInv
<1> QED  BY <1>1, SealInvariant, PTL

\* A committed hour keeps its bytes until retention removes it, below the cutoff
\* and after its day's seal (FactStore.commit_hour, FactStore.prune).
THEOREM FactsImmutable == Spec => CommittedFactsImmutable
<1>1. ASSUME SealInv, [Next]_vars, NEW d \in Days, NEW h \in HourNos,
             hours[d][h] \in Contents
      PROVE  \/ hours'[d][h] = hours[d][h]
             \/ hours'[d][h] = Torn /\ d < cutoff /\ ~HasSeal(d)
  <2>0. StoreTypeOK /\ hours[d][h] # Absent /\ hours[d][h] # Torn
    BY <1>1, TypeParts, StoreAssumption DEF SealInv
  <2>1. ASSUME hours' = hours  PROVE  hours'[d][h] = hours[d][h]
    BY <2>1
  <2>2. ASSUME NEW e \in Days, NEW g \in HourNos, NEW c, CommitHour(e, g, c)
        PROVE  hours'[d][h] = hours[d][h]
    BY <2>0, <2>2 DEF CommitHour, StoreTypeOK
  <2>3. ASSUME NEW e \in Days, NEW g \in HourNos, e < cutoff, ~HasSeal(e), TearHour(e, g)
        PROVE  \/ hours'[d][h] = hours[d][h]
               \/ hours'[d][h] = Torn /\ d < cutoff /\ ~HasSeal(d)
    BY <2>0, <2>3 DEF TearHour, StoreTypeOK
  <2>4. ASSUME NEW e \in Days, NEW g \in HourNos, RemoveHour(e, g), hours[e][g] = Torn
        PROVE  hours'[d][h] = hours[d][h]
    BY <2>0, <2>4 DEF RemoveHour, StoreTypeOK
  <2> QED
    BY <1>1, <2>1, <2>2, <2>3, <2>4, DiskStep DEF AbandonDay, SealDay, UnlinkSeal
<1>2. SealInv /\ [Next]_vars =>
        [\A d \in Days, h \in HourNos :
           hours[d][h] \in Contents =>
             \/ hours'[d][h] = hours[d][h]
             \/ hours'[d][h] = Torn /\ d < cutoff /\ ~HasSeal(d)]_vars
  BY <1>1
<1> QED  BY <1>2, SealInvariant, PTL DEF Spec, CommittedFactsImmutable

=============================================================================
