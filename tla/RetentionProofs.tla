-------------------------- MODULE RetentionProofs ---------------------------
(***************************************************************************)
(* Healing and retention do not meet, as long as the healing window is at  *)
(* most one day longer than fact retention: what a prune tears or retires  *)
(* is older than any day that the present or a later run will heal.        *)
(*                                                                         *)
(* The argument is about distances.  A sealed day is before today, because *)
(* its last hour has settled; the cutoff of a prune has RetainDays sealed  *)
(* days at or after it, so it is at least RetainDays before today; and the *)
(* clock only goes on.                                                     *)
(***************************************************************************)
EXTENDS PipelineProofs

USE DEF disk, clock, public_state, runState, aux

\* an hour that was ever committed is settled by the clock
CommittedSettled ==
  \A d \in Days, h \in HourNos : hours[d][h] # Absent => IsHourSettled(d, h, today, half)

\* the cutoff of a prune under way
CutoffBehind == pc \in {"prune_seals", "prune_hours"} => cutoff + RetainDays <= today

\* half-deleted hours and retired days are older than retention
TornOld    == \A d \in Days : ScanRaises(d) => d + RetainDays < today
RetiredOld == \A d \in retired : d + RetainDays < today

DistanceInv == CommittedSettled /\ CutoffBehind /\ TornOld /\ RetiredOld

LEMMA Integral ==
  ASSUME TypeOK
  PROVE  /\ Days \subseteq Int /\ HourNos \subseteq Int
         /\ today \in Int /\ half \in Int /\ cutoff \in Int /\ RetainDays \in Int
         /\ 0 <= half /\ half <= 2 * HoursPerDay - 1 /\ HoursPerDay \in Int
         /\ now[1] \in Int /\ now[2] \in Int /\ now[2] <= 2 * HoursPerDay - 1
BY CalendarAssumption, RetentionAssumption DEF TypeOK, Days, HourNos, Halves

\* An hour that was settled at the captured instant is settled by the clock.
LEMMA SettledByClock ==
  ASSUME TypeOK, ClockAhead, NEW d \in Days, NEW h \in HourNos,
         IsHourSettled(d, h, now[1], now[2])
  PROVE  IsHourSettled(d, h, today, half)
<1>1. d \in Int /\ h \in Int
  BY Integral
<1> QED  BY <1>1, Integral DEF ClockAhead, IsHourSettled, SettleLag

\* The clock goes on, and only by Tick, which does nothing else.
LEMMA ClockOnly ==
  ASSUME TypeOK, [Next]_vars
  PROVE  UNCHANGED clock \/ (Tick /\ UNCHANGED <<disk, pc, cutoff, retired, now, todo>>)
<1>1. CASE Tick
  BY <1>1 DEF Tick
<1>2. ASSUME NEW d \in Days, HealStep(d)  PROVE  UNCHANGED clock
  BY <1>2 DEF HealStep, IngestHour, FailHour, ExpireHour, AbandonExpiredDay,
     SealTriedDay, FailSeal
<1>3. ASSUME NEW d \in Days, PruneSeal(d) \/ \E h \in HourNos : PruneHour(d, h)
      PROVE  UNCHANGED clock
  BY <1>3 DEF PruneSeal, PruneHour
<1>4. CASE UNCHANGED vars \/ StartRun \/ PlanHeal \/ EndHeal \/ SelectWindow
           \/ EndPruneSeals \/ EndPrune \/ Crash \/ Finish \/ Abort
  BY <1>4 DEF vars, StartRun, PlanHeal, EndHeal, SelectWindow, EndPruneSeals,
     EndPrune, Crash, Finish, Abort
<1>5. CASE BuildProduct \/ FailBuild \/ PublishProduct \/ FailPublish
  BY <1>5 DEF BuildProduct, FailBuild, PublishProduct, FailPublish
<1> QED  BY <1>1, <1>2, <1>3, <1>4, <1>5 DEF Next, RunStep

LEMMA TickOn ==
  ASSUME TypeOK, Tick
  PROVE  /\ today' = today \/ today' = today + 1
         /\ \A d \in Days, h \in HourNos :
              IsHourSettled(d, h, today, half) => IsHourSettled(d, h, today', half')
<1>1. \/ today' = today /\ half' = half + 1
      \/ today' = today + 1 /\ half' = 0
  BY DEF Tick
<1>2. \A d \in Days, h \in HourNos :
        IsHourSettled(d, h, today, half) => IsHourSettled(d, h, today', half')
  BY <1>1, Integral DEF IsHourSettled, SettleLag
<1> QED  BY <1>1, <1>2

\* An hour is committed only when it was settled at the captured instant.
LEMMA CommittedStep ==
  ASSUME SealInv, [Next]_vars, NEW d \in Days, NEW h \in HourNos, hours'[d][h] # Absent
  PROVE  hours[d][h] # Absent \/ IsHourSettled(d, h, now[1], now[2])
<1>0. StoreTypeOK
  BY TypeParts DEF SealInv
<1>1. CASE UNCHANGED hours
  BY <1>1
<1>2. ASSUME NEW e \in Days, NEW g \in HourNos, NEW c, CommitHour(e, g, c),
             IsHourSettled(e, g, now[1], now[2])
      PROVE  hours[d][h] # Absent \/ IsHourSettled(d, h, now[1], now[2])
  <2>1. hours'[d][h] = hours[d][h] \/ (d = e /\ h = g)
    BY <1>0, <1>2 DEF CommitHour, StoreTypeOK
  <2> QED  BY <1>2, <2>1
<1>3. ASSUME NEW e \in Days, NEW g \in HourNos, hours[e][g] # Absent,
             TearHour(e, g) \/ RemoveHour(e, g)
      PROVE  hours[d][h] # Absent
  <2>1. hours'[d][h] = hours[d][h] \/ (d = e /\ h = g)
    BY <1>0, <1>3 DEF TearHour, RemoveHour, StoreTypeOK
  <2> QED  BY <1>3, <2>1
<1> QED  BY <1>1, <1>2, <1>3, DiskStep DEF AbandonDay, SealDay, UnlinkSeal

LEMMA CommittedSettledStep ==
  SealInv /\ DistanceInv /\ [Next]_vars => CommittedSettled'
<1> SUFFICES ASSUME SealInv, DistanceInv, [Next]_vars, NEW d \in Days, NEW h \in HourNos,
                    hours'[d][h] # Absent
             PROVE  IsHourSettled(d, h, today', half')
  BY DEF CommittedSettled
<1>0. TypeOK /\ ClockAhead /\ CommittedSettled
  BY DEF SealInv, DistanceInv
<1>1. IsHourSettled(d, h, today, half)
  BY <1>0, CommittedStep, SettledByClock DEF CommittedSettled
<1> QED  BY <1>0, <1>1, ClockOnly, TickOn

\* A sealed day is over at any instant at which all that is committed has
\* settled: its last hour is committed.
LEMMA SealedIsOver ==
  ASSUME SealInv, NEW d \in SealedDays, NEW day \in Int, NEW hf \in Int,
         hf <= 2 * HoursPerDay - 1,
         \A h \in HourNos : hours[d][h] # Absent => IsHourSettled(d, h, day, hf)
  PROVE  d \in Days /\ d < day
<1>1. d \in Days /\ TypeOK
  BY DEF SealedDays, SealInv
<1> DEFINE last == HoursPerDay - 1
<1>2. last \in HourNos
  BY CalendarAssumption DEF HourNos
<1>3. hours[d][last] # Absent
  BY <1>2, StoreAssumption DEF SealInv, SealsBackedByFacts, Contents
<1>4. IsHourSettled(d, last, day, hf)
  BY <1>2, <1>3
<1> QED  BY <1>1, <1>4, Integral DEF IsHourSettled, SettleLag

LEMMA SealedBeforeToday ==
  ASSUME SealInv, CommittedSettled, NEW d \in SealedDays
  PROVE  d \in Days /\ d < today
<1>1. d \in Days /\ TypeOK
  BY DEF SealedDays, SealInv
<1> QED  BY <1>1, Integral, SealedIsOver DEF CommittedSettled

\* RetainDays sealed days lie between the cutoff and any day after all of them.
LEMMA CutoffBefore ==
  ASSUME PruneApplies, NEW t \in Int, \A d \in SealedDays : d < t
  PROVE  RetentionCutoff(SealedDays) + RetainDays <= t
<1> DEFINE c == RetentionCutoff(SealedDays)
           Kept == { e \in SealedDays : c <= e }
<1>1. SealedDays \in SUBSET Days /\ SealedDays \subseteq Int
  BY DaySetsFinite DEF SealedDays
<1>2. c \in SealedDays /\ Cardinality(Kept) = RetainDays
  BY <1>1, RetentionCutoffKeeps DEF PruneApplies
<1> HIDE DEF c
<1>3. c \in Int /\ c < t /\ t - 1 \in Int /\ RetainDays \in Int
  BY <1>1, <1>2, RetentionAssumption
<1>4. Kept \in SUBSET (c .. (t - 1))
  <2> SUFFICES ASSUME NEW e \in Kept  PROVE  e \in c .. (t - 1)
    OBVIOUS
  <2>1. e \in Int /\ e < t /\ c <= e
    BY <1>1
  <2> QED  BY <1>3, <2>1
<1>5. IsFiniteSet(c .. (t - 1)) /\ Cardinality(c .. (t - 1)) = t - c
  BY <1>3, FS_Interval
<1>6. Cardinality(Kept) <= t - c
  BY <1>4, <1>5, FS_Subset
<1>7. c + RetainDays <= t
  BY <1>2, <1>3, <1>6
<1> QED  BY <1>7 DEF c

LEMMA CutoffDistance ==
  ASSUME SealInv, CommittedSettled, PruneApplies
  PROVE  RetentionCutoff(SealedDays) + RetainDays <= today
<1>1. today \in Int
  BY Integral DEF SealInv
<1>2. \A d \in SealedDays : d < today
  BY SealedBeforeToday
<1> QED  BY <1>1, <1>2, CutoffBefore

LEMMA CutoffBehindStep ==
  SealInv /\ DistanceInv /\ [Next]_vars => CutoffBehind'
<1> SUFFICES ASSUME SealInv, DistanceInv, [Next]_vars  PROVE  CutoffBehind'
  OBVIOUS
<1>0. TypeOK /\ CommittedSettled /\ CutoffBehind
  BY DEF SealInv, DistanceInv
<1>1. ASSUME pc' \notin {"prune_seals", "prune_hours"}  PROVE  CutoffBehind'
  BY <1>1 DEF CutoffBehind
<1>2. ASSUME UNCHANGED <<clock, cutoff>>, pc \in {"prune_seals", "prune_hours"}
      PROVE  CutoffBehind'
  BY <1>0, <1>2 DEF CutoffBehind
<1>3. ASSUME UNCHANGED clock, NEW done, NextProduct(done)  PROVE  CutoffBehind'
  <2>1. CASE pc' = "prune_seals"
    <3>1. PruneApplies /\ cutoff' = RetentionCutoff(SealedDays)
      BY <1>3, <2>1 DEF NextProduct
    <3> QED  BY <1>0, <1>3, <3>1, CutoffDistance DEF CutoffBehind
  <2>2. CASE pc' # "prune_seals"
    BY <1>1, <1>3, <2>2 DEF NextProduct
  <2> QED  BY <2>1, <2>2
<1>4. CASE Tick
  <2>1. today <= today' /\ cutoff' = cutoff /\ pc' = pc
    BY <1>0, <1>4, TickOn, Integral DEF Tick
  <2>2. today' \in Int
    BY <1>0, <1>4, TickOn, Integral
  <2> QED  BY <1>0, <2>1, <2>2, Integral DEF CutoffBehind
<1>5. CASE UNCHANGED vars
  BY <1>0, <1>5 DEF vars, CutoffBehind
<1>6. CASE BuildProduct
  BY <1>1, <1>3, <1>6 DEF BuildProduct
<1>7. CASE FailBuild \/ PublishProduct \/ FailPublish
  BY <1>3, <1>7 DEF FailBuild, PublishProduct, FailPublish
<1>8. CASE EndPruneSeals
  BY <1>2, <1>8 DEF EndPruneSeals
<1>9. ASSUME NEW d \in Days, PruneSeal(d) \/ \E h \in HourNos : PruneHour(d, h)
      PROVE  CutoffBehind'
  BY <1>2, <1>9 DEF PruneSeal, PruneHour
<1>10. ASSUME NEW d \in Days, HealStep(d)  PROVE  CutoffBehind'
  BY <1>1, <1>10 DEF HealStep, IngestHour, FailHour, ExpireHour, AbandonExpiredDay,
     SealTriedDay, FailSeal, Unwind
<1>11. CASE StartRun \/ PlanHeal \/ EndHeal \/ SelectWindow \/ EndPrune
            \/ Crash \/ Finish \/ Abort
  BY <1>1, <1>11 DEF StartRun, PlanHeal, Unwind, EndHeal, SelectWindow, EndPrune,
     Crash, Finish, Abort
<1> QED
  BY <1>4, <1>5, <1>6, <1>7, <1>8, <1>9, <1>10, <1>11 DEF Next, RunStep

\* Only a step of a prune, below its cutoff, leaves a day half-deleted.
LEMMA TornStep ==
  ASSUME SealInv, [Next]_vars, NEW e \in Days, ScanRaises(e)'
  PROVE  ScanRaises(e) \/ (e < cutoff /\ pc = "prune_hours" /\ UNCHANGED <<clock, seals>>)
<1>0. StoreTypeOK
  BY TypeParts DEF SealInv
<1>1. ASSUME hours'[e] = hours[e]  PROVE  ScanRaises(e)
  BY <1>1 DEF ScanRaises
<1>2. ASSUME NEW d \in Days, NEW h \in HourNos, NEW c, c # Torn,
             hours' = [hours EXCEPT ![d][h] = IF @ = Absent THEN c ELSE @]
      PROVE  ScanRaises(e)
  BY <1>0, <1>2 DEF StoreTypeOK, ScanRaises
<1>3. ASSUME NEW d \in Days, NEW h \in HourNos, PruneHour(d, h)
      PROVE  ScanRaises(e) \/ (e < cutoff /\ pc = "prune_hours" /\ UNCHANGED <<clock, seals>>)
  <2>1. /\ d < cutoff /\ pc = "prune_hours"
        /\ UNCHANGED <<clock, seals>>
    BY <1>3 DEF PruneHour, IsFirstExpired, ExpiredHours, TearHour, RemoveHour
  <2>2. d # e => hours'[e] = hours[e]
    BY <1>0, <1>3 DEF PruneHour, TearHour, RemoveHour, StoreTypeOK
  <2> QED  BY <1>1, <2>1, <2>2
<1>4. ASSUME NEW d \in Days, NEW h \in HourNos, IngestHour(d, h)
      PROVE  ScanRaises(e)
  <2>1. \A c \in Contents : c # Torn
    BY StoreAssumption
  <2>2. PICK c \in Contents : UNCHANGED disk \/ CommitHour(d, h, c)
    BY <1>4, ListingsAreContents DEF IngestHour
  <2>3. CASE UNCHANGED disk
    BY <1>1, <2>3
  <2>4. CASE CommitHour(d, h, c)
    <3>1. c # Torn /\ hours' = [hours EXCEPT ![d][h] = IF @ = Absent THEN c ELSE @]
      BY <2>1, <2>4 DEF CommitHour
    <3> QED  BY <1>2, <3>1
  <2> QED  BY <2>2, <2>3, <2>4
<1>5. CASE ~\E d \in Days, h \in HourNos : PruneHour(d, h) \/ IngestHour(d, h)
  <2>1. UNCHANGED hours
    BY <1>5 DEF Next, RunStep, HealStep, vars, Tick, StartRun, PlanHeal, EndHeal,
       SelectWindow, EndPruneSeals, EndPrune, Crash, Finish, Abort, BuildProduct,
       FailBuild, PublishProduct, FailPublish, FailHour, ExpireHour, FailSeal,
       AbandonExpiredDay, AbandonDay, SealTriedDay, SealDay, PruneSeal, UnlinkSeal
  <2> QED  BY <1>1, <2>1
<1> QED  BY <1>3, <1>4, <1>5

LEMMA TornOldStep ==
  SealInv /\ DistanceInv /\ [Next]_vars => TornOld'
<1> SUFFICES ASSUME SealInv, DistanceInv, [Next]_vars, NEW e \in Days, ScanRaises(e)'
             PROVE  e + RetainDays < today'
  BY DEF TornOld
<1>0. TypeOK /\ TornOld /\ CutoffBehind
  BY DEF SealInv, DistanceInv
<1>1. today' \in Int /\ today <= today'
  BY <1>0, ClockOnly, TickOn, Integral
<1>2. CASE ScanRaises(e)
  BY <1>0, <1>1, <1>2, Integral DEF TornOld
<1>3. CASE e < cutoff /\ pc = "prune_hours"
  BY <1>0, <1>1, <1>3, Integral DEF CutoffBehind
<1> QED  BY <1>2, <1>3, TornStep

LEMMA RetiredOldStep ==
  SealInv /\ DistanceInv /\ [Next]_vars => RetiredOld'
<1> SUFFICES ASSUME SealInv, DistanceInv, [Next]_vars  PROVE  RetiredOld'
  OBVIOUS
<1>0. TypeOK /\ RetiredOld /\ CutoffBehind
  BY DEF SealInv, DistanceInv
<1>1. today' \in Int /\ today <= today' /\ retired \subseteq Int
  BY <1>0, ClockOnly, TickOn, Integral DEF TypeOK
<1>2. ASSUME \A d \in retired' : d \in retired \/ (d \in Days /\ d + RetainDays < today)
      PROVE  RetiredOld'
  <2> SUFFICES ASSUME NEW d \in retired'  PROVE  d + RetainDays < today'
    BY DEF RetiredOld
  <2>1. d \in Int /\ d + RetainDays < today
    BY <1>0, <1>1, <1>2, Integral DEF RetiredOld
  <2> QED  BY <1>0, <1>1, <2>1, Integral
<1>3. ASSUME NEW d \in Days, PruneSeal(d)  PROVE  RetiredOld'
  <2>1. d < cutoff /\ pc = "prune_seals" /\ retired' = retired \cup {d}
    BY <1>3 DEF PruneSeal, ExpiredSeals
  <2>2. d + RetainDays < today
    BY <1>0, <2>1, Integral DEF CutoffBehind
  <2> QED  BY <1>2, <2>1, <2>2
<1>4. CASE UNCHANGED retired
  BY <1>2, <1>4
<1>5. UNCHANGED retired \/ \E d \in Days : PruneSeal(d)
  BY DEF Next, RunStep, HealStep, vars, Tick, StartRun, PlanHeal, EndHeal,
     SelectWindow, EndPruneSeals, EndPrune, Crash, Finish, Abort, BuildProduct,
     FailBuild, PublishProduct, FailPublish, IngestHour, FailHour, ExpireHour,
     FailSeal, AbandonExpiredDay, SealTriedDay, PruneHour
<1> QED  BY <1>3, <1>4, <1>5

\* Whatever an interrupted prune has torn or retired lies below RetainDays seals
\* (FactStore.prune).
THEOREM DistanceInvariant == Spec => []DistanceInv
<1>1. Init => DistanceInv
  BY StoreAssumption DEF Init, StoreInit, DistanceInv, CommittedSettled, CutoffBehind,
     TornOld, RetiredOld, ScanRaises
<1>2. SealInv /\ DistanceInv /\ [Next]_vars => DistanceInv'
  BY CommittedSettledStep, CutoffBehindStep, TornOldStep, RetiredOldStep DEF DistanceInv
<1> QED  BY <1>1, <1>2, SealInvariant, PTL DEF Spec

\* If the healing window is at most one day longer than retention, no run ever
\* finds a half-deleted hour in the days it plans, however many prunes were
\* interrupted before (PipelineDriver._heal, FactStore.prune).  The code does
\* not check the condition; its defaults meet it.
THEOREM HealingNeverMeetsPrune ==
  ASSUME HealDays <= RetainDays + 1
  PROVE  Spec => []HealingWindowReadable
<1>1. TypeOK /\ DistanceInv => HealingWindowReadable
  <2> SUFFICES ASSUME TypeOK, DistanceInv, NEW d \in HealingDays(today)
               PROVE  ~ScanRaises(d)
    BY DEF HealingWindowReadable
  <2>1. d \in Days /\ d \in Int /\ today - HealDays < d
    BY Integral DEF HealingDays
  <2>2. ~(d + RetainDays < today)
    BY <2>1, Integral, CalendarAssumption
  <2> QED  BY <2>1, <2>2 DEF DistanceInv, TornOld
<1> QED  BY <1>1, TypeCorrect, DistanceInvariant, PTL

-----------------------------------------------------------------------------
(***************************************************************************)
(* The fate of a Source Day, under the same condition.                     *)
(***************************************************************************)

\* days to heal exist only while a run heals
TodoOnlyHealing == pc # "heal" => todo = {}

\* the days a run plans or heals: undecided, and never retired
TodoOpen == \A d \in todo : d \notin abandoned /\ d \notin retired

\* an abandoned day is unsealed and keeps a missing hour
AbandonedIncomplete == \A d \in abandoned : ~HasSeal(d) /\ MissingHours(d) # {}

\* a retired day was retired before the captured instant of a run that heals
RetiredEarlier == pc \in {"plan", "heal"} => \A d \in retired : d + RetainDays < now[1]

RetiredExclusive == retired \cap (SealedDays \cup abandoned) = {}

FateInv == /\ TodoOnlyHealing /\ TodoOpen /\ AbandonedIncomplete
           /\ RetiredEarlier /\ RetiredExclusive

\* What a step does to the days to heal.
LEMMA TodoStep ==
  ASSUME TypeOK, [Next]_vars
  PROVE  \/ todo' \subseteq todo
         \/ /\ pc = "plan" /\ PlanHeal
            /\ todo' = { d \in HealingDays(now[1]) : Undecided(d) }
<1>1. ASSUME NEW d \in Days, HealStep(d)  PROVE  todo' \subseteq todo
  BY <1>1 DEF HealStep, IngestHour, FailHour, ExpireHour, AbandonExpiredDay,
     SealTriedDay, FailSeal, Unwind
<1>2. ASSUME NEW d \in Days, PruneSeal(d) \/ \E h \in HourNos : PruneHour(d, h)
      PROVE  todo' \subseteq todo
  BY <1>2 DEF PruneSeal, PruneHour
<1>3. CASE UNCHANGED vars \/ Tick \/ StartRun \/ EndHeal \/ SelectWindow
           \/ EndPruneSeals \/ EndPrune \/ Crash \/ Finish \/ Abort
  BY <1>3 DEF vars, Tick, StartRun, EndHeal, SelectWindow, EndPruneSeals,
     EndPrune, Crash, Finish, Abort, NoRun, Unwind
<1>4. CASE BuildProduct \/ FailBuild \/ PublishProduct \/ FailPublish
  BY <1>4 DEF BuildProduct, FailBuild, PublishProduct, FailPublish
<1>5. CASE PlanHeal
  BY <1>5 DEF PlanHeal, Unwind
<1> QED  BY <1>1, <1>2, <1>3, <1>4, <1>5 DEF Next, RunStep

LEMMA TodoOnlyHealingStep ==
  TypeOK /\ FateInv /\ [Next]_vars => TodoOnlyHealing'
<1> SUFFICES ASSUME TypeOK, FateInv, [Next]_vars  PROVE  TodoOnlyHealing'
  OBVIOUS
<1>0. TodoOnlyHealing
  BY DEF FateInv
<1>1. ASSUME todo' = {} \/ pc' = "heal"  PROVE  TodoOnlyHealing'
  BY <1>1 DEF TodoOnlyHealing
<1>2. CASE UNCHANGED vars \/ Tick
  BY <1>0, <1>2 DEF vars, Tick, TodoOnlyHealing
<1>3. CASE StartRun \/ SelectWindow \/ EndPruneSeals \/ EndPrune
  BY <1>0, <1>1, <1>3 DEF StartRun, SelectWindow, EndPruneSeals, EndPrune, TodoOnlyHealing
<1>4. CASE PlanHeal \/ EndHeal
  BY <1>1, <1>4 DEF PlanHeal, EndHeal, Unwind
<1>5. CASE Crash \/ Finish \/ Abort
  BY <1>1, <1>5 DEF Crash, Finish, Abort, NoRun, Unwind
<1>6. CASE BuildProduct \/ FailBuild \/ PublishProduct \/ FailPublish
  BY <1>0, <1>1, <1>6 DEF BuildProduct, FailBuild, PublishProduct, FailPublish,
     TodoOnlyHealing
<1>7. ASSUME NEW d \in Days, HealStep(d)  PROVE  TodoOnlyHealing'
  BY <1>1, <1>7 DEF HealStep, IngestHour, FailHour, ExpireHour, AbandonExpiredDay,
     SealTriedDay, FailSeal, Unwind
<1>8. ASSUME NEW d \in Days, PruneSeal(d) \/ \E h \in HourNos : PruneHour(d, h)
      PROVE  TodoOnlyHealing'
  BY <1>0, <1>1, <1>8 DEF PruneSeal, PruneHour, TodoOnlyHealing
<1> QED
  BY <1>2, <1>3, <1>4, <1>5, <1>6, <1>7, <1>8 DEF Next, RunStep

LEMMA RetiredEarlierStep ==
  TypeOK /\ DistanceInv /\ FateInv /\ [Next]_vars => RetiredEarlier'
<1> SUFFICES ASSUME TypeOK, DistanceInv, FateInv, [Next]_vars  PROVE  RetiredEarlier'
  OBVIOUS
<1>0. RetiredEarlier /\ RetiredOld
  BY DEF FateInv, DistanceInv
<1>1. ASSUME pc' \notin {"plan", "heal"}  PROVE  RetiredEarlier'
  BY <1>1 DEF RetiredEarlier
<1>2. ASSUME UNCHANGED <<now, retired>>, pc \in {"plan", "heal"}  PROVE  RetiredEarlier'
  BY <1>0, <1>2 DEF RetiredEarlier
<1>3. CASE StartRun
  BY <1>0, <1>3 DEF StartRun, RetiredEarlier, RetiredOld
<1>4. CASE UNCHANGED vars \/ Tick
  BY <1>0, <1>4 DEF vars, Tick, RetiredEarlier
<1>5. CASE PlanHeal
  BY <1>1, <1>2, <1>5 DEF PlanHeal, Unwind
<1>6. CASE EndHeal \/ SelectWindow \/ EndPruneSeals \/ EndPrune \/ Crash \/ Finish \/ Abort
  BY <1>1, <1>6 DEF EndHeal, SelectWindow, EndPruneSeals, EndPrune, Crash, Finish,
     Abort, Unwind
<1>7. CASE BuildProduct \/ FailBuild \/ PublishProduct \/ FailPublish
  BY <1>1, <1>7 DEF BuildProduct, FailBuild, PublishProduct, FailPublish, NextProduct
<1>8. ASSUME NEW d \in Days, HealStep(d)  PROVE  RetiredEarlier'
  BY <1>1, <1>2, <1>8 DEF HealStep, IngestHour, FailHour, ExpireHour, AbandonExpiredDay,
     SealTriedDay, FailSeal, Unwind
<1>9. ASSUME NEW d \in Days, PruneSeal(d) \/ \E h \in HourNos : PruneHour(d, h)
      PROVE  RetiredEarlier'
  BY <1>1, <1>9 DEF PruneSeal, PruneHour
<1> QED
  BY <1>3, <1>4, <1>5, <1>6, <1>7, <1>8, <1>9 DEF Next, RunStep

\* The steps that decide or retire a day, and on what.
LEMMA FateStep ==
  ASSUME SealInv, [Next]_vars
  PROVE  \/ UNCHANGED <<seals, abandoned, retired>>
         \/ \E d \in todo : /\ AbandonDay(d) /\ ~HasSeal(d) /\ UNCHANGED retired
                            /\ todo' = todo \ {d}
                            /\ d \notin abandoned => MissingHours(d) # {}
         \/ \E d \in todo : ~SealRaises(d) /\ SealDay(d) /\ UNCHANGED <<retired, pc>>
         \/ \E d \in Days : /\ PruneSeal(d) /\ d \in ExpiredSeals(cutoff)
                            /\ UnlinkSeal(d) /\ retired' = retired \cup {d}
<1> DEFINE Goal ==
         \/ UNCHANGED <<seals, abandoned, retired>>
         \/ \E d \in todo : /\ AbandonDay(d) /\ ~HasSeal(d) /\ UNCHANGED retired
                            /\ todo' = todo \ {d}
                            /\ d \notin abandoned => MissingHours(d) # {}
         \/ \E d \in todo : ~SealRaises(d) /\ SealDay(d) /\ UNCHANGED <<retired, pc>>
         \/ \E d \in Days : /\ PruneSeal(d) /\ d \in ExpiredSeals(cutoff)
                            /\ UnlinkSeal(d) /\ retired' = retired \cup {d}
<1>1. ASSUME NEW d \in Days, NEW h \in HourNos,
             IngestHour(d, h) \/ FailHour(d, h) \/ ExpireHour(d, h)
      PROVE  Goal
  BY <1>1 DEF IngestHour, FailHour, ExpireHour, CommitHour
<1>2. ASSUME NEW d \in Days, AbandonExpiredDay(d)  PROVE  Goal
  BY <1>2 DEF AbandonExpiredDay, IsCurrentDay, AbandonRaises
<1>3. ASSUME NEW d \in Days, SealTriedDay(d)  PROVE  Goal
  <2>1. d \in todo /\ UNCHANGED <<retired, pc>>
    BY <1>3 DEF SealTriedDay, IsCurrentDay
  <2>2. UNCHANGED disk \/ (~SealRaises(d) /\ SealDay(d))
    BY <1>3 DEF SealTriedDay
  <2> QED  BY <2>1, <2>2
<1>4. ASSUME NEW d \in Days, FailSeal(d)  PROVE  Goal
  <2>1. d \in todo /\ UNCHANGED <<retired, pc>>
    BY <1>4 DEF FailSeal, IsCurrentDay, aux
  <2>2. UNCHANGED disk \/ (~SealRaises(d) /\ SealDay(d))
    BY <1>4 DEF FailSeal
  <2>3. CASE UNCHANGED disk
    BY <2>1, <2>3 DEF disk
  <2> QED  BY <2>1, <2>2, <2>3
<1>5. ASSUME NEW d \in Days, PruneSeal(d)  PROVE  Goal
  BY <1>5 DEF PruneSeal
<1>6. ASSUME NEW d \in Days, NEW h \in HourNos, PruneHour(d, h)  PROVE  Goal
  BY <1>6 DEF PruneHour, TearHour, RemoveHour
<1>7. CASE UNCHANGED vars \/ Tick \/ StartRun \/ PlanHeal \/ EndHeal \/ SelectWindow
           \/ EndPruneSeals \/ EndPrune \/ Crash \/ Finish \/ Abort
  BY <1>7 DEF vars, Tick, StartRun, PlanHeal, EndHeal, SelectWindow, EndPruneSeals,
     EndPrune, Crash, Finish, Abort
<1>8. CASE BuildProduct \/ FailBuild \/ PublishProduct \/ FailPublish
  BY <1>8 DEF BuildProduct, FailBuild, PublishProduct, FailPublish
<1>9. Goal
  BY <1>1, <1>2, <1>3, <1>4, <1>5, <1>6, <1>7, <1>8 DEF Next, RunStep, HealStep
<1> QED  BY <1>9

LEMMA TodoOpenStep ==
  ASSUME HealDays <= RetainDays + 1, SealInv, FateInv, [Next]_vars
  PROVE  TodoOpen'
<1>0. TypeOK /\ TodoOpen /\ TodoOnlyHealing /\ RetiredEarlier
  BY DEF SealInv, FateInv
<1>1. CASE todo' \subseteq todo
  <2>1. CASE UNCHANGED <<seals, abandoned, retired>>
    BY <1>0, <1>1, <2>1 DEF TodoOpen
  <2>2. ASSUME NEW d \in todo, AbandonDay(d), UNCHANGED retired, todo' = todo \ {d}
        PROVE  TodoOpen'
    BY <1>0, <2>2 DEF TodoOpen, AbandonDay
  <2>3. ASSUME NEW d \in todo, SealDay(d), UNCHANGED <<retired, pc>>
        PROVE  TodoOpen'
    BY <1>0, <1>1, <2>3 DEF TodoOpen, SealDay
  <2>4. CASE pc = "prune_seals"
    BY <1>0, <1>1, <2>4 DEF TodoOpen, TodoOnlyHealing
  <2> QED  BY <2>1, <2>2, <2>3, <2>4, FateStep DEF PruneSeal
<1>2. CASE /\ pc = "plan" /\ PlanHeal
           /\ todo' = { d \in HealingDays(now[1]) : Undecided(d) }
  <2>1. UNCHANGED <<abandoned, retired>>
    BY <1>2 DEF PlanHeal
  <2>2. ASSUME NEW d \in HealingDays(now[1])  PROVE  d \notin retired
    <3>1. d \in Int /\ now[1] - HealDays < d
      BY <1>0, Integral DEF HealingDays
    <3>2. ~(d + RetainDays < now[1])
      BY <1>0, <3>1, Integral, CalendarAssumption
    <3> QED  BY <1>0, <1>2, <3>2 DEF RetiredEarlier
  <2> QED  BY <1>2, <2>1, <2>2 DEF TodoOpen, Undecided
<1> QED  BY <1>0, <1>1, <1>2, TodoStep

LEMMA AbandonedIncompleteStep ==
  ASSUME SealInv, FateInv, [Next]_vars
  PROVE  AbandonedIncomplete'
<1>0. StoreTypeOK /\ AbandonedIncomplete /\ TodoOpen /\ abandoned \subseteq Days
  BY TypeParts DEF SealInv, FateInv, StoreTypeOK
<1>1. ASSUME NEW e \in abandoned  PROVE  MissingHours(e)' # {}
  <2>1. PICK g \in HourNos : hours[e][g] = Absent
    BY <1>0 DEF AbandonedIncomplete, MissingHours
  <2>2. hours'[e][g] = Absent
    <3>1. e \in Days
      BY <1>0
    <3>2. ASSUME NEW d \in Days, NEW h \in HourNos, NEW c, d \in todo, CommitHour(d, h, c)
          PROVE  hours'[e][g] = Absent
      <4>1. d # e
        BY <1>0, <3>2 DEF TodoOpen
      <4> QED  BY <1>0, <2>1, <3>1, <3>2, <4>1 DEF CommitHour, StoreTypeOK
    <3>3. ASSUME NEW d \in Days, NEW h \in HourNos, hours[d][h] # Absent, TearHour(d, h)
          PROVE  hours'[e][g] = Absent
      BY <1>0, <2>1, <3>1, <3>3 DEF TearHour, StoreTypeOK
    <3>4. ASSUME NEW d \in Days, NEW h \in HourNos, RemoveHour(d, h)
          PROVE  hours'[e][g] = Absent
      BY <1>0, <2>1, <3>1, <3>4 DEF RemoveHour, StoreTypeOK
    <3>5. CASE hours' = hours
      BY <2>1, <3>5
    <3> QED
      BY <3>2, <3>3, <3>4, <3>5, DiskStep DEF AbandonDay, SealDay, UnlinkSeal
  <2> QED  BY <2>2 DEF MissingHours
<1>2. CASE UNCHANGED <<seals, abandoned, retired>>
  BY <1>0, <1>1, <1>2 DEF AbandonedIncomplete, HasSeal
<1>3. ASSUME NEW d \in todo, AbandonDay(d), ~HasSeal(d),
             d \notin abandoned => MissingHours(d) # {}
      PROVE  AbandonedIncomplete'
  <2>1. UNCHANGED <<hours, seals>> /\ abandoned' = abandoned \cup {d}
    BY <1>3 DEF AbandonDay
  <2>2. MissingHours(d) # {}
    BY <1>0, <1>3 DEF AbandonedIncomplete
  <2> QED  BY <1>0, <1>3, <2>1, <2>2 DEF AbandonedIncomplete, HasSeal, MissingHours
<1>4. ASSUME NEW d \in todo, ~SealRaises(d), SealDay(d)
      PROVE  AbandonedIncomplete'
  <2>1. d \notin abandoned /\ abandoned' = abandoned
    BY <1>4 DEF SealRaises, SealDay
  <2> QED  BY <1>0, <1>1, <1>4, <2>1 DEF AbandonedIncomplete, HasSeal, SealDay, StoreTypeOK
<1>5. ASSUME NEW d \in Days, UnlinkSeal(d)  PROVE  AbandonedIncomplete'
  BY <1>0, <1>1, <1>5 DEF AbandonedIncomplete, HasSeal, UnlinkSeal, StoreTypeOK
<1> QED  BY <1>2, <1>3, <1>4, <1>5, FateStep

LEMMA RetiredExclusiveStep ==
  ASSUME SealInv, FateInv, [Next]_vars
  PROVE  RetiredExclusive'
<1>0. StoreTypeOK /\ RetiredExclusive /\ TodoOpen /\ AbandonedIncomplete /\ todo \subseteq Days
  BY TypeParts DEF SealInv, FateInv, TypeOK
<1>1. CASE UNCHANGED <<seals, abandoned, retired>>
  BY <1>0, <1>1 DEF RetiredExclusive, SealedDays, HasSeal
<1>2. ASSUME NEW d \in todo, AbandonDay(d), UNCHANGED retired  PROVE  RetiredExclusive'
  BY <1>0, <1>2 DEF RetiredExclusive, SealedDays, HasSeal, AbandonDay, TodoOpen
<1>3. ASSUME NEW d \in todo, SealDay(d), UNCHANGED retired  PROVE  RetiredExclusive'
  <2>1. \A e \in Days : e # d => seals'[e] = seals[e]
    BY <1>0, <1>3 DEF SealDay, StoreTypeOK
  <2>2. abandoned' = abandoned /\ d \notin retired
    BY <1>0, <1>3 DEF SealDay, TodoOpen
  <2> QED  BY <1>0, <1>3, <2>1, <2>2 DEF RetiredExclusive, SealedDays, HasSeal
<1>4. ASSUME NEW d \in Days, d \in ExpiredSeals(cutoff), UnlinkSeal(d),
             retired' = retired \cup {d}
      PROVE  RetiredExclusive'
  <2>1. d \in SealedDays /\ d \notin abandoned
    BY <1>0, <1>4 DEF ExpiredSeals, SealedDays, AbandonedIncomplete
  <2>2. abandoned' = abandoned /\ SealedDays' \subseteq SealedDays \ {d}
    BY <1>0, <1>4 DEF UnlinkSeal, SealedDays, HasSeal, StoreTypeOK
  <2> QED  BY <1>0, <1>4, <2>1, <2>2 DEF RetiredExclusive
<1> QED  BY <1>1, <1>2, <1>3, <1>4, FateStep

LEMMA FateInvariant ==
  ASSUME HealDays <= RetainDays + 1
  PROVE  Spec => []FateInv
<1>1. Init => FateInv
  BY DEF Init, StoreInit, FateInv, TodoOnlyHealing, TodoOpen, AbandonedIncomplete,
     RetiredEarlier, RetiredExclusive
<1>2. SealInv /\ DistanceInv /\ FateInv /\ [Next]_vars => FateInv'
  <2> SUFFICES ASSUME SealInv, DistanceInv, FateInv, [Next]_vars  PROVE  FateInv'
    OBVIOUS
  <2>1. TypeOK
    BY DEF SealInv
  <2> QED
    BY <2>1, TodoOnlyHealingStep, TodoOpenStep, AbandonedIncompleteStep,
       RetiredEarlierStep, RetiredExclusiveStep DEF FateInv
<1> QED  BY <1>1, <1>2, SealInvariant, DistanceInvariant, PTL DEF Spec

\* If the healing window is at most one day longer than retention, a day's fate
\* is final: never both sealed and abandoned, an abandoned day never completes,
\* and a retired day is never healed, sealed or abandoned again
\* (FactStore.seal_day, abandon_day and prune, PipelineDriver._heal).
THEOREM FatesAreFinal ==
  ASSUME HealDays <= RetainDays + 1
  PROVE  Spec => []FatesExclusive
<1>1. TypeOK /\ DistanceInv /\ FateInv => FatesExclusive
  <2> SUFFICES ASSUME TypeOK, DistanceInv, FateInv  PROVE  FatesExclusive
    OBVIOUS
  <2>1. ASSUME NEW d \in retired  PROVE  d \notin HealingDays(today)
    <3>1. d \in Int /\ d + RetainDays < today
      BY Integral DEF DistanceInv, RetiredOld, TypeOK
    <3>2. ~(today - HealDays < d)
      BY <3>1, Integral, CalendarAssumption
    <3> QED  BY <3>2 DEF HealingDays
  <2> QED  BY <2>1 DEF FateInv, AbandonedIncomplete, RetiredExclusive, FatesExclusive
<1> QED  BY <1>1, TypeCorrect, DistanceInvariant, FateInvariant, PTL

=============================================================================
