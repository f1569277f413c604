-------------------------- MODULE PublicationProofs --------------------------
(***************************************************************************)
(* What the pipeline shows and what it has done when it says "ok": public  *)
(* snapshots stay backed by sealed facts, a prune that ends has caught up  *)
(* with all earlier ones, an "ok" run left nothing undone, and the         *)
(* pipeline implements the ledger of Source Days.                          *)
(*                                                                         *)
(* The argument joins three counts.  A window has at most AnalysisDays     *)
(* days, fewer than the RetainDays that a prune keeps, and both end at the *)
(* newest seal: a prune never reaches into the window just published.      *)
(* Every half-deleted hour is below RetainDays seals, so a prune that      *)
(* applies removes it.  And what was committed was settled at the instant  *)
(* the run captured, so that a prune of the same run stays below the days  *)
(* the run has healed.                                                     *)
(***************************************************************************)
EXTENDS RetentionProofs

USE DEF disk, clock, public_state, runState, aux

Pruning == pc \in {"prune_seals", "prune_hours"}

\* the days that a prune keeps are RetainDays sealed days
KeptSealed ==
    Pruning => cutoff \in SealedDays /\ Cardinality(From(SealedDays, cutoff)) = RetainDays

\* a half-deleted hour has RetainDays sealed days after it
Later(d) == { e \in SealedDays : d < e }
TornBelow == \A d \in Days : ScanRaises(d) => RetainDays <= Cardinality(Later(d))

\* products are published after the selection of the window
PublishedLate == pc \in {"idle", "plan", "heal", "select"} => published = {}

CatchUpInv == KeptSealed /\ TornBelow /\ PublishedLate /\ PruneCatchesUp

\* Runs without an anchor.  What they show is the window that ends at the newest
\* seal; a prune begins above it.
PublicInv ==
    /\ anchor = NoAnchor
    /\ pc \in {"build", "publish"} => window = SelectAnalysisWindow(SealedDays, NoAnchor)
                                      /\ window # {}
    /\ \A p \in published : public[p] = window
    /\ Pruning => published = Products /\ \A d \in window : cutoff <= d
    /\ PublicBackedByFacts

\* what was committed was settled when the run captured the clock
CommittedByNow ==
    pc # "idle" =>
      \A d \in Days, h \in HourNos :
        hours[d][h] # Absent => IsHourSettled(d, h, now[1], now[2])

AllSettled(d) == \A h \in HourNos : IsHourSettled(d, h, now[1], now[2])
SoFarOk == ~failed /\ ~aborted

\* what is still missing of a settled day is planned, or the day has expired
TodoPlanned ==
    pc = "heal" /\ SoFarOk =>
      \A d \in todo : AllSettled(d) =>
        \A h \in MissingHours(d) : <<d, h>> \in plan \/ (expired /\ IsCurrentDay(d))

\* the settled days of the healing window are dealt with, or still to be
HealProgress ==
    pc \notin {"idle", "plan"} /\ SoFarOk =>
      \A d \in HealingDays(now[1]) : AllSettled(d) => ~Undecided(d) \/ d \in todo

\* the products that are done show the run's window, locally and in public
Done(p) == public[p] = window /\ local[p] = window
ProductProgress ==
    SoFarOk /\ publish =>
      /\ pc \in {"build", "publish"} /\ product = "builds" => Done("heroes")
      /\ pc = "publish" => local[product] = window
      /\ Pruning \/ (pc = "finish" /\ window # {}) => \A p \in Products : Done(p)

HeroesFirst == pc \in {"idle", "plan", "heal", "select"} => product = "heroes"

\* a prune stays below the days a run heals
CutoffByNow == Pruning => cutoff + RetainDays <= now[1]

OkInv == CommittedByNow /\ CutoffByNow /\ TodoPlanned /\ HealProgress
         /\ HeroesFirst /\ ProductProgress

-----------------------------------------------------------------------------
\* Windows.

\* A window that is not empty ends at the newest sealed day and is a set of at
\* most AnalysisDays consecutive sealed days.
LEMMA NewestWindow ==
  ASSUME NEW S \in SUBSET Days, SelectAnalysisWindow(S, NoAnchor) # {}
  PROVE  LET W == SelectAnalysisWindow(S, NoAnchor)
         IN  /\ W \subseteq S /\ Max(S) \in W
             /\ \A d \in S : d <= Max(S)
             /\ \A d \in W : Max(S) - d < AnalysisDays /\ d .. Max(S) \subseteq W
<1> DEFINE W == SelectAnalysisWindow(S, NoAnchor)
           m == Max(S)
<1>1. S # {}
  BY DEF SelectAnalysisWindow
<1>2. W = { d \in S : /\ d <= m /\ m - d < AnalysisDays
                     /\ d .. m \subseteq S }
  BY <1>1 DEF SelectAnalysisWindow
<1>3. IsFiniteSet(S) /\ S \subseteq Int
  BY DaySetsFinite
<1>4. m \in S /\ \A d \in S : d <= m
  BY <1>1, <1>3, MaxIsGreatest
<1> HIDE DEF m
<1>5. m \in Int /\ AnalysisDays \in Int /\ 0 < AnalysisDays
  BY <1>3, <1>4, CalendarAssumption
<1>6. m \in W
  BY <1>2, <1>4, <1>5
<1>7. ASSUME NEW d \in W  PROVE  m - d < AnalysisDays /\ d .. m \subseteq W
  <2>1. d \in S /\ d \in Int /\ d <= m /\ m - d < AnalysisDays /\ d .. m \subseteq S
    BY <1>2, <1>3
  <2>2. ASSUME NEW e \in d .. m  PROVE  e \in W
    <3>1. e \in S /\ e \in Int /\ d <= e /\ e <= m /\ m - e < AnalysisDays
      BY <1>5, <2>1
    <3>2. e .. m \subseteq d .. m
      BY <1>5, <2>1, <3>1
    <3> QED  BY <1>2, <2>1, <3>1, <3>2
  <2> QED  BY <2>1, <2>2
<1> QED  BY <1>2, <1>4, <1>6, <1>7 DEF m

\* Retention keeps more days than a window has, so it keeps the whole window.
LEMMA WindowKept ==
  ASSUME PruneApplies, NEW d \in SelectAnalysisWindow(SealedDays, NoAnchor)
  PROVE  RetentionCutoff(SealedDays) <= d
<1> DEFINE S == SealedDays
           m == Max(S)
           c == RetentionCutoff(S)
           Kept == { e \in S : c <= e }
<1>1. S \in SUBSET Days /\ S \subseteq Int
  BY DaySetsFinite DEF SealedDays
<1>2. /\ d \in S /\ m \in S /\ \A e \in S : e <= m
      /\ m - d < AnalysisDays
  BY <1>1, NewestWindow
<1>3. c \in S /\ Cardinality(Kept) = RetainDays
  BY <1>1, RetentionCutoffKeeps DEF PruneApplies
<1> HIDE DEF S, m, c
<1>4. c \in Int /\ d \in Int /\ m \in Int /\ c <= m
  BY <1>1, <1>2, <1>3
<1>5. Kept \in SUBSET (c .. m)
  <2> SUFFICES ASSUME NEW e \in Kept  PROVE  e \in c .. m
    OBVIOUS
  <2>1. e \in Int /\ e <= m /\ c <= e
    BY <1>1, <1>2
  <2> QED  BY <1>4, <2>1
<1>6. IsFiniteSet(c .. m) /\ Cardinality(c .. m) = m - c + 1
  <2> HIDE DEF Kept
  <2>1. IsFiniteSet(c .. m) /\ Cardinality(c .. m) = IF c > m THEN 0 ELSE m - c + 1
    BY <1>4, FS_Interval
  <2> QED  BY <1>4, <2>1
<1>7. Cardinality(Kept) <= m - c + 1
  BY <1>5, <1>6, FS_Subset
<1>8. c <= d
  <2>1. RetainDays <= m - c + 1
    BY <1>3, <1>7
  <2>2. AnalysisDays < RetainDays /\ AnalysisDays \in Nat /\ RetainDays \in Nat
    BY RetentionAssumption, CalendarAssumption
  <2> HIDE DEF Kept
  <2> QED  BY <1>2, <1>4, <2>1, <2>2
<1> QED  BY <1>8 DEF S, c


-----------------------------------------------------------------------------
\* A prune that ends has caught up.

LEMMA UnlinkedSeal ==
  ASSUME SealInv, NEW d \in Days, PruneSeal(d)
  PROVE  SealedDays' = SealedDays \ {d} /\ d \in ExpiredSeals(cutoff)
<1>1. StoreTypeOK
  BY TypeParts DEF SealInv
<1> QED  BY <1>1 DEF PruneSeal, UnlinkSeal, StoreTypeOK, SealedDays, HasSeal

\* What a step does to the set of sealed days.
LEMMA SealedStep ==
  ASSUME SealInv, [Next]_vars
  PROVE  \/ SealedDays' = SealedDays
         \/ \E d \in todo : SealDay(d) /\ SealedDays' = SealedDays \cup {d}
         \/ \E d \in Days : /\ PruneSeal(d) /\ d \in ExpiredSeals(cutoff)
                            /\ SealedDays' = SealedDays \ {d}
<1>0. StoreTypeOK /\ todo \subseteq Days
  BY TypeParts DEF SealInv, TypeOK
<1>1. ASSUME UNCHANGED seals  PROVE  SealedDays' = SealedDays
  BY <1>1 DEF SealedDays, HasSeal
<1>2. ASSUME NEW d \in todo, ~SealRaises(d), SealDay(d)
      PROVE  SealedDays' = SealedDays \cup {d}
  <2>1. hours[d] \in [HourNos -> Contents]
    BY <1>0, <1>2 DEF StoreTypeOK, SealRaises, Readable
  <2>2. hours[d] # NoSeal
    BY <2>1, StoreAssumption
  <2> QED  BY <1>0, <1>2, <2>2 DEF SealDay, StoreTypeOK, SealedDays, HasSeal
<1> QED  BY <1>1, <1>2, UnlinkedSeal, FateStep DEF AbandonDay

LEMMA SealedFinite == SealedDays \in SUBSET Days /\ SealedDays \subseteq Int
                      /\ \A S \in SUBSET SealedDays : IsFiniteSet(S) /\ Cardinality(S) \in Nat
<1>1. SealedDays \in SUBSET Days
  BY DEF SealedDays
<1> QED  BY <1>1, DaySetsFinite

\* the steps after which a prune is on, and whether it was before
LEMMA PruningStep ==
  ASSUME [Next]_vars, Pruning'
  PROVE  \/ /\ Pruning /\ UNCHANGED <<cutoff, published, window, now, local, public>>
            /\ UNCHANGED <<seals, abandoned>> \/ \E d \in Days : PruneSeal(d)
         \/ /\ pc \in {"build", "publish"} /\ NextProduct(published') /\ UNCHANGED <<disk, now, window>>
            /\ published' = Products /\ PruneApplies /\ cutoff' = RetentionCutoff(SealedDays)
<1> USE DEF Pruning
<1>1. CASE UNCHANGED vars \/ Tick \/ EndPruneSeals
  BY <1>1 DEF vars, Tick, EndPruneSeals
<1>2. ASSUME NEW d \in Days, PruneSeal(d)  PROVE  pc = "prune_seals" /\ UNCHANGED runState
                                                  /\ UNCHANGED public_state
  BY <1>2 DEF PruneSeal
<1>3. ASSUME NEW d \in Days, NEW h \in HourNos, PruneHour(d, h)
      PROVE  /\ pc = "prune_hours" /\ UNCHANGED <<runState, public_state>>
             /\ UNCHANGED <<seals, abandoned>>
  BY <1>3 DEF PruneHour, TearHour, RemoveHour
<1>4. CASE BuildProduct \/ FailBuild \/ PublishProduct \/ FailPublish
  <2>1. /\ pc \in {"build", "publish"} /\ NextProduct(published')
        /\ UNCHANGED <<disk, now, window>>
    BY <1>4 DEF BuildProduct, FailBuild, PublishProduct, FailPublish
  <2> QED  BY <2>1 DEF NextProduct, BothPublished
<1>5. CASE StartRun \/ PlanHeal \/ EndHeal \/ SelectWindow \/ EndPrune
           \/ Crash \/ Finish \/ Abort
  BY <1>5 DEF StartRun, PlanHeal, Unwind, EndHeal, SelectWindow, EndPrune,
     Crash, Finish, Abort
<1>6. ASSUME NEW d \in Days, HealStep(d)  PROVE  ~Pruning'
  BY <1>6 DEF HealStep, IngestHour, FailHour, ExpireHour, AbandonExpiredDay,
     SealTriedDay, FailSeal, Unwind
<1> QED  BY <1>1, <1>2, <1>3, <1>4, <1>5, <1>6 DEF Next, RunStep

LEMMA KeptSealedStep == SealInv /\ KeptSealed /\ [Next]_vars => KeptSealed'
<1> DEFINE Kept == cutoff \in SealedDays /\ Cardinality(From(SealedDays, cutoff)) = RetainDays
<1> SUFFICES ASSUME SealInv, KeptSealed, [Next]_vars, Pruning'  PROVE  Kept'
  BY DEF KeptSealed, From
<1>1. CASE Pruning /\ cutoff' = cutoff /\ UNCHANGED seals
  BY <1>1 DEF KeptSealed, SealedDays, HasSeal
<1>2. ASSUME Pruning, cutoff' = cutoff, NEW d \in Days, d \in ExpiredSeals(cutoff),
             SealedDays' = SealedDays \ {d}
      PROVE  Kept'
  <2>1. d < cutoff /\ d \in Int /\ cutoff \in Int
    BY <1>2, Integral DEF ExpiredSeals, SealInv
  <2>2. From(SealedDays', cutoff') = From(SealedDays, cutoff)
    BY <1>2, <2>1 DEF From
  <2> QED  BY <1>2, <2>1, <2>2 DEF KeptSealed
<1>3. CASE PruneApplies /\ cutoff' = RetentionCutoff(SealedDays) /\ UNCHANGED disk
  <2>1. cutoff' \in SealedDays /\ Cardinality({ e \in SealedDays : cutoff' <= e }) = RetainDays
    BY <1>3, SealedFinite, RetentionCutoffKeeps DEF PruneApplies
  <2>2. SealedDays' = SealedDays
    BY <1>3 DEF SealedDays, HasSeal
  <2> QED  BY <2>1, <2>2 DEF From
<1> QED  BY <1>1, <1>2, <1>3, PruningStep, UnlinkedSeal

LEMMA TornBelowStep == SealInv /\ CatchUpInv /\ [Next]_vars => TornBelow'
<1> SUFFICES ASSUME SealInv, CatchUpInv, [Next]_vars, NEW e \in Days, ScanRaises(e)'
             PROVE  RetainDays <= Cardinality(Later(e)')
  BY DEF TornBelow
<1>0. /\ KeptSealed /\ KeptSealed' /\ TornBelow
      /\ e \in Int /\ cutoff \in Int /\ cutoff' \in Int /\ RetainDays \in Nat
  BY KeptSealedStep, TypeStep, Integral, CalendarAssumption, RetentionAssumption
     DEF CatchUpInv, SealInv, TypeOK, Days
<1> DEFINE S == SealedDays'
<1>1. S \in SUBSET Days /\ S \subseteq Int
  BY DaySetsFinite DEF SealedDays
<1>2. IsFiniteSet(Later(e)') /\ Cardinality(Later(e)') \in Nat
  BY <1>1, DaySetsFinite DEF Later
<1>3. ASSUME NEW T \in SUBSET Later(e)', RetainDays <= Cardinality(T)
      PROVE  RetainDays <= Cardinality(Later(e)')
  <2>1. Cardinality(T) <= Cardinality(Later(e)') /\ Cardinality(T) \in Nat
    BY <1>2, <1>3, FS_Subset, FS_CardinalityType
  <2> QED  BY <1>0, <1>2, <1>3, <2>1
<1>4. ASSUME Pruning', e < cutoff'  PROVE  RetainDays <= Cardinality(Later(e)')
  <2>1. From(S, cutoff') \in SUBSET Later(e)'
    <3> SUFFICES ASSUME NEW x \in From(S, cutoff')  PROVE  x \in Later(e)'
      OBVIOUS
    <3>1. x \in S /\ x \in Int /\ cutoff' <= x
      BY <1>1 DEF From
    <3> QED  BY <1>0, <1>4, <3>1 DEF Later
  <2>2. Cardinality(From(S, cutoff')) = RetainDays
    BY <1>0, <1>4 DEF KeptSealed
  <2> QED  BY <1>0, <1>3, <2>1, <2>2
<1>5. CASE ScanRaises(e) /\ SealedDays \subseteq SealedDays'
  <2>1. Later(e) \in SUBSET Later(e)'
    BY <1>5 DEF Later
  <2> QED  BY <1>0, <1>3, <1>5, <2>1 DEF TornBelow
<1>6. ASSUME NEW d \in Days, PruneSeal(d), d \in ExpiredSeals(cutoff), ScanRaises(e)
      PROVE  RetainDays <= Cardinality(Later(e)')
  <2>1. d < cutoff /\ d \in Int /\ Pruning' /\ cutoff' = cutoff
    BY <1>6, Integral DEF ExpiredSeals, SealInv, PruneSeal, Pruning
  <2>2. CASE cutoff <= e
    <3>1. Later(e) \subseteq Later(e)'
      BY <1>0, <1>6, <2>1, <2>2, UnlinkedSeal DEF Later
    <3> QED  BY <1>0, <1>3, <1>6, <3>1 DEF TornBelow
  <2> QED  BY <1>0, <1>4, <2>1, <2>2
<1>7. CASE e < cutoff /\ pc = "prune_hours" /\ UNCHANGED seals
  <2>1. From(SealedDays, cutoff) \in SUBSET Later(e)'
    <3>1. SealedDays' = SealedDays
      BY <1>7 DEF SealedDays, HasSeal
    <3> SUFFICES ASSUME NEW x \in From(SealedDays, cutoff)  PROVE  x \in Later(e)'
      OBVIOUS
    <3>2. x \in SealedDays' /\ x \in Int /\ cutoff <= x
      BY <1>1, <3>1 DEF From
    <3> QED  BY <1>0, <1>7, <3>2 DEF Later
  <2>2. Cardinality(From(SealedDays, cutoff)) = RetainDays
    BY <1>0, <1>7 DEF KeptSealed, Pruning
  <2> QED  BY <1>0, <1>3, <2>1, <2>2
<1> QED  BY <1>5, <1>6, <1>7, TornStep, SealedStep

LEMMA PublishedLateStep == PublishedLate /\ [Next]_vars => PublishedLate'
<1> SUFFICES ASSUME PublishedLate, [Next]_vars  PROVE  PublishedLate'
  OBVIOUS
<1> USE DEF PublishedLate
<1>1. CASE UNCHANGED vars \/ Tick \/ StartRun \/ EndHeal
  BY <1>1 DEF vars, Tick, StartRun, EndHeal
<1>2. CASE PlanHeal \/ SelectWindow
  BY <1>2 DEF PlanHeal, Unwind, SelectWindow
<1>3. CASE Crash \/ Finish \/ Abort
  BY <1>3 DEF Crash, Finish, Abort, NoRun, Unwind
<1>4. CASE BuildProduct \/ FailBuild \/ PublishProduct \/ FailPublish
  BY <1>4 DEF BuildProduct, FailBuild, PublishProduct, FailPublish, NextProduct
<1>5. ASSUME NEW d \in Days, HealStep(d)  PROVE  PublishedLate'
  BY <1>5 DEF HealStep, IngestHour, FailHour, ExpireHour, AbandonExpiredDay,
     SealTriedDay, FailSeal, Unwind
<1>6. ASSUME NEW d \in Days, PruneSeal(d) \/ \E h \in HourNos : PruneHour(d, h)
      PROVE  PublishedLate'
  BY <1>6 DEF PruneSeal, PruneHour
<1>7. CASE EndPruneSeals \/ EndPrune
  BY <1>7 DEF EndPruneSeals, EndPrune
<1> QED  BY <1>1, <1>2, <1>3, <1>4, <1>5, <1>6, <1>7 DEF Next, RunStep

\* How a run whose products are all published comes to its end.
LEMMA FinishStep ==
  ASSUME PublishedLate, [Next]_vars, pc' = "finish", published' = Products, ~aborted'
  PROVE  /\ UNCHANGED disk
         /\ \/ pc = "finish" /\ UNCHANGED <<published, aborted>>
            \/ pc = "prune_hours" /\ ExpiredHours(cutoff) = {}
            \/ ~PruneApplies
<1> USE DEF PublishedLate, Products
<1>1. CASE UNCHANGED vars \/ Tick
  BY <1>1 DEF vars, Tick
<1>2. CASE EndPrune
  BY <1>2 DEF EndPrune
<1>3. CASE BuildProduct \/ FailBuild \/ PublishProduct \/ FailPublish
  <2>1. NextProduct(published') /\ UNCHANGED disk
    BY <1>3 DEF BuildProduct, FailBuild, PublishProduct, FailPublish
  <2> QED  BY <2>1 DEF NextProduct, BothPublished
<1>4. pc' = "finish" => ~(StartRun \/ EndHeal \/ EndPruneSeals \/ Crash \/ Finish)
  BY DEF StartRun, EndHeal, EndPruneSeals, Crash, Finish
<1>5. CASE PlanHeal \/ SelectWindow \/ Abort
  BY <1>5 DEF PlanHeal, SelectWindow, Abort, Unwind
<1>6. ASSUME NEW d \in Days, HealStep(d)  PROVE  FALSE
  BY <1>6 DEF HealStep, IngestHour, FailHour, ExpireHour, AbandonExpiredDay,
     SealTriedDay, FailSeal, Unwind
<1>7. ASSUME NEW d \in Days, PruneSeal(d) \/ \E h \in HourNos : PruneHour(d, h)
      PROVE  FALSE
  BY <1>7 DEF PruneSeal, PruneHour
<1> QED  BY <1>1, <1>2, <1>3, <1>4, <1>5, <1>6, <1>7 DEF Next, RunStep

LEMMA CatchesUpStep == SealInv /\ CatchUpInv /\ [Next]_vars => PruneCatchesUp'
<1> SUFFICES ASSUME SealInv, CatchUpInv, [Next]_vars,
                    pc' = "finish", published' = Products, ~aborted'
             PROVE  Cardinality(SealedDays) <= RetainDays /\ \A d \in Days : ~ScanRaises(d)
  <2>1. UNCHANGED disk => SealedDays' = SealedDays /\ \A d \in Days : ScanRaises(d)' <=> ScanRaises(d)
    BY DEF SealedDays, HasSeal, ScanRaises
  <2> QED  BY <2>1, FinishStep DEF PruneCatchesUp, CatchUpInv
<1>0. /\ KeptSealed /\ TornBelow /\ PublishedLate /\ PruneCatchesUp
      /\ RetainDays \in Nat /\ cutoff \in Int
  BY Integral, RetentionAssumption DEF CatchUpInv, SealInv
<1>1. IsFiniteSet(SealedDays) /\ Cardinality(SealedDays) \in Nat /\ SealedDays \in SUBSET Days
  BY SealedFinite
<1>2. CASE pc = "finish" /\ UNCHANGED <<published, aborted>>
  BY <1>0, <1>2 DEF PruneCatchesUp
<1>3. ASSUME NEW d \in Days, ScanRaises(d)
      PROVE  RetainDays <= Cardinality(Later(d)) /\ Cardinality(Later(d)) <= Cardinality(SealedDays)
             /\ Cardinality(Later(d)) \in Nat
  <2>1. Later(d) \in SUBSET SealedDays
    BY DEF Later
  <2> QED  BY <1>0, <1>1, <1>3, <2>1, FS_Subset, FS_CardinalityType DEF TornBelow
<1>4. CASE pc = "prune_hours" /\ ExpiredHours(cutoff) = {}
  <2>1. \A d \in SealedDays : ~(d < cutoff)
    BY <1>4 DEF SealInv, PruneOrder
  <2>2. From(SealedDays, cutoff) = SealedDays
    <3>1. \A d \in SealedDays : d \in Int
      BY SealedFinite
    <3> QED  BY <1>0, <2>1, <3>1 DEF From
  <2>3. Cardinality(SealedDays) = RetainDays
    BY <1>0, <1>4, <2>2 DEF KeptSealed, Pruning
  <2>4. ASSUME NEW d \in Days, ScanRaises(d)  PROVE  FALSE
    <3>1. ~(d < cutoff)
      <4>1. PICK h \in HourNos : hours[d][h] = Torn
        BY <2>4 DEF ScanRaises
      <4>2. hours[d][h] # Absent
        BY <4>1, StoreAssumption
      <4>3. <<d, h>> \notin ExpiredHours(cutoff)
        BY <1>4
      <4> QED  BY <4>2, <4>3 DEF ExpiredHours
    <3>2. Later(d) \in SUBSET SealedDays /\ Cardinality(Later(d)) = Cardinality(SealedDays)
      BY <1>0, <1>1, <1>3, <2>3, <2>4 DEF Later
    <3>3. Later(d) = SealedDays
      BY <1>1, <3>2, FS_Subset
    <3>4. cutoff \in Later(d)
      BY <1>0, <1>4, <3>3 DEF KeptSealed, Pruning
    <3> QED  BY <3>1, <3>4 DEF Later
  <2> QED  BY <1>0, <2>3, <2>4
<1>5. CASE ~PruneApplies
  <2>1. Cardinality(SealedDays) < RetainDays
    BY <1>0, <1>1, <1>5 DEF PruneApplies
  <2>2. \A d \in Days : ~ScanRaises(d)
    BY <1>0, <1>1, <1>3, <2>1
  <2> QED  BY <1>0, <1>1, <2>1, <2>2
<1> QED  BY <1>0, <1>2, <1>4, <1>5, FinishStep

LEMMA CatchUpInvariant == Spec => []CatchUpInv
<1>1. Init => CatchUpInv
  BY StoreAssumption DEF Init, StoreInit, CatchUpInv, KeptSealed, Pruning, TornBelow,
     ScanRaises, PublishedLate, PruneCatchesUp
<1>2. SealInv /\ CatchUpInv /\ [Next]_vars => CatchUpInv'
  BY KeptSealedStep, TornBelowStep, PublishedLateStep, CatchesUpStep DEF CatchUpInv
<1> QED  BY <1>1, <1>2, SealInvariant, PTL DEF Spec

\* A prune that runs to its end leaves at most RetainDays seals and no remains
\* of any earlier, interrupted prune, for every setting of the constants
\* (FactStore.prune).
THEOREM PrunesCatchUp == Spec => []PruneCatchesUp
<1>1. CatchUpInv => PruneCatchesUp
  BY DEF CatchUpInv
<1> QED  BY <1>1, CatchUpInvariant, PTL

-----------------------------------------------------------------------------
\* What is public.
NoAnchors == Anchors = {NoAnchor}

LEMMA AnchorStep ==
  ASSUME NoAnchors, anchor = NoAnchor, [Next]_vars
  PROVE  anchor' = NoAnchor
<1>1. CASE StartRun
  BY <1>1 DEF StartRun, NoAnchors
<1>2. ASSUME NEW d \in Days, HealStep(d)  PROVE  anchor' = NoAnchor
  BY <1>2 DEF HealStep, IngestHour, FailHour, ExpireHour, AbandonExpiredDay,
     SealTriedDay, FailSeal, Unwind
<1>3. ASSUME NEW d \in Days, PruneSeal(d) \/ \E h \in HourNos : PruneHour(d, h)
      PROVE  anchor' = NoAnchor
  BY <1>3 DEF PruneSeal, PruneHour
<1>4. CASE UNCHANGED vars \/ Tick \/ PlanHeal \/ EndHeal \/ SelectWindow
           \/ EndPruneSeals \/ EndPrune \/ Crash \/ Finish \/ Abort
  BY <1>4 DEF vars, Tick, PlanHeal, EndHeal, SelectWindow, EndPruneSeals, EndPrune,
     Crash, Finish, Abort, NoRun, Unwind
<1>5. CASE BuildProduct \/ FailBuild \/ PublishProduct \/ FailPublish
  BY <1>5 DEF BuildProduct, FailBuild, PublishProduct, FailPublish
<1> QED  BY <1>1, <1>2, <1>3, <1>4, <1>5 DEF Next, RunStep

\* The window changes with its selection and with the end of a run only; no
\* seal changes between its selection and a prune.
LEMMA BuildingStep ==
  ASSUME [Next]_vars, pc' \in {"build", "publish"}
  PROVE  /\ UNCHANGED disk
         /\ \/ pc \in {"build", "publish"} /\ window' = window
            \/ SelectWindow
<1>1. CASE UNCHANGED vars \/ Tick
  BY <1>1 DEF vars, Tick
<1>2. CASE BuildProduct \/ FailBuild \/ PublishProduct \/ FailPublish
  BY <1>2 DEF BuildProduct, FailBuild, PublishProduct, FailPublish
<1>3. CASE SelectWindow
  BY <1>3 DEF SelectWindow
<1>4. ~(StartRun \/ PlanHeal \/ EndHeal \/ EndPruneSeals \/ EndPrune \/ Crash \/ Finish \/ Abort)
  BY DEF StartRun, PlanHeal, EndHeal, EndPruneSeals, EndPrune, Crash, Finish, Abort, Unwind
<1>5. ASSUME NEW d \in Days, HealStep(d)  PROVE  FALSE
  BY <1>5 DEF HealStep, IngestHour, FailHour, ExpireHour, AbandonExpiredDay,
     SealTriedDay, FailSeal, Unwind
<1>6. ASSUME NEW d \in Days, PruneSeal(d) \/ \E h \in HourNos : PruneHour(d, h)
      PROVE  FALSE
  BY <1>6 DEF PruneSeal, PruneHour
<1> QED  BY <1>1, <1>2, <1>3, <1>4, <1>5, <1>6 DEF Next, RunStep

\* What a step does to the public windows.
LEMMA PublicStep ==
  ASSUME TypeOK, [Next]_vars
  PROVE  \/ /\ UNCHANGED public
            /\ \/ UNCHANGED <<published, window>> \/ published' = {} \/ SelectWindow
         \/ /\ pc = "publish" /\ UNCHANGED <<disk, window>>
            /\ public' = [public EXCEPT ![product] = window]
            /\ published' \subseteq published \cup {product}
<1> DEFINE Goal ==
         \/ /\ UNCHANGED public
            /\ \/ UNCHANGED <<published, window>> \/ published' = {} \/ SelectWindow
         \/ /\ pc = "publish" /\ UNCHANGED <<disk, window>>
            /\ public' = [public EXCEPT ![product] = window]
            /\ published' \subseteq published \cup {product}
<1>1. CASE PublishProduct
  BY <1>1 DEF PublishProduct
<1>2. CASE FailPublish
  BY <1>2 DEF FailPublish
<1>3. CASE BuildProduct \/ FailBuild
  BY <1>3 DEF BuildProduct, FailBuild
<1>4. CASE UNCHANGED vars \/ Tick \/ StartRun \/ EndHeal \/ SelectWindow
           \/ EndPruneSeals \/ EndPrune
  BY <1>4 DEF vars, Tick, StartRun, EndHeal, SelectWindow, EndPruneSeals, EndPrune
<1>5. CASE PlanHeal \/ Crash \/ Finish \/ Abort
  BY <1>5 DEF PlanHeal, Crash, Finish, Abort, NoRun, Unwind
<1>6. ASSUME NEW d \in Days, HealStep(d)  PROVE  Goal
  BY <1>6 DEF HealStep, IngestHour, FailHour, ExpireHour, AbandonExpiredDay,
     SealTriedDay, FailSeal, Unwind
<1>7. ASSUME NEW d \in Days, PruneSeal(d) \/ \E h \in HourNos : PruneHour(d, h)
      PROVE  Goal
  BY <1>7 DEF PruneSeal, PruneHour
<1>8. Goal
  BY <1>1, <1>2, <1>3, <1>4, <1>5, <1>6, <1>7 DEF Next, RunStep
<1> QED  BY <1>8

LEMMA PublicInvStep ==
  ASSUME NoAnchors, SealInv, CatchUpInv, PublicInv, [Next]_vars
  PROVE  PublicInv'
<1>0. /\ TypeOK /\ PublishedLate
      /\ public \in [Products -> SUBSET Days] /\ published \subseteq Products
      /\ product \in Products /\ cutoff \in Int
  BY Integral DEF SealInv, CatchUpInv, TypeOK
<1> USE DEF PublicInv
<1>1. anchor' = NoAnchor
  BY AnchorStep
<1>2. ASSUME pc' \in {"build", "publish"}
      PROVE  window' = SelectAnalysisWindow(SealedDays', NoAnchor) /\ window' # {}
  <2>1. SealedDays' = SealedDays
    BY <1>2, BuildingStep DEF SealedDays, HasSeal
  <2>2. CASE SelectWindow
    BY <1>2, <2>1, <2>2 DEF SelectWindow
  <2> QED  BY <1>2, <2>1, <2>2, BuildingStep
<1>3. \A p \in published' : public'[p] = window'
  <2>1. CASE SelectWindow
    BY <1>0, <2>1 DEF SelectWindow, PublishedLate
  <2>2. CASE /\ public' = [public EXCEPT ![product] = window] /\ window' = window
             /\ published' \subseteq published \cup {product}
    BY <1>0, <2>2
  <2> QED  BY <1>0, <2>1, <2>2, PublicStep
<1>4. ASSUME Pruning'  PROVE  published' = Products /\ \A d \in window' : cutoff' <= d
  <2>1. CASE Pruning /\ UNCHANGED <<cutoff, published, window>>
    BY <2>1
  <2>2. CASE /\ pc \in {"build", "publish"} /\ window' = window /\ published' = Products
             /\ PruneApplies /\ cutoff' = RetentionCutoff(SealedDays)
    BY <2>2, WindowKept
  <2> QED  BY <1>4, <2>1, <2>2, PruningStep
<1>5. PublicBackedByFacts'
  <2>1. CASE UNCHANGED public /\ SealedDays \subseteq SealedDays'
    BY <2>1 DEF PublicBackedByFacts
  <2>2. ASSUME NEW d \in Days, PruneSeal(d), d \in ExpiredSeals(cutoff),
               SealedDays' = SealedDays \ {d}
        PROVE  PublicBackedByFacts'
    <3>1. d < cutoff /\ d \in Int /\ Pruning /\ public' = public
      BY <2>2, Integral DEF ExpiredSeals, SealInv, PruneSeal, Pruning
    <3>2. d \notin window
      BY <1>0, <3>1
    <3>3. \A p \in Products : public[p] = window
      BY <3>1
    <3> QED  BY <2>2, <3>1, <3>2, <3>3 DEF PublicBackedByFacts
  <2>3. CASE /\ pc = "publish" /\ UNCHANGED disk
             /\ public' = [public EXCEPT ![product] = window]
    <3>1. window \subseteq SealedDays /\ SealedDays' = SealedDays
      BY <2>3, SealedFinite, NewestWindow DEF SealedDays, HasSeal
    <3> QED  BY <1>0, <2>3, <3>1 DEF PublicBackedByFacts
  <2>4. ASSUME NEW d \in Days, PruneSeal(d)  PROVE  PublicBackedByFacts'
    BY <2>2, <2>4, UnlinkedSeal
  <2>5. CASE ~\E d \in Days : PruneSeal(d)
    <3>1. SealedDays \subseteq SealedDays'
      BY <2>5, SealedStep
    <3> QED  BY <1>0, <2>1, <2>3, <3>1, PublicStep
  <2> QED  BY <2>4, <2>5
<1> QED  BY <1>1, <1>2, <1>3, <1>4, <1>5

LEMMA PublicInvariant ==
  ASSUME NoAnchors
  PROVE  Spec => []PublicInv
<1>1. Init => PublicInv
  BY DEF Init, PublicInv, Pruning, PublicBackedByFacts
<1>2. SealInv /\ CatchUpInv /\ PublicInv /\ [Next]_vars => PublicInv'
  BY PublicInvStep
<1> QED  BY <1>1, <1>2, SealInvariant, CatchUpInvariant, PTL DEF Spec

\* When runs have no --anchor-day, every day of a public snapshot keeps its
\* sealed facts, although the products are published one after the other, may
\* be behind by different failures, and prunes follow and are interrupted
\* (PipelineDriver._publish_products, FactStore.prune).
THEOREM PublicAlwaysBacked ==
  ASSUME NoAnchors
  PROVE  Spec => []PublicBackedByFacts
<1>1. PublicInv => PublicBackedByFacts
  BY DEF PublicInv
<1> QED  BY <1>1, PublicInvariant, PTL

-----------------------------------------------------------------------------
\* What an "ok" run has done.
ShortHealing == HealDays <= RetainDays + 1

\* A run keeps the instant it captured.
LEMMA NowStep ==
  ASSUME [Next]_vars, pc' # "idle"
  PROVE  now' = now \/ (pc = "idle" /\ now' = <<today, half>> /\ UNCHANGED disk /\ pc' = "plan")
<1>1. CASE StartRun
  BY <1>1 DEF StartRun
<1>2. ASSUME NEW d \in Days, HealStep(d)  PROVE  now' = now
  BY <1>2 DEF HealStep, IngestHour, FailHour, ExpireHour, AbandonExpiredDay,
     SealTriedDay, FailSeal, Unwind
<1>3. ASSUME NEW d \in Days, PruneSeal(d) \/ \E h \in HourNos : PruneHour(d, h)
      PROVE  now' = now
  BY <1>3 DEF PruneSeal, PruneHour
<1>4. CASE UNCHANGED vars \/ Tick \/ PlanHeal \/ EndHeal \/ SelectWindow
           \/ EndPruneSeals \/ EndPrune \/ Crash \/ Finish \/ Abort
  BY <1>4 DEF vars, Tick, PlanHeal, EndHeal, SelectWindow, EndPruneSeals, EndPrune,
     Crash, Finish, Abort, Unwind
<1>5. CASE BuildProduct \/ FailBuild \/ PublishProduct \/ FailPublish
  BY <1>5 DEF BuildProduct, FailBuild, PublishProduct, FailPublish
<1> QED  BY <1>1, <1>2, <1>3, <1>4, <1>5 DEF Next, RunStep

LEMMA CommittedByNowStep ==
  ASSUME SealInv, DistanceInv, CommittedByNow, [Next]_vars
  PROVE  CommittedByNow'
<1> SUFFICES ASSUME pc' # "idle", NEW d \in Days, NEW h \in HourNos, hours'[d][h] # Absent
             PROVE  IsHourSettled(d, h, now'[1], now'[2])
  BY DEF CommittedByNow
<1>1. CASE now' = <<today, half>> /\ UNCHANGED disk
  BY <1>1 DEF DistanceInv, CommittedSettled
<1>2. CASE now' = now /\ pc # "idle"
  BY <1>2, CommittedStep DEF CommittedByNow
<1>3. CASE now' = now /\ pc = "idle"
  <2>1. UNCHANGED vars \/ Tick \/ StartRun
    BY <1>3 DEF Next, RunStep, PlanHeal, HealStep, IngestHour, FailHour, ExpireHour,
       AbandonExpiredDay, SealTriedDay, FailSeal, EndHeal, SelectWindow, BuildProduct,
       FailBuild, PublishProduct, FailPublish, PruneSeal, EndPruneSeals, PruneHour,
       EndPrune, Finish, Abort, Crash
  <2> QED  BY <1>1, <1>3, <2>1 DEF vars, Tick, StartRun
<1> QED  BY <1>1, <1>2, <1>3, NowStep

LEMMA CutoffByNowStep ==
  ASSUME SealInv, CommittedByNow, CutoffByNow, [Next]_vars
  PROVE  CutoffByNow'
<1> SUFFICES ASSUME Pruning'  PROVE  cutoff' + RetainDays <= now'[1]
  BY DEF CutoffByNow
<1>1. CASE Pruning /\ UNCHANGED <<cutoff, now>>
  BY <1>1 DEF CutoffByNow
<1>2. CASE /\ pc \in {"build", "publish"} /\ now' = now
           /\ PruneApplies /\ cutoff' = RetentionCutoff(SealedDays)
  <2>1. now[1] \in Int /\ now[2] \in Int /\ now[2] <= 2 * HoursPerDay - 1
    BY Integral DEF SealInv
  <2>2. \A d \in SealedDays : d < now[1]
    BY <1>2, <2>1, SealedIsOver DEF CommittedByNow, SealedDays
  <2> QED  BY <1>2, <2>1, <2>2, CutoffBefore
<1> QED  BY <1>1, <1>2, PruningStep

\* A prune retires no day that its run has healed.
LEMMA HealedKept ==
  ASSUME ShortHealing, SealInv, CutoffByNow, NEW e \in Days, PruneSeal(e)
  PROVE  e \notin HealingDays(now[1])
<1>1. e < cutoff /\ cutoff + RetainDays <= now[1]
  BY UnlinkedSeal DEF PruneSeal, ExpiredSeals, CutoffByNow, Pruning
<1>2. /\ e \in Int /\ cutoff \in Int /\ now[1] \in Int /\ RetainDays \in Int
      /\ HealDays \in Int
  BY Integral, CalendarAssumption DEF SealInv
<1>3. ~(now[1] - HealDays < e)
  BY <1>1, <1>2 DEF ShortHealing
<1> QED  BY <1>3 DEF HealingDays

LEMMA TodoPlannedStep ==
  ASSUME SealInv, TodoPlanned, [Next]_vars
  PROVE  TodoPlanned'
<1> SUFFICES ASSUME pc' = "heal", ~failed', ~aborted', NEW d \in todo', AllSettled(d)',
                    NEW h \in HourNos, hours'[d][h] = Absent
             PROVE  <<d, h>> \in plan' \/ (expired' /\ IsCurrentDay(d)')
  BY DEF TodoPlanned, SoFarOk, MissingHours
<1>0. StoreTypeOK /\ todo \subseteq Days /\ todo' \subseteq Days /\ Days \subseteq Int
  BY TypeParts, TypeStep, Integral DEF SealInv, TypeOK
<1> DEFINE Planned == <<d, h>> \in plan \/ (expired /\ IsCurrentDay(d))
<1>1. ASSUME pc = "heal", ~failed, ~aborted, now' = now, d \in todo, hours[d][h] = Absent
      PROVE  Planned
  BY <1>1 DEF TodoPlanned, SoFarOk, MissingHours, AllSettled
<1>2. CASE UNCHANGED vars \/ Tick
  BY <1>1, <1>2 DEF vars, Tick, IsCurrentDay
<1>3. CASE PlanHeal
  <2>1. /\ todo' = { e \in HealingDays(now[1]) : Undecided(e) } /\ now' = now /\ UNCHANGED disk
        /\ plan' = { dh \in todo' \X HourNos :
                       dh[2] \in SettledMissingHours(dh[1], MissingHours(dh[1]), now[1], now[2]) }
    BY <1>3 DEF PlanHeal, Unwind
  <2>2. h \in SettledMissingHours(d, MissingHours(d), now[1], now[2])
    BY <2>1 DEF SettledMissingHours, MissingHours, AllSettled
  <2>3. <<d, h>> \in todo' \X HourNos
    OBVIOUS
  <2> QED  BY <2>1, <2>2, <2>3
<1>4. ASSUME NEW e \in Days, NEW g \in HourNos, IngestHour(e, g)
      PROVE  <<d, h>> \in plan' \/ (expired' /\ IsCurrentDay(d)')
  <2>1. PICK c \in Contents : CommitHour(e, g, c)
    BY <1>4, ListingsAreContents DEF IngestHour, Unwind
  <2>2. c # Absent
    BY StoreAssumption
  <2>3. hours[d][h] = Absent /\ <<d, h>> # <<e, g>>
    BY <1>0, <2>1, <2>2 DEF CommitHour, StoreTypeOK
  <2>4. /\ pc = "heal" /\ ~expired /\ plan' = plan \ {<<e, g>>}
        /\ UNCHANGED <<failed, aborted, now, todo>>
    BY <1>4 DEF IngestHour, Unwind
  <2> QED  BY <1>1, <2>3, <2>4
<1>5. ASSUME NEW e \in Days, NEW g \in HourNos, ExpireHour(e, g)
      PROVE  <<d, h>> \in plan' \/ (expired' /\ IsCurrentDay(d)')
  <2>1. /\ pc = "heal" /\ ~expired /\ expired' /\ plan' = { dh \in plan : dh[1] # e }
        /\ IsCurrentDay(e) /\ UNCHANGED <<disk, failed, aborted, now, todo>>
    BY <1>5 DEF ExpireHour, IsCurrentHour
  <2>2. <<d, h>> \in plan
    BY <1>1, <2>1
  <2>3. CASE d = e
    BY <2>1, <2>3 DEF IsCurrentDay
  <2>4. CASE d # e
    BY <2>1, <2>2, <2>4
  <2> QED  BY <2>3, <2>4
<1>6. ASSUME NEW e \in Days, AbandonExpiredDay(e)
      PROVE  <<d, h>> \in plan' \/ (expired' /\ IsCurrentDay(d)')
  <2>1. /\ pc = "heal" /\ IsCurrentDay(e) /\ todo' = todo \ {e}
        /\ UNCHANGED <<hours, plan, failed, aborted, now>>
    BY <1>6 DEF AbandonExpiredDay, Unwind, AbandonDay
  <2>2. ~IsCurrentDay(d)
    BY <1>0, <2>1 DEF IsCurrentDay
  <2> QED  BY <1>1, <2>1, <2>2
<1>7. ASSUME NEW e \in Days, SealTriedDay(e)
      PROVE  <<d, h>> \in plan' \/ (expired' /\ IsCurrentDay(d)')
  <2>1. /\ pc = "heal" /\ ~expired /\ todo' = todo \ {e} /\ ~failed
        /\ UNCHANGED <<hours, plan, aborted, now>>
    BY <1>7 DEF SealTriedDay, SealDay
  <2> QED  BY <1>1, <2>1
<1>8. ASSUME NEW e \in Days, NEW g \in HourNos, FailHour(e, g) \/ FailSeal(e)  PROVE  FALSE
  BY <1>8 DEF FailHour, FailSeal
<1>9. CASE BuildProduct \/ FailBuild \/ PublishProduct \/ FailPublish
  BY <1>9 DEF BuildProduct, FailBuild, PublishProduct, FailPublish, NextProduct
<1>10. CASE StartRun \/ EndHeal \/ SelectWindow \/ EndPruneSeals \/ EndPrune
            \/ Crash \/ Finish \/ Abort
  BY <1>10 DEF StartRun, EndHeal, SelectWindow, EndPruneSeals, EndPrune, Crash, Finish,
     Abort, Unwind
<1>11. ASSUME NEW e \in Days, PruneSeal(e) \/ \E g \in HourNos : PruneHour(e, g)
       PROVE  FALSE
  BY <1>11 DEF PruneSeal, PruneHour
<1> QED
  BY <1>2, <1>3, <1>4, <1>5, <1>6, <1>7, <1>8, <1>9, <1>10, <1>11, CalendarAssumption
     DEF Next, RunStep, HealStep, HourNos

LEMMA HealProgressStep ==
  ASSUME ShortHealing, SealInv, CutoffByNow, TodoPlanned, HealProgress, [Next]_vars
  PROVE  HealProgress'
<1> SUFFICES ASSUME pc' \notin {"idle", "plan"}, ~failed', ~aborted',
                    NEW d \in HealingDays(now'[1]), AllSettled(d)'
             PROVE  ~Undecided(d)' \/ d \in todo'
  BY DEF HealProgress, SoFarOk, HealingDays
<1>0. StoreTypeOK /\ d \in Days /\ failed \in BOOLEAN
  BY TypeParts DEF SealInv, TypeOK, HealingDays
<1>1. ASSUME UNCHANGED <<failed, aborted, now>>, pc \notin {"idle", "plan"}
      PROVE  ~Undecided(d) \/ d \in todo
  BY <1>1 DEF HealProgress, SoFarOk, AllSettled
<1>2. ASSUME UNCHANGED <<failed, aborted, now, todo, abandoned>>, pc \notin {"idle", "plan"},
             seals'[d] = seals[d]
      PROVE  ~Undecided(d)' \/ d \in todo'
  BY <1>1, <1>2 DEF Undecided, HasSeal
<1>3. CASE UNCHANGED vars \/ Tick
  BY <1>2, <1>3 DEF vars, Tick
<1>4. CASE PlanHeal
  BY <1>4 DEF PlanHeal, Unwind, Undecided, HasSeal
<1>5. ASSUME NEW e \in Days, NEW g \in HourNos, IngestHour(e, g) \/ ExpireHour(e, g)
      PROVE  ~Undecided(d)' \/ d \in todo'
  BY <1>2, <1>5 DEF IngestHour, ExpireHour, CommitHour, Unwind
<1>6. ASSUME NEW e \in Days, AbandonExpiredDay(e)
      PROVE  ~Undecided(d)' \/ d \in todo'
  <2>1. /\ pc = "heal" /\ todo' = todo \ {e} /\ seals' = seals
        /\ abandoned' = abandoned \cup {e} /\ UNCHANGED <<failed, aborted, now>>
    BY <1>6 DEF AbandonExpiredDay, Unwind, AbandonDay
  <2> QED  BY <1>1, <2>1 DEF Undecided, HasSeal
<1>7. ASSUME NEW e \in Days, SealTriedDay(e)
      PROVE  ~Undecided(d)' \/ d \in todo'
  <2>1. /\ pc = "heal" /\ ~expired /\ todo' = todo \ {e} /\ ~failed /\ e \in todo
        /\ abandoned' = abandoned /\ DayTried(e) /\ UNCHANGED <<failed, aborted, now>>
    BY <1>0, <1>7 DEF SealTriedDay, SealDay, IsCurrentDay
  <2>2. CASE d = e
    <3>1. MissingHours(e) = {}
      <4>1. \A h \in MissingHours(e) : <<e, h>> \in plan
        BY <2>1, <2>2 DEF TodoPlanned, SoFarOk, AllSettled
      <4> QED  BY <2>1, <4>1 DEF DayTried, MissingHours
    <3>2. ~SealRaises(e) /\ SealDay(e)
      BY <1>7, <2>1, <3>1 DEF SealTriedDay
    <3>3. hours[e] \in [HourNos -> Contents]
      BY <1>0, <3>2 DEF StoreTypeOK, SealRaises, Readable
    <3>4. seals'[e] # NoSeal
      BY <1>0, <3>2, <3>3, StoreAssumption DEF SealDay, StoreTypeOK
    <3> QED  BY <2>2, <3>4 DEF Undecided, HasSeal
  <2>3. CASE d # e
    <3>1. seals'[d] = seals[d]
      BY <1>0, <1>7, <2>3 DEF SealTriedDay, SealDay, StoreTypeOK
    <3> QED  BY <1>1, <2>1, <2>3, <3>1 DEF Undecided, HasSeal
  <2> QED  BY <2>2, <2>3
<1>8. ASSUME NEW e \in Days, NEW g \in HourNos, FailHour(e, g) \/ FailSeal(e)  PROVE  FALSE
  BY <1>8 DEF FailHour, FailSeal
<1>9. CASE BuildProduct \/ FailBuild \/ PublishProduct \/ FailPublish
  BY <1>2, <1>9 DEF BuildProduct, FailBuild, PublishProduct, FailPublish
<1>10. CASE EndHeal \/ SelectWindow \/ EndPruneSeals \/ EndPrune
  BY <1>2, <1>10 DEF EndHeal, SelectWindow, EndPruneSeals, EndPrune
<1>11. ~(StartRun \/ Crash \/ Finish \/ Abort)
  BY DEF StartRun, Crash, Finish, Abort, Unwind
<1>12. ASSUME NEW e \in Days, PruneSeal(e)  PROVE  ~Undecided(d)' \/ d \in todo'
  <2>1. pc = "prune_seals" /\ UNCHANGED <<failed, aborted, now, todo, abandoned>>
    BY <1>12 DEF PruneSeal, UnlinkSeal
  <2>2. d # e
    BY <1>12, <2>1, HealedKept
  <2>3. seals'[d] = seals[d]
    BY <1>0, <1>12, <2>2 DEF PruneSeal, UnlinkSeal, StoreTypeOK
  <2> QED  BY <1>2, <2>1, <2>3
<1>13. ASSUME NEW e \in Days, NEW g \in HourNos, PruneHour(e, g)
       PROVE  ~Undecided(d)' \/ d \in todo'
  BY <1>2, <1>13 DEF PruneHour, TearHour, RemoveHour
<1> QED
  BY <1>3, <1>4, <1>5, <1>6, <1>7, <1>8, <1>9, <1>10, <1>11, <1>12, <1>13,
     CalendarAssumption DEF Next, RunStep, HealStep, HourNos

LEMMA HeroesFirstStep == HeroesFirst /\ [Next]_vars => HeroesFirst'
<1> SUFFICES ASSUME HeroesFirst, [Next]_vars  PROVE  HeroesFirst'
  OBVIOUS
<1> USE DEF HeroesFirst
<1>1. CASE UNCHANGED vars \/ Tick \/ StartRun \/ EndHeal \/ SelectWindow
           \/ EndPruneSeals \/ EndPrune
  BY <1>1 DEF vars, Tick, StartRun, EndHeal, SelectWindow, EndPruneSeals, EndPrune
<1>2. CASE PlanHeal \/ Crash \/ Finish \/ Abort
  BY <1>2 DEF PlanHeal, Crash, Finish, Abort, NoRun, Unwind
<1>3. CASE BuildProduct \/ FailBuild \/ PublishProduct \/ FailPublish
  BY <1>3 DEF BuildProduct, FailBuild, PublishProduct, FailPublish, NextProduct
<1>4. ASSUME NEW d \in Days, HealStep(d)  PROVE  HeroesFirst'
  BY <1>4 DEF HealStep, IngestHour, FailHour, ExpireHour, AbandonExpiredDay,
     SealTriedDay, FailSeal, Unwind
<1>5. ASSUME NEW d \in Days, PruneSeal(d) \/ \E h \in HourNos : PruneHour(d, h)
      PROVE  HeroesFirst'
  BY <1>5 DEF PruneSeal, PruneHour
<1> QED  BY <1>1, <1>2, <1>3, <1>4, <1>5 DEF Next, RunStep

LEMMA ProductProgressStep ==
  ASSUME TypeOK, HeroesFirst, ProductProgress, [Next]_vars
  PROVE  ProductProgress'
<1> SUFFICES ASSUME ~failed', ~aborted', publish'
             PROVE  /\ pc' \in {"build", "publish"} /\ product' = "builds" => Done("heroes")'
                    /\ pc' = "publish" => local'[product'] = window'
                    /\ Pruning' \/ (pc' = "finish" /\ window' # {}) =>
                         \A p \in Products : Done(p)'
  BY DEF ProductProgress, SoFarOk
<1>0. /\ public \in [Products -> SUBSET Days] /\ local \in [Products -> SUBSET Days]
      /\ product \in {"heroes", "builds"}
  BY DEF TypeOK, Products
<1> USE <1>0 DEF ProductProgress, SoFarOk, Done, Pruning, Products
<1>1. CASE UNCHANGED vars \/ Tick
  BY <1>1 DEF vars, Tick
<1>2. CASE StartRun \/ EndHeal \/ PlanHeal \/ Crash \/ Finish \/ Abort
  BY <1>2 DEF StartRun, EndHeal, PlanHeal, Crash, Finish, Abort, Unwind
<1>3. CASE SelectWindow
  BY <1>3 DEF SelectWindow, HeroesFirst
<1>4. CASE BuildProduct
  BY <1>4 DEF BuildProduct
<1>5. CASE PublishProduct
  BY <1>5 DEF PublishProduct, NextProduct
<1>6. CASE FailBuild \/ FailPublish
  BY <1>6 DEF FailBuild, FailPublish
<1>7. CASE EndPruneSeals \/ EndPrune
  BY <1>7 DEF EndPruneSeals, EndPrune
<1>8. ASSUME NEW d \in Days, HealStep(d)  PROVE  pc' = "heal"
  BY <1>8 DEF HealStep, IngestHour, FailHour, ExpireHour, AbandonExpiredDay,
     SealTriedDay, FailSeal, Unwind
<1>9. ASSUME NEW d \in Days, PruneSeal(d) \/ \E h \in HourNos : PruneHour(d, h)
      PROVE  pc \in {"prune_seals", "prune_hours"} /\ UNCHANGED <<pc, runState, public_state>>
  BY <1>9 DEF PruneSeal, PruneHour
<1> QED  BY <1>1, <1>2, <1>3, <1>4, <1>5, <1>6, <1>7, <1>8, <1>9 DEF Next, RunStep

LEMMA OkInvariant ==
  ASSUME ShortHealing
  PROVE  Spec => []OkInv
<1>1. Init => OkInv
  BY DEF Init, OkInv, CommittedByNow, CutoffByNow, TodoPlanned, HealProgress, HeroesFirst,
     ProductProgress, Pruning
<1>2. SealInv /\ DistanceInv /\ OkInv /\ [Next]_vars => OkInv'
  <2> SUFFICES ASSUME SealInv, DistanceInv, OkInv, [Next]_vars  PROVE  OkInv'
    OBVIOUS
  <2>1. TypeOK
    BY DEF SealInv
  <2> QED
    BY <2>1, CommittedByNowStep, CutoffByNowStep, TodoPlannedStep, HealProgressStep,
       HeroesFirstStep, ProductProgressStep DEF OkInv
<1> QED  BY <1>1, <1>2, SealInvariant, DistanceInvariant, PTL DEF Spec

\* If the healing window is at most one day longer than retention, a run that is
\* recorded as "ok" has sealed or abandoned every day of its healing window that
\* had settled when it started, its own prune included, and shows the window it
\* selected, in public and locally, for both products (PipelineDriver.run).
THEOREM OkIsComplete ==
  ASSUME ShortHealing
  PROVE  Spec => []OkRunIsComplete
<1>1. TypeOK /\ FateInv /\ OkInv => OkRunIsComplete
  <2> SUFFICES ASSUME TypeOK, FateInv, OkInv, pc = "finish", Outcome = "ok"
               PROVE  /\ \A d \in HealingDays(now[1]) : AllSettled(d) => ~Undecided(d)
                      /\ publish /\ window # {} => \A p \in Products : Done(p)
    BY DEF OkRunIsComplete, AllSettled, Done
  <2>1. todo = {} /\ SoFarOk
    BY DEF FateInv, TodoOnlyHealing, Outcome, SoFarOk
  <2> QED  BY <2>1 DEF OkInv, HealProgress, ProductProgress
<1> QED  BY <1>1, TypeCorrect, FateInvariant, OkInvariant, PTL DEF ShortHealing

-----------------------------------------------------------------------------
\* The ledger.

LEMMA LedgerInitial == Init => Ledger!LedgerInit
BY DEF Init, StoreInit, Ledger!LedgerInit, Fate, HasSeal

LEMMA LedgerSealed == FateInv => Ledger!Sealed = SealedDays
BY DEF FateInv, AbandonedIncomplete, Ledger!Sealed, Fate, SealedDays, HasSeal

\* The ledger's own copies of the library's operators.
LEMMA LedgerOperators ==
  ASSUME NEW S
  PROVE  /\ Ledger!Max(S) = Max(S) /\ Ledger!Min(S) = Min(S)
         /\ Ledger!Cardinality(S) = Cardinality(S)
BY DEF Ledger!Max, Max, Ledger!Min, Min, Ledger!Cardinality, Cardinality

\* What a run shows is a window of the ledger that ends at its newest day.
LEMMA ShownWindow ==
  ASSUME FateInv, NEW W, W = SelectAnalysisWindow(SealedDays, NoAnchor), W # {}
  PROVE  Ledger!IsWindow(W) /\ Max(W) = Max(SealedDays)
<1> DEFINE m == Max(SealedDays)
<1>1. /\ W \subseteq SealedDays /\ m \in W
      /\ \A d \in SealedDays : d <= m
      /\ \A d \in W : m - d < AnalysisDays /\ d .. m \subseteq W
  BY SealedFinite, NewestWindow
<1>2. IsFiniteSet(W) /\ Cardinality(W) \in Nat /\ W \subseteq Int
  BY <1>1, SealedFinite
<1>3. /\ Max(W) \in W /\ \A d \in W : d <= Max(W)
      /\ Min(W) \in W /\ \A d \in W : Min(W) <= d
  BY <1>2, MaxIsGreatest, MinIsLeast
<1> HIDE DEF m
<1>4. m \in Int /\ AnalysisDays \in Nat /\ Max(W) \in Int /\ Min(W) \in Int
  BY <1>1, <1>2, <1>3, CalendarAssumption
<1>5. Max(W) = m
  BY <1>1, <1>3, <1>4
<1>6. W = Min(W) .. Max(W)
  <2>1. ASSUME NEW d \in W  PROVE  d \in Min(W) .. Max(W)
    BY <1>2, <1>3, <1>4
  <2>2. Min(W) .. m \subseteq W
    BY <1>1, <1>3
  <2> QED  BY <1>5, <2>1, <2>2
<1>7. Cardinality(W) <= AnalysisDays
  <2>1. W \in SUBSET ((m - AnalysisDays + 1) .. m)
    <3> SUFFICES ASSUME NEW d \in W  PROVE  d \in (m - AnalysisDays + 1) .. m
      OBVIOUS
    <3>1. d \in Int /\ m - d < AnalysisDays /\ d <= m
      BY <1>1, <1>2
    <3> QED  BY <1>4, <3>1
  <2>2. /\ IsFiniteSet((m - AnalysisDays + 1) .. m)
        /\ Cardinality((m - AnalysisDays + 1) .. m) = AnalysisDays
    BY <1>4, FS_Interval
  <2> QED  BY <1>2, <1>4, <2>1, <2>2, FS_Subset
<1> QED
  BY <1>1, <1>5, <1>6, <1>7, LedgerSealed, LedgerOperators DEF Ledger!IsWindow, m

\* Publishing a product shows it in the ledger.
LEMMA ShowStep ==
  ASSUME SealInv, FateInv, PublicInv, pc = "publish",
         UNCHANGED <<seals, abandoned, retired>>,
         public' = [public EXCEPT ![product] = window]
  PROVE  Ledger!Show(product) /\ product \in Products
<1>0. public \in [Products -> SUBSET Days] /\ product \in Products
  BY DEF SealInv, TypeOK
<1>1. public'[product] = window
  BY <1>0
<1>2. Ledger!IsWindow(window) /\ Max(window) = Max(SealedDays)
  BY ShownWindow DEF PublicInv
<1>3. SealedDays # {} /\ SealedDays \subseteq Int /\ IsFiniteSet(SealedDays)
  BY <1>2, SealedFinite, LedgerSealed DEF Ledger!IsWindow
<1>4. \A d \in SealedDays : d <= Max(window)
  BY <1>2, <1>3, MaxIsGreatest
<1>5. ASSUME public[product] # {}  PROVE  Max(public[product]) <= Max(window)
  <2>1. public[product] \subseteq SealedDays
    BY <1>0 DEF PublicInv, PublicBackedByFacts
  <2>2. Max(public[product]) \in public[product]
    BY <1>3, <1>5, <2>1, SealedFinite, MaxIsGreatest
  <2> QED  BY <1>4, <2>1, <2>2
<1>6. UNCHANGED [d \in Days |-> Fate(d)]
  BY DEF Fate, HasSeal
<1> QED
  BY <1>0, <1>1, <1>2, <1>4, <1>5, <1>6, LedgerSealed, LedgerOperators DEF Ledger!Show

\* Pruning a seal retires its day.
LEMMA RetireStep ==
  ASSUME SealInv, FateInv, CatchUpInv, PublicInv, NEW d \in Days, PruneSeal(d)
  PROVE  Ledger!Retire(d)
<1>0. StoreTypeOK /\ Products = {"heroes", "builds"}
  BY TypeParts DEF SealInv, Products
<1>1. /\ Pruning /\ d \in SealedDays /\ d < cutoff /\ \A e \in ExpiredSeals(cutoff) : d <= e
      /\ retired' = retired \cup {d} /\ seals' = [seals EXCEPT ![d] = NoSeal]
      /\ UNCHANGED <<abandoned, public>>
  BY DEF PruneSeal, Pruning, ExpiredSeals, UnlinkSeal
<1>2. d \in Int /\ cutoff \in Int /\ RetainDays \in Nat /\ SealedDays \subseteq Int
  BY Integral, SealedFinite, RetentionAssumption DEF SealInv
<1>3. \A e \in SealedDays : d <= e
  BY <1>1, <1>2 DEF ExpiredSeals
<1>4. Cardinality(SealedDays) > RetainDays
  <2>1. /\ From(SealedDays, cutoff) \in SUBSET SealedDays
        /\ d \notin From(SealedDays, cutoff)
        /\ Cardinality(From(SealedDays, cutoff)) = RetainDays
    BY <1>1, <1>2 DEF From, CatchUpInv, KeptSealed
  <2>2. /\ Cardinality(SealedDays) \in Nat /\ RetainDays <= Cardinality(SealedDays)
        /\ RetainDays # Cardinality(SealedDays)
    BY <1>1, <2>1, SealedFinite, FS_Subset
  <2> QED  BY <1>2, <2>2
<1>5. \A p \in Products : d \notin public[p]
  <2>1. d \notin window /\ \A p \in Products : public[p] = window
    BY <1>1, <1>2 DEF PublicInv
  <2> QED  BY <2>1
<1>6. [e \in Days |-> Fate(e)]' = [[e \in Days |-> Fate(e)] EXCEPT ![d] = "retired"]
  <2>1. d \notin abandoned
    BY <1>1 DEF FateInv, AbandonedIncomplete, SealedDays
  <2>2. Fate(d)' = "retired"
    BY <1>0, <1>1, <2>1 DEF Fate, HasSeal, StoreTypeOK
  <2>3. \A e \in Days : e # d => Fate(e)' = Fate(e)
    BY <1>0, <1>1 DEF Fate, HasSeal, StoreTypeOK
  <2> QED  BY <2>2, <2>3
<1> QED
  BY <1>1, <1>3, <1>4, <1>5, <1>6, LedgerSealed, LedgerOperators DEF Ledger!Retire

\* Sealing and abandoning decide an open day, or repeat what was decided.
LEMMA DecideStep ==
  ASSUME SealInv, FateInv, NEW d \in todo, UNCHANGED <<retired, public>>,
         \/ ~SealRaises(d) /\ SealDay(d)
         \/ ~HasSeal(d) /\ AbandonDay(d)
  PROVE  Ledger!Seal(d) \/ Ledger!Abandon(d) \/ UNCHANGED Ledger!ledger
<1>0. StoreTypeOK /\ d \in Days /\ d \notin abandoned /\ d \notin retired
  BY TypeParts DEF SealInv, TypeOK, FateInv, TodoOpen
<1> DEFINE Is(f) == [e \in Days |-> Fate(e)]' = [[e \in Days |-> Fate(e)] EXCEPT ![d] = f]
<1>1. CASE ~HasSeal(d) /\ AbandonDay(d)
  <2>1. Fate(d) = "open" /\ Fate(d)' = "abandoned"
    BY <1>0, <1>1 DEF Fate, AbandonDay
  <2>2. \A e \in Days : e # d => Fate(e)' = Fate(e)
    BY <1>0, <1>1 DEF Fate, HasSeal, AbandonDay
  <2>3. Is("abandoned")
    BY <2>1, <2>2
  <2> QED  BY <1>0, <2>1, <2>3 DEF Ledger!Abandon
<1>2. CASE ~SealRaises(d) /\ SealDay(d)
  <2>1. hours[d] \in [HourNos -> Contents] /\ seals[d] \in {NoSeal, hours[d]}
    BY <1>0, <1>2 DEF StoreTypeOK, SealRaises, Readable
  <2>2. hours[d] # NoSeal /\ seals'[d] = hours[d]
    BY <1>0, <1>2, <2>1, StoreAssumption DEF SealDay, StoreTypeOK
  <2>3. \A e \in Days : e # d => Fate(e)' = Fate(e)
    BY <1>0, <1>2 DEF Fate, HasSeal, SealDay, StoreTypeOK
  <2>4. Fate(d)' = "sealed"
    BY <1>0, <1>2, <2>2 DEF Fate, HasSeal, SealDay
  <2>5. CASE HasSeal(d)
    <3>1. Fate(d) = "sealed"
      BY <1>0, <2>5 DEF Fate
    <3>2. UNCHANGED [e \in Days |-> Fate(e)]
      BY <2>3, <2>4, <3>1
    <3> QED  BY <3>2 DEF Ledger!ledger
  <2>6. CASE ~HasSeal(d)
    <3>1. Fate(d) = "open"
      BY <1>0, <2>6 DEF Fate
    <3>2. Is("sealed")
      BY <2>3, <2>4
    <3> QED  BY <1>0, <3>1, <3>2 DEF Ledger!Seal
  <2> QED  BY <2>5, <2>6
<1> QED  BY <1>1, <1>2

LEMMA LedgerStep ==
  ASSUME SealInv, FateInv, CatchUpInv, PublicInv, [Next]_vars
  PROVE  [Ledger!LedgerNext]_(Ledger!ledger)
<1>0. TypeOK /\ todo \subseteq Days
  BY DEF SealInv, TypeOK
<1>1. ASSUME NEW d \in Days, PruneSeal(d)  PROVE  [Ledger!LedgerNext]_(Ledger!ledger)
  BY <1>1, RetireStep DEF Ledger!LedgerNext
<1>2. CASE UNCHANGED <<seals, abandoned, retired>>
  <2>1. CASE UNCHANGED public
    <3>1. UNCHANGED [e \in Days |-> Fate(e)]
      BY <1>2 DEF Fate, HasSeal
    <3> QED  BY <2>1, <3>1 DEF Ledger!ledger
  <2>2. CASE pc = "publish" /\ public' = [public EXCEPT ![product] = window]
    BY <1>2, <2>2, ShowStep DEF Ledger!LedgerNext
  <2> QED  BY <1>0, <2>1, <2>2, PublicStep
<1>3. ASSUME NEW d \in todo, UNCHANGED retired,
             \/ ~SealRaises(d) /\ SealDay(d)
             \/ ~HasSeal(d) /\ AbandonDay(d)
      PROVE  [Ledger!LedgerNext]_(Ledger!ledger)
  <2>1. CASE UNCHANGED public
    BY <1>0, <1>3, <2>1, DecideStep DEF Ledger!LedgerNext
  <2>2. CASE UNCHANGED disk
    BY <1>2, <1>3, <2>2
  <2> QED  BY <1>0, <2>1, <2>2, PublicStep
<1> QED  BY <1>1, <1>2, <1>3, FateStep

\* For runs without an anchor, and a healing window at most one day longer than
\* retention, the pipeline implements the ledger: each day has one fate, retired
\* days go oldest first and unseen, and no public window ever moves backwards,
\* whatever fails or is interrupted (PipelineDriver.run, FactStore).
THEOREM PipelineImplementsLedger ==
  ASSUME NoAnchors, ShortHealing
  PROVE  Spec => ImplementsLedger
<1>1. Init => Ledger!LedgerInit
  BY LedgerInitial
<1>2. SealInv /\ FateInv /\ CatchUpInv /\ PublicInv /\ [Next]_vars
        => [Ledger!LedgerNext]_(Ledger!ledger)
  BY LedgerStep
<1>3. Spec => []FateInv
  BY FateInvariant DEF ShortHealing
<1>4. Spec => []PublicInv
  BY PublicInvariant
<1> QED
  BY <1>1, <1>2, <1>3, <1>4, SealInvariant, CatchUpInvariant, PTL
     DEF Spec, ImplementsLedger, Ledger!LedgerSpec

=============================================================================
