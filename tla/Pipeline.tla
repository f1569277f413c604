------------------------------ MODULE Pipeline ------------------------------
(***************************************************************************)
(* The `bpp run` pipeline (driver.py) over the fact store: heal the recent *)
(* Source Days hour by hour, seal or abandon each, select the Analysis     *)
(* Window, build and publish both products, prune expired facts, record    *)
(* the run.  The clock advances while a run works, the Bundle Server       *)
(* answers as it likes, and a run can be interrupted before any step:      *)
(* by an exception that ends it in order (Abort) or by the loss of the     *)
(* process (Crash).                                                        *)
(*                                                                         *)
(* One run at a time: mutual exclusion between runs is the DirectoryLock's *)
(* affair.  What survives a run is the disk, the public objects and the    *)
(* run history; the rest of the state is a run's memory.                   *)
(***************************************************************************)
EXTENDS FactStore

CONSTANTS
    Anchors,        \* the --anchor-day values runs are started with
    PublishModes,   \* the values of `publish` (FALSE for --no-publish)
    MaxRunTicks,    \* bound: half-hours a run lasts at most (max_run_seconds)
    MaxCrashes      \* bound: processes lost

ASSUME PipelineAssumption ==
    /\ Anchors \subseteq Days \cup {NoAnchor} /\ Anchors # {}
    /\ PublishModes \subseteq BOOLEAN /\ PublishModes # {}
    /\ MaxRunTicks \in Nat /\ MaxCrashes \in Nat

VARIABLES
    today, half,        \* the clock
    local, public,      \* per product, the window of snapshots/<p>/latest.json
                        \* and of the public object ({}: none yet)
    history,            \* outcome of the last run recorded by finish
    pc,                 \* where the run is
    now,                \* the instant the run captured when it started
    anchor, publish,    \* the run's arguments
    todo,               \* the planned days not yet dealt with
    plan,               \* planned_by_day: the <<day, hour>> pairs not yet tried
    expired,            \* expired_reason of the current day is set
    failed,             \* progress.failures is not empty
    aborted,            \* pending_error: an exception left the run
    window,             \* the Analysis Window of this run
    product,            \* the product being built or published
    published,          \* run_report[...]["published"]
    cutoff,             \* retention cutoff of this run's prune
    ticks, crashes,     \* counters of the bounds
    retired             \* auxiliary: days whose seal retention has removed

clock  == <<today, half>>
public_state == <<local, public, history>>
runState == <<now, anchor, publish, todo, plan, expired, failed, aborted,
              window, product, published, cutoff>>
aux    == <<ticks, crashes, retired>>
vars   == <<disk, clock, public_state, pc, runState, aux>>

Products == {"heroes", "builds"}
PCs == {"idle", "plan", "heal", "select", "build", "publish",
        "prune_seals", "prune_hours", "finish"}

-----------------------------------------------------------------------------
\* the state a process starts with, and what is left of it when it ends
NoRun ==
    /\ now' = <<Epoch, 0>> /\ anchor' = NoAnchor /\ publish' = TRUE
    /\ todo' = {} /\ plan' = {} /\ expired' = FALSE
    /\ failed' = FALSE /\ aborted' = FALSE
    /\ window' = {} /\ product' = "heroes" /\ published' = {} /\ cutoff' = Epoch
    /\ ticks' = 0

Init ==
    /\ StoreInit
    /\ today = Epoch /\ half = 0
    /\ local = [p \in Products |-> {}] /\ public = [p \in Products |-> {}]
    /\ history = "none"
    /\ pc = "idle"
    /\ now = <<Epoch, 0>> /\ anchor = NoAnchor /\ publish = TRUE
    /\ todo = {} /\ plan = {} /\ expired = FALSE
    /\ failed = FALSE /\ aborted = FALSE
    /\ window = {} /\ product = "heroes" /\ published = {} /\ cutoff = Epoch
    /\ ticks = 0 /\ crashes = 0 /\ retired = {}

\* the clock; a run that outlives max_run_seconds is fenced by its own lock
Tick ==
    /\ pc # "idle" => ticks < MaxRunTicks
    /\ ticks' = IF pc = "idle" THEN 0 ELSE ticks + 1
    /\ \/ /\ half + 1 \in Halves
          /\ half' = half + 1 /\ today' = today
       \/ /\ half + 1 \notin Halves /\ today < LastDay
          /\ half' = 0 /\ today' = today + 1
    /\ UNCHANGED <<disk, public_state, pc, runState, crashes, retired>>

\* run: capture the clock and the arguments
StartRun ==
    /\ pc = "idle" /\ pc' = "plan"
    /\ now' = <<today, half>>
    /\ anchor' \in Anchors /\ publish' \in PublishModes
    /\ UNCHANGED <<disk, clock, public_state, todo, plan, expired, failed, aborted,
                   window, product, published, cutoff, aux>>

\* an exception nothing isolates (SourceContractError, a conflict, a full
\* disk, the maximum run time): it unwinds to finish, and the run's loops end
Unwind ==
    /\ aborted' = TRUE /\ pc' = "finish"
    /\ todo' = {} /\ plan' = {} /\ expired' = FALSE /\ failed' = FALSE
    /\ window' = {} /\ product' = "heroes" /\ published' = {} /\ cutoff' = Epoch
    /\ UNCHANGED <<now, anchor, publish>>

\* _heal, the plan: the undecided days of the healing window, and of each the
\* hours that are missing and settled.  A torn hour raises out of the run.
PlanHeal ==
    /\ pc = "plan"
    /\ LET days == { d \in HealingDays(now[1]) : Undecided(d) }
       IN  \/ /\ \E d \in days : ScanRaises(d)
              /\ Unwind
           \/ /\ \A d \in days : ~ScanRaises(d)
              /\ todo' = days
              /\ plan' = { dh \in days \X HourNos :
                             dh[2] \in SettledMissingHours(dh[1], MissingHours(dh[1]),
                                                           now[1], now[2]) }
              /\ pc' = "heal"
              /\ UNCHANGED <<now, anchor, publish, expired, failed, aborted,
                             window, product, published, cutoff>>
    /\ UNCHANGED <<disk, clock, public_state, aux>>

-----------------------------------------------------------------------------
\* the day loop and, inside it, the hour loop, both oldest first
IsCurrentDay(d)     == d \in todo /\ \A e \in todo : d <= e
IsCurrentHour(d, h) == /\ IsCurrentDay(d) /\ <<d, h>> \in plan
                       /\ \A g \in HourNos : <<d, g>> \in plan => h <= g
DayTried(d)         == \A h \in HourNos : <<d, h>> \notin plan

\* the Bundle Server: uploads that belong to an hour keep arriving until it has
\* ended and the settle lag has passed; a listing taken earlier is incomplete
StillArriving(d, h) ==
    \/ today < d
    \/ today = d     /\ half < 2 * h + 2 + SettleLag
    \/ today = d + 1 /\ half + 2 * HoursPerDay < 2 * h + 2 + SettleLag
Listings(d, h) == IF StillArriving(d, h) THEN {Growing} ELSE Finals

\* the hour is enumerated, admitted, projected and committed
IngestHour(d, h) ==
    /\ pc = "heal" /\ ~expired /\ IsCurrentHour(d, h)
    /\ \E c \in Listings(d, h) :
         IF CommitRaises(d, h, c)
           THEN Unwind /\ UNCHANGED disk
           ELSE /\ CommitHour(d, h, c)
                /\ plan' = plan \ {<<d, h>>}
                /\ UNCHANGED <<pc, now, anchor, publish, todo, expired, failed, aborted,
                               window, product, published, cutoff>>
    /\ UNCHANGED <<clock, public_state, aux>>

\* RetryableSourceError: the retries are exhausted, the run goes on
FailHour(d, h) ==
    /\ pc = "heal" /\ ~expired /\ IsCurrentHour(d, h)
    /\ plan' = plan \ {<<d, h>>} /\ failed' = TRUE
    /\ UNCHANGED <<disk, clock, public_state, pc, now, anchor, publish, todo, expired,
                   aborted, window, product, published, cutoff, aux>>

\* HourExpired: a 410, whatever the local clock says of the hour, or an empty
\* listing past retention; the day's loop ends
ExpireHour(d, h) ==
    /\ pc = "heal" /\ ~expired /\ IsCurrentHour(d, h)
    /\ expired' = TRUE
    /\ plan' = { dh \in plan : dh[1] # d }
    /\ UNCHANGED <<disk, clock, public_state, pc, now, anchor, publish, todo, failed,
                   aborted, window, product, published, cutoff, aux>>

\* the day expired: scan its hours again and record the abandonment, outside
\* any handler, so that what it raises ends the run
AbandonExpiredDay(d) ==
    /\ pc = "heal" /\ expired /\ IsCurrentDay(d)
    /\ IF ScanRaises(d) \/ AbandonRaises(d, MissingHours(d))
         THEN Unwind /\ UNCHANGED disk
         ELSE /\ AbandonDay(d)
              /\ todo' = todo \ {d} /\ expired' = FALSE
              /\ UNCHANGED <<pc, now, anchor, publish, plan, failed, aborted,
                             window, product, published, cutoff>>
    /\ UNCHANGED <<clock, public_state, aux>>

\* every planned hour was tried: seal a day with no missing hour; what the
\* scan or the seal raises is a recorded failure
SealTriedDay(d) ==
    /\ pc = "heal" /\ ~expired /\ IsCurrentDay(d) /\ DayTried(d)
    /\ todo' = todo \ {d}
    /\ LET raises == ScanRaises(d) \/ (MissingHours(d) = {} /\ SealRaises(d))
       IN  /\ IF ~raises /\ MissingHours(d) = {} THEN SealDay(d) ELSE UNCHANGED disk
           /\ failed' = (failed \/ raises)
    /\ UNCHANGED <<clock, public_state, pc, now, anchor, publish, plan, expired, aborted,
                   window, product, published, cutoff, aux>>

\* seal_day fails (a full disk, say) before its link, or after it, so that the
\* seal stays beside the recorded failure; the run goes on
FailSeal(d) ==
    /\ pc = "heal" /\ ~expired /\ IsCurrentDay(d) /\ DayTried(d)
    /\ MissingHours(d) = {}
    /\ \/ UNCHANGED disk
       \/ ~ScanRaises(d) /\ ~SealRaises(d) /\ SealDay(d)
    /\ todo' = todo \ {d} /\ failed' = TRUE
    /\ UNCHANGED <<clock, public_state, pc, now, anchor, publish, plan, expired,
                   aborted, window, product, published, cutoff, aux>>

EndHeal ==
    /\ pc = "heal" /\ todo = {} /\ pc' = "select"
    /\ UNCHANGED <<disk, clock, public_state, runState, aux>>

-----------------------------------------------------------------------------
\* select_analysis_window over the seals now on disk; no window, no products
SelectWindow ==
    /\ pc = "select"
    /\ window' = SelectAnalysisWindow(SealedDays, anchor)
    /\ pc' = IF window' = {} THEN "finish" ELSE "build"
    /\ UNCHANGED <<disk, clock, public_state, now, anchor, publish, todo, plan, expired,
                   failed, aborted, product, published, cutoff, aux>>

BothPublished_Any(done) == done # {}     \* bug: one product is enough
BothPublished(done) == done = Products

\* after a product: the other one, or retention if both were published
NextProduct(done) ==
    IF product = "heroes"
      THEN /\ product' = "builds" /\ pc' = "build"
           /\ UNCHANGED cutoff
      ELSE /\ product' = product
           /\ IF BothPublished(done) /\ PruneApplies
                THEN /\ cutoff' = RetentionCutoff(SealedDays)
                     /\ pc' = "prune_seals"
                ELSE pc' = "finish" /\ UNCHANGED cutoff

\* the snapshot is built from the verified days and saved in the data root
BuildProduct ==
    /\ pc = "build"
    /\ \A d \in window : VerifiedDay(d)
    /\ local' = [local EXCEPT ![product] = window]
    /\ IF publish
         THEN pc' = "publish" /\ UNCHANGED <<product, cutoff>>
         ELSE NextProduct(published)
    /\ UNCHANGED <<disk, clock, public, history, now, anchor, publish, todo, plan,
                   expired, failed, aborted, window, published, aux>>

\* the build or the local save raises, the save perhaps after its rename: this
\* product fails, the other goes on
FailBuild ==
    /\ pc = "build"
    /\ \/ local' = [local EXCEPT ![product] = window]
       \/ UNCHANGED local
    /\ failed' = TRUE
    /\ NextProduct(published)
    /\ UNCHANGED <<disk, clock, public, history, now, anchor, publish, todo, plan,
                   expired, aborted, window, published, aux>>

\* LatestPublisher.replace: put (or found equal), and confirmed by a get
PublishProduct ==
    /\ pc = "publish"
    /\ public' = [public EXCEPT ![product] = window]
    /\ published' = published \cup {product}
    /\ NextProduct(published')
    /\ UNCHANGED <<disk, clock, local, history, now, anchor, publish, todo, plan,
                   expired, failed, aborted, window, aux>>

\* replace raises; the object may or may not have been put
FailPublish ==
    /\ pc = "publish"
    /\ \/ public' = [public EXCEPT ![product] = window]
       \/ UNCHANGED public
    /\ failed' = TRUE
    /\ NextProduct(published)
    /\ UNCHANGED <<disk, clock, local, history, now, anchor, publish, todo, plan,
                   expired, aborted, window, published, aux>>

-----------------------------------------------------------------------------
\* FactStore.prune, first loop: unlink one expired seal, the oldest
PruneSeal(d) ==
    /\ pc = "prune_seals"
    /\ d \in ExpiredSeals(cutoff) /\ \A e \in ExpiredSeals(cutoff) : d <= e
    /\ UnlinkSeal(d)
    /\ retired' = retired \cup {d}
    /\ UNCHANGED <<clock, public_state, pc, runState, ticks, crashes>>

EndPruneSeals ==
    /\ pc = "prune_seals" /\ ExpiredSeals(cutoff) = {}
    /\ pc' = "prune_hours"
    /\ UNCHANGED <<disk, clock, public_state, runState, aux>>

\* second loop: rmtree the hours dated before the cutoff, in order; between
\* its first unlink and its last rmdir an hour directory is torn
IsFirstExpired(d, h) ==
    /\ <<d, h>> \in ExpiredHours(cutoff)
    /\ \A dh \in ExpiredHours(cutoff) : d < dh[1] \/ (d = dh[1] /\ h <= dh[2])

PruneHour(d, h) ==
    /\ pc = "prune_hours" /\ IsFirstExpired(d, h)
    /\ IF hours[d][h] = Torn THEN RemoveHour(d, h) ELSE TearHour(d, h)
    /\ UNCHANGED <<clock, public_state, pc, runState, aux>>

EndPrune ==
    /\ pc = "prune_hours" /\ ExpiredHours(cutoff) = {}
    /\ pc' = "finish"
    /\ UNCHANGED <<disk, clock, public_state, runState, aux>>

-----------------------------------------------------------------------------
\* the run's outcome: an exception outranks a recorded failure ("ok" stands
\* for ok and noop, which differ in whether anything was healed)
Outcome_HidesFailures == IF aborted THEN "failed" ELSE "ok"     \* bug
Outcome == IF aborted THEN "failed" ELSE IF failed THEN "partial" ELSE "ok"

\* evidence.finish, then the lock is released.  The status report scans the
\* undecided days of the healing window: what that raises leaves no record.
Finish ==
    /\ pc = "finish" /\ pc' = "idle"
    /\ history' = IF \E d \in HealingDays(now[1]) : Undecided(d) /\ ScanRaises(d)
                    THEN history ELSE Outcome
    /\ NoRun
    /\ UNCHANGED <<disk, clock, local, public, crashes, retired>>

\* the exception may leave any step before finish
Abort ==
    /\ pc \notin {"idle", "finish"}
    /\ Unwind
    /\ UNCHANGED <<disk, clock, public_state, aux>>

\* the process is lost; a later run takes its stale lock over
Crash ==
    /\ pc # "idle" /\ pc' = "idle"
    /\ crashes < MaxCrashes /\ crashes' = crashes + 1
    /\ NoRun
    /\ UNCHANGED <<disk, clock, public_state, retired>>

HealStep(d) ==
    \/ \E h \in HourNos : IngestHour(d, h) \/ FailHour(d, h) \/ ExpireHour(d, h)
    \/ AbandonExpiredDay(d) \/ SealTriedDay(d) \/ FailSeal(d)

RunStep ==
    \/ PlanHeal
    \/ \E d \in Days : HealStep(d)
    \/ EndHeal \/ SelectWindow
    \/ BuildProduct \/ FailBuild \/ PublishProduct \/ FailPublish
    \/ \E d \in Days : PruneSeal(d)
    \/ EndPruneSeals
    \/ \E d \in Days, h \in HourNos : PruneHour(d, h)
    \/ EndPrune \/ Finish

Next == Tick \/ StartRun \/ RunStep \/ Abort \/ Crash

Spec == Init /\ [][Next]_vars

\* Fairness.  The scheduler keeps starting runs and a run keeps taking its next
\* step; each hour, seal, abandonment and plan that is offered again and again
\* eventually goes through: the server, the disk and the process do not fail
\* for ever.
Fairness ==
    /\ WF_vars(StartRun) /\ WF_vars(RunStep)
    /\ SF_vars(PlanHeal)
    /\ \A d \in Days :
         /\ \A h \in HourNos : SF_vars(IngestHour(d, h))
         /\ SF_vars(SealTriedDay(d)) /\ SF_vars(AbandonExpiredDay(d))

FairSpec == Spec /\ Fairness

-----------------------------------------------------------------------------
\* Every variable has its type.
TypeOK ==
    /\ StoreTypeOK
    /\ today \in Days /\ half \in Halves
    /\ local \in [Products -> SUBSET Days] /\ public \in [Products -> SUBSET Days]
    /\ history \in {"none", "ok", "partial", "failed"}
    /\ pc \in PCs
    /\ now \in Days \X Halves
    /\ anchor \in Days \cup {NoAnchor} /\ publish \in BOOLEAN
    /\ todo \subseteq Days /\ plan \subseteq Days \X HourNos
    /\ expired \in BOOLEAN /\ failed \in BOOLEAN /\ aborted \in BOOLEAN
    /\ window \subseteq Days /\ product \in Products /\ published \subseteq Products
    /\ cutoff \in Days
    /\ ticks \in 0 .. MaxRunTicks /\ crashes \in 0 .. MaxCrashes
    /\ retired \subseteq Days

\* A seal never names an hour that is missing, half-deleted or different, nor
\* one committed before its uploads had all arrived: whatever a run was doing
\* when it was lost, a prune included (prune unlinks a seal before its hours).
SealsBackedByFacts ==
    \A d \in SealedDays : seals[d] = hours[d] /\ seals[d] \in [HourNos -> Finals]

\* The fact partitions are never committed from a listing that could still
\* grow: the run plans with the instant it captured and ingests later.
NoEarlyCommit == \A d \in Days, h \in HourNos : hours[d][h] # Growing

\* A committed hour keeps its bytes until retention removes it, and retention
\* removes it only after its day's seal and only below the run's cutoff.
CommittedFactsImmutable ==
    [][\A d \in Days, h \in HourNos :
         hours[d][h] \in Contents =>
           \/ hours'[d][h] = hours[d][h]
           \/ hours'[d][h] = Torn /\ d < cutoff /\ ~HasSeal(d)]_vars

\* An interrupted prune leaves no half-deleted hour in the healing window of
\* any later run, which would raise out of that run's plan: true as long as
\* the healing window is at most one day longer than fact retention.
HealingWindowReadable == \A d \in HealingDays(today) : ~ScanRaises(d)

\* A day's fate is final: a sealed day is not abandoned, an abandoned day never
\* completes, and a day whose seal retention removed is never healed again.
FatesExclusive ==
    /\ \A d \in abandoned : ~HasSeal(d) /\ MissingHours(d) # {}
    /\ \A d \in retired : d \notin HealingDays(today)
    /\ retired \cap (SealedDays \cup abandoned) = {}

\* Each public snapshot can be rebuilt from the facts on disk, though the two
\* products may be behind by different runs' failures: retention waits for both.
PublicBackedByFacts == \A p \in Products : public[p] \subseteq SealedDays

\* A run recorded as "ok" left nothing undone: every day of its healing window
\* that had settled when it started has its fate, and both products show the
\* window it selected.
OkRunIsComplete ==
    pc = "finish" /\ Outcome = "ok" =>
      /\ \A d \in HealingDays(now[1]) :
           (\A h \in HourNos : IsHourSettled(d, h, now[1], now[2])) => ~Undecided(d)
      /\ publish /\ window # {} =>
           \A p \in Products : public[p] = window /\ local[p] = window

\* A prune that runs to its end leaves the newest RetainDays seals, no hour
\* older than they are, and no remains of an earlier, interrupted prune.
PruneCatchesUp ==
    pc = "finish" /\ published = Products /\ ~aborted =>
      /\ Cardinality(SealedDays) <= RetainDays
      /\ \A d \in Days : ~ScanRaises(d)

\* A settled day of the healing window is sealed or abandoned, or else leaves
\* the window first.
SettledDayDecided ==
    \A d \in Days :
      (/\ d \in HealingDays(today) /\ Undecided(d)
       /\ \A h \in HourNos : IsHourSettled(d, h, today, half))
        ~> (~Undecided(d) \/ d \notin HealingDays(today))

\* The pipeline implements the ledger of Source Days.
Fate(d) == IF d \in abandoned THEN "abandoned"
           ELSE IF HasSeal(d) THEN "sealed"
           ELSE IF d \in retired THEN "retired" ELSE "open"
Ledger == INSTANCE SourceDayLedger
            WITH fate <- [d \in Days |-> Fate(d)], shown <- public
ImplementsLedger == Ledger!LedgerSpec

=============================================================================
