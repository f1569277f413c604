--------------------------- MODULE SourceCalendar ---------------------------
(***************************************************************************)
(* The calendar arithmetic of the analyzer: which Source Days a run heals, *)
(* when a Source Hour is settled, when the server no longer retains it,    *)
(* which days an Analysis Window covers, and where fact retention cuts.    *)
(*                                                                         *)
(* An instant is a pair (day, half): the UTC day and the half-hour within  *)
(* it.  Hour h of a day is [2h, 2h+2) in half-hours.  The settle lag (60 s *)
(* in the code) is SettleLag half-hours, so that the model can stand both  *)
(* between the end of an hour and its settling, and after it.              *)
(***************************************************************************)
EXTENDS Integers, FiniteSets, FiniteSetsExt

CONSTANTS
    Epoch,          \* source_epoch: the first Source Day considered
    LastDay,        \* bound: the clock stops at the end of this day
    HoursPerDay,    \* 24 in the code
    HealDays,       \* --heal-days
    ServerDays,     \* bundle_retention_days
    RetainDays,     \* fact_retention_days
    AnalysisDays,   \* ANALYSIS_DAYS
    NoAnchor        \* --anchor-day not given

ASSUME CalendarAssumption ==
    /\ Epoch \in Nat /\ LastDay \in Nat /\ Epoch <= LastDay
    /\ HoursPerDay \in Nat \ {0}
    /\ HealDays \in Nat \ {0}
    /\ ServerDays \in Nat \ {0}
    /\ AnalysisDays \in Nat \ {0}
    /\ NoAnchor \notin Epoch .. LastDay

\* config.py refuses fewer fact-retention days than a window plus one.
ASSUME RetentionAssumption ==
    /\ RetainDays \in Nat
    /\ RetainDays > AnalysisDays

Days    == Epoch .. LastDay
HourNos == 0 .. (HoursPerDay - 1)
Halves  == 0 .. (2 * HoursPerDay - 1)

\* DEFAULT_SETTLE_LAG, in half-hours
SettleLag == 1

-----------------------------------------------------------------------------
\* healing_days: the HealDays days that end today, none before the epoch
HealingDays(day) == { d \in Days : day - HealDays < d /\ d <= day }

\* bug: the lag after the end of the hour is forgotten
IsHourSettled_NoLag(d, h, day, half) ==
    \/ d = day     /\ 2 * h + 2 <= half
    \/ d = day - 1 /\ 2 * h + 2 <= half + 2 * HoursPerDay
    \/ d < day - 1

\* bug: only today's and yesterday's hours are ever found settled
IsHourSettled_RecentOnly(d, h, day, half) ==
    \/ d = day     /\ 2 * h + 2 + SettleLag <= half
    \/ d = day - 1 /\ 2 * h + 2 + SettleLag <= half + 2 * HoursPerDay

\* is_hour_settled: now >= the hour's end plus the lag, by the distance of the
\* hour's day; every hour of a day before yesterday is settled
IsHourSettled(d, h, day, half) ==
    \/ d = day     /\ 2 * h + 2 + SettleLag <= half
    \/ d = day - 1 /\ 2 * h + 2 + SettleLag <= half + 2 * HoursPerDay
    \/ d < day - 1

\* settled_missing_hours
SettledMissingHours(d, missing, day, half) ==
    { h \in missing : IsHourSettled(d, h, day, half) }

\* _is_past_retention: the hour starts before now minus the server's retention
IsPastRetention(d, h, day, half) ==
    \/ d + ServerDays < day
    \/ d + ServerDays = day /\ 2 * h < half

\* bug: the newest sealed days are taken, consecutive or not
SelectAnalysisWindow_SpansGaps(sealed, anchor) ==
    IF sealed = {} \/ anchor \notin sealed \cup {NoAnchor}
      THEN {}
      ELSE LET upTo == IF anchor = NoAnchor THEN sealed ELSE { d \in sealed : d <= anchor }
           IN  { d \in upTo : Cardinality({ e \in upTo : d <= e }) <= AnalysisDays }

\* bug: a full-length window is taken whatever is sealed
SelectAnalysisWindow_Unchecked(sealed, anchor) ==
    IF sealed = {} \/ anchor \notin sealed \cup {NoAnchor}
      THEN {}
      ELSE LET end == IF anchor = NoAnchor THEN Max(sealed) ELSE anchor
           IN  (end - AnalysisDays + 1) .. end

\* select_analysis_window: up to AnalysisDays consecutive sealed days that end
\* at the anchor, or at the newest sealed day; empty when there is none
SelectAnalysisWindow(sealed, anchor) ==
    IF sealed = {} \/ anchor \notin sealed \cup {NoAnchor}
      THEN {}
      ELSE LET end == IF anchor = NoAnchor THEN Max(sealed) ELSE anchor
           IN  { d \in sealed : /\ d <= end /\ end - d < AnalysisDays
                                /\ d .. end \subseteq sealed }

\* bug: one day too few is kept
RetentionCutoff_OneFewer(sealed) ==
    CHOOSE d \in sealed : Cardinality({ e \in sealed : d <= e }) = RetainDays - 1

\* FactStore.prune: the day of seals[-retain_days], and the days to keep whole
RetentionCutoff(sealed) ==
    CHOOSE d \in sealed : Cardinality({ e \in sealed : d <= e }) = RetainDays

=============================================================================
