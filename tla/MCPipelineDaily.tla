-------------------------- MODULE MCPipelineDaily ---------------------------
(***************************************************************************)
(* The pipeline under a daily schedule: midnight does not pass before a    *)
(* run of that day has completed its healing phase, no run is caught by    *)
(* midnight, and none is aborted.  With it a day can be lost only by the   *)
(* pipeline's own rules, never because nobody ran it.                      *)
(***************************************************************************)
EXTENDS Pipeline

VARIABLE healed     \* the last day on which a healing phase completed

DailyInit == Init /\ healed = Epoch - 1

DailyNext ==
    /\ Next
    /\ healed' = IF pc = "heal" /\ pc' = "select" THEN now[1] ELSE healed
    /\ today' # today => healed = today /\ pc = "idle"
    /\ ~aborted'

dailyVars == <<vars, healed>>

\* the clock and the runs go on
DailySpec ==
    /\ DailyInit /\ [][DailyNext]_dailyVars
    /\ WF_dailyVars(StartRun /\ DailyNext) /\ WF_dailyVars(RunStep /\ DailyNext)
    /\ WF_dailyVars(Tick /\ DailyNext)

\* docs/architecture.md: "A retention-expired day that cannot be completed is
\* recorded as abandoned."
ExpiredDayAbandoned ==
    \A d \in Days :
      (/\ Undecided(d) /\ MissingHours(d) # {}
       /\ \A h \in HourNos : IsPastRetention(d, h, today, half))
        ~> ~Undecided(d)

=============================================================================
