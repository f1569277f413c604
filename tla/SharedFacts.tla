----------------------------- MODULE SharedFacts -----------------------------
(***************************************************************************)
(* The facts of one Source Day under runs that overlap: a run that was     *)
(* taken over goes on until its next ownership check, and what it has      *)
(* passed a check for, it still does.  commit_hour and seal_day are taken  *)
(* apart where they read and write (fact_store.py): the stages of other    *)
(* runs it removes, its own stage, the promotion by one rename, the link   *)
(* of the seal.                                                            *)
(*                                                                         *)
(* A run may list other content for an hour than another did.  An          *)
(* shutil.rmtree holds on to the directory it has opened, whatever name    *)
(* that gets meanwhile.  All hours of the day are settled; the server's    *)
(* retention, abandonment and pruning are Pipeline's.                      *)
(***************************************************************************)
EXTENDS FactStore

CONSTANTS
    MaxRuns,        \* bound: runs
    MaxCrashes,     \* bound: processes lost
    MaxOvertime     \* bound: runs that outlive max_run_seconds

ASSUME SharedAssumption ==
    MaxRuns \in Nat \ {0} /\ MaxCrashes \in Nat /\ MaxOvertime \in Nat

Runs == 1 .. MaxRuns
NoRun == 0
D == Epoch              \* the Source Day

VARIABLES
    owner,          \* the run named in the lock, or NoRun
    overtime,       \* the runs past max_run_seconds
    pc,             \* where each run is
    left,           \* the planned hours each run has not finished with
    stale,          \* the runs whose stages each run's glob has found
    target,         \* the run whose stage each run's rmtree has opened, or NoRun
    stage,          \* each run's staged directory: "none", "whole" or "torn"
    listed,         \* what each run has listed: hour contents, Absent before
    counted,        \* the hours each run counts as ingested
    body,           \* the seal each run is about to write: hour contents or NoSeal
    madeBy,         \* the run that staged the directory of each hour, or NoRun
    late            \* auxiliary: runs taken over between a check and its write

lockState == <<owner, overtime>>
cleaning == <<stale, target>>
memory == <<left, listed, counted, body>>
directories == <<disk, stage, madeBy>>
vars == <<lockState, pc, memory, cleaning, directories, late>>

Active == {"plan", "hour", "clean", "tear", "sweep", "write", "check", "promote",
           "rename", "read", "seal", "check_seal", "link"}
Checked == {"clean", "tear", "sweep", "promote", "rename"}

Init ==
    /\ StoreInit
    /\ owner = NoRun /\ overtime = {} /\ late = {}
    /\ pc = [r \in Runs |-> "idle"]
    /\ left = [r \in Runs |-> {}]
    /\ stale = [r \in Runs |-> {}] /\ target = [r \in Runs |-> NoRun]
    /\ stage = [r \in Runs |-> "none"]
    /\ listed = [r \in Runs |-> [h \in HourNos |-> Absent]]
    /\ counted = [r \in Runs |-> {}]
    /\ body = [r \in Runs |-> NoSeal]
    /\ madeBy = [h \in HourNos |-> NoRun]

At(r, here) == pc[r] = here
Goto(r, there) == pc' = [pc EXCEPT ![r] = there]
Lost == { r \in Runs : pc[r] = "lost" }
Current(r) == Min(left[r])

\* a run ends: its locals go, its lock is released if it still has it
EndRun(r) ==
    /\ Goto(r, "over")
    /\ owner' = IF owner = r THEN NoRun ELSE owner
    /\ left' = [left EXCEPT ![r] = {}]
    /\ body' = [body EXCEPT ![r] = NoSeal]
    /\ stale' = [stale EXCEPT ![r] = {}] /\ target' = [target EXCEPT ![r] = NoRun]
    /\ UNCHANGED <<overtime, listed, counted, late>>

\* an exception leaves the run; commit_hour removes its stage on the way
Raise(r) ==
    /\ EndRun(r)
    /\ stage' = [stage EXCEPT ![r] = "none"]
    /\ UNCHANGED <<disk, madeBy>>

-----------------------------------------------------------------------------
Acquire(r) ==
    /\ At(r, "idle") /\ \A q \in Runs : q < r => ~At(q, "idle")
    /\ owner = NoRun \/ owner \in Lost \cup overtime
    /\ owner' = r /\ Goto(r, "plan")
    /\ late' = late \cup { q \in Runs : pc[q] \in Checked }
    /\ UNCHANGED <<overtime, memory, cleaning, directories>>

RunOverTime(r) ==
    /\ pc[r] \in Active /\ r \notin overtime
    /\ Cardinality(overtime) < MaxOvertime
    /\ overtime' = overtime \cup {r}
    /\ UNCHANGED <<owner, pc, memory, cleaning, directories, late>>

\* the stage of a lost run stays on disk
Crash(r) ==
    /\ pc[r] \in Active /\ Cardinality(Lost) < MaxCrashes
    /\ Goto(r, "lost")
    /\ UNCHANGED <<lockState, memory, cleaning, directories, late>>

Abort(r) == pc[r] \in Active /\ Raise(r)

\* bug: ownership is not looked at any more
Owned_Unchecked(r) == TRUE
Owned(r) == owner = r /\ r \notin overtime

CheckRaises(r) ==
    /\ (At(r, "hour") /\ left[r] # {}) \/ At(r, "check") \/ At(r, "check_seal")
    /\ ~Owned(r) /\ Raise(r)

-----------------------------------------------------------------------------
\* the plan: which hours of the day are missing
Plan(r) ==
    /\ At(r, "plan") /\ Undecided(D) /\ ~ScanRaises(D)
    /\ left' = [left EXCEPT ![r] = MissingHours(D)]
    /\ Goto(r, "hour")
    /\ UNCHANGED <<lockState, listed, counted, body, cleaning, directories, late>>

\* the day is sealed, or missing_hours raises
EndPlan(r) == At(r, "plan") /\ (~Undecided(D) \/ ScanRaises(D)) /\ Raise(r)

\* commit_hour: check, then look for stages of the same hour
StartCommit(r) ==
    /\ At(r, "hour") /\ left[r] # {} /\ Owned(r)
    /\ stale' = [stale EXCEPT ![r] =
                   { q \in Runs : stage[q] # "none" /\ Current(q) = Current(r) }]
    /\ Goto(r, "clean")
    /\ UNCHANGED <<lockState, memory, target, directories, late>>

\* shutil.rmtree opens a stage that is still there ...
OpenStale(r) ==
    /\ At(r, "clean")
    /\ \E q \in stale[r] :
         /\ stale' = [stale EXCEPT ![r] = @ \ {q}]
         /\ IF stage[q] # "none" /\ Current(q) = Current(r)
              THEN Goto(r, "tear") /\ target' = [target EXCEPT ![r] = q]
              ELSE UNCHANGED <<pc, target>>
    /\ UNCHANGED <<lockState, memory, directories, late>>

\* ... deletes in the directory it has opened, whatever it is called by now ...
TearStale(r) ==
    /\ At(r, "tear") /\ Goto(r, "sweep")
    /\ LET q == target[r] IN
         IF madeBy[Current(r)] = q
           THEN TearHour(D, Current(r)) /\ UNCHANGED stage
           ELSE /\ stage' = IF stage[q] # "none" /\ Current(q) = Current(r)
                              THEN [stage EXCEPT ![q] = "torn"] ELSE stage
                /\ UNCHANGED disk
    /\ UNCHANGED <<lockState, memory, cleaning, madeBy, late>>

\* ... and removes it by the name it had
SweepStale(r) ==
    /\ At(r, "sweep") /\ Goto(r, "clean")
    /\ target' = [target EXCEPT ![r] = NoRun]
    /\ LET q == target[r] IN
         stage' = IF stage[q] = "torn" /\ Current(q) = Current(r)
                    THEN [stage EXCEPT ![q] = "none"] ELSE stage
    /\ UNCHANGED <<lockState, memory, stale, disk, madeBy, late>>

\* the stage is made and written from what the run lists
Stage(r) ==
    /\ At(r, "clean") /\ stale[r] = {} /\ Goto(r, "write")
    /\ stage' = [stage EXCEPT ![r] = "whole"]
    /\ \E content \in Finals : listed' = [listed EXCEPT ![r][Current(r)] = content]
    /\ UNCHANGED <<lockState, left, counted, body, cleaning, disk, madeBy, late>>

\* the source fails: the hour stays missing and the run goes on
FailHour(r) ==
    /\ At(r, "write") /\ Goto(r, "hour")
    /\ stage' = [stage EXCEPT ![r] = "none"]
    /\ left' = [left EXCEPT ![r] = @ \ {Current(r)}]
    /\ UNCHANGED <<lockState, listed, counted, body, cleaning, disk, madeBy, late>>

\* the staged files still have their checksums, and the commit is added
Verify(r) ==
    /\ At(r, "write")
    /\ IF stage[r] = "whole"
         THEN Goto(r, "check")
              /\ UNCHANGED <<lockState, memory, cleaning, directories, late>>
         ELSE Raise(r)

CheckCommit(r) ==
    /\ At(r, "check") /\ Owned(r) /\ Goto(r, "promote")
    /\ UNCHANGED <<lockState, memory, cleaning, directories, late>>

\* a partition of the same bytes is reused, another one is a conflict
Compare(r) ==
    /\ At(r, "promote")
    /\ LET h == Current(r) IN
         IF hours[D][h] = Absent
           THEN Goto(r, "rename")
                /\ UNCHANGED <<lockState, memory, cleaning, directories, late>>
           ELSE IF CommitRaises(D, h, listed[r][h])
             THEN Raise(r)
             ELSE Goto(r, "read")
                  /\ UNCHANGED <<lockState, memory, cleaning, directories, late>>

\* os.rename fails without its stage, and onto a directory with files
Renames(r) == stage[r] # "none" /\ hours[D][Current(r)] = Absent

Rename(r) ==
    /\ At(r, "rename") /\ Renames(r)
    /\ LET h == Current(r) IN
         /\ IF stage[r] = "whole" THEN CommitHour(D, h, listed[r][h]) ELSE TearHour(D, h)
         /\ madeBy' = [madeBy EXCEPT ![h] = r]
    /\ stage' = [stage EXCEPT ![r] = "none"] /\ Goto(r, "read")
    /\ UNCHANGED <<lockState, memory, cleaning, late>>

RenameRaises(r) == At(r, "rename") /\ ~Renames(r) /\ Raise(r)

\* the partition is read back, and counts
ReadBack(r) ==
    /\ At(r, "read")
    /\ LET h == Current(r) IN
         IF Readable(D, h)
           THEN /\ Goto(r, "hour")
                /\ counted' = [counted EXCEPT ![r] = @ \cup {h}]
                /\ left' = [left EXCEPT ![r] = @ \ {h}]
                /\ stage' = [stage EXCEPT ![r] = "none"]
                /\ UNCHANGED <<lockState, listed, body, cleaning, disk, madeBy, late>>
           ELSE Raise(r)

-----------------------------------------------------------------------------
\* a day without missing hours is to be sealed
EndHours(r) ==
    /\ At(r, "hour") /\ left[r] = {}
    /\ IF ScanRaises(D) \/ MissingHours(D) # {}
         THEN Raise(r)
         ELSE Goto(r, "seal")
              /\ UNCHANGED <<lockState, memory, cleaning, directories, late>>

ReadSeal(r) ==
    /\ At(r, "seal")
    /\ IF SealRaises(D)
         THEN Raise(r)
         ELSE /\ body' = [body EXCEPT ![r] = hours[D]] /\ Goto(r, "check_seal")
              /\ UNCHANGED <<lockState, left, listed, counted, cleaning, directories, late>>

CheckSeal(r) ==
    /\ At(r, "check_seal") /\ Owned(r) /\ Goto(r, "link")
    /\ UNCHANGED <<lockState, memory, cleaning, directories, late>>

\* os.link leaves a seal that is there alone: it is reused, or a conflict
Link(r) ==
    /\ At(r, "link") /\ EndRun(r)
    /\ seals' = [seals EXCEPT ![D] = IF @ = NoSeal THEN body[r] ELSE @]
    /\ UNCHANGED <<hours, abandoned, stage, madeBy>>

CleanStep(r) == OpenStale(r) \/ TearStale(r) \/ SweepStale(r)
CommitStep(r) ==
    \/ StartCommit(r) \/ CleanStep(r) \/ Stage(r) \/ FailHour(r) \/ Verify(r)
    \/ CheckCommit(r) \/ Compare(r) \/ Rename(r) \/ RenameRaises(r) \/ ReadBack(r)
SealStep(r) == EndHours(r) \/ ReadSeal(r) \/ CheckSeal(r) \/ Link(r)

Next == \E r \in Runs :
    \/ Acquire(r) \/ RunOverTime(r) \/ Crash(r) \/ Abort(r) \/ CheckRaises(r)
    \/ Plan(r) \/ EndPlan(r) \/ CommitStep(r) \/ SealStep(r)

Spec == Init /\ [][Next]_vars

-----------------------------------------------------------------------------
\* A partition once committed keeps its content, whatever runs overlap at
\* whatever step: a run that promotes late is seen by the comparison of its
\* successor, which has removed its stage before (commit_hour).  A partition
\* loses files only when a run was taken over after its ownership check and
\* still promoted its stage, or still removed the one that became the partition.
PartitionsFinal == [][ \A h \in HourNos :
    LET was == hours[D][h]
        now == hours'[D][h]
    IN  now # was =>
          \/ was = Absent /\ now \in Contents
          \/ /\ now = Torn
             /\ \E r \in late : r = madeBy'[h] \/ (At(r, "tear") /\ Current(r) = h) ]_vars

\* What a run counts as ingested is on disk with the content that run listed,
\* also when another run has committed the hour first: the same bytes are
\* reused, others are a conflict (commit_hour).
CountedIsListed == \A r \in Runs : \A h \in counted[r] :
    hours[D][h] \in {listed[r][h], Torn}

\* A seal names committed content of every hour, never that of a partition that
\* has lost files while it was sealed, and what it names stays on disk or is
\* found torn: whichever run seals while another one promotes (seal_day).
SealNamesPartitions == HasSeal(D) =>
    \A h \in HourNos : seals[D][h] \in Contents /\ hours[D][h] \in {seals[D][h], Torn}

=============================================================================
