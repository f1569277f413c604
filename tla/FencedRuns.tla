----------------------------- MODULE FencedRuns ------------------------------
(***************************************************************************)
(* Runs that overlap.  The lock hands the data root from run to run, also  *)
(* away from a run that was lost or that works past max_run_seconds and    *)
(* touches its heartbeat no more; what such a run still does is fenced by  *)
(* ownership checks before every durable write, except in                  *)
(* LatestPublisher.replace, which stats, puts and confirms the public      *)
(* object without one.  Modelled step by step: the live status and the     *)
(* record a run leaves (operational_evidence.py), the local snapshot, and  *)
(* the replacement of one public object.                                   *)
(*                                                                         *)
(* A check and the short write after it are one step: DirectoryLock shows  *)
(* what fences them.  Runs are numbered in the order they get the lock;    *)
(* a snapshot is the number of its content, later content higher.          *)
(***************************************************************************)
EXTENDS ObjectStore, Sequences, FiniteSets, Functions

CONSTANTS
    MaxRuns,        \* bound: runs
    MaxCrashes,     \* bound: processes lost
    MaxOvertime,    \* bound: runs that outlive max_run_seconds
    Adapters        \* the object stores considered, of {"local", "r2"}

ASSUME RunsAssumption ==
    /\ MaxRuns \in Nat \ {0} /\ MaxCrashes \in Nat /\ MaxOvertime \in Nat
    /\ Adapters \subseteq {"local", "r2"} /\ Adapters # {}
    /\ NoContent = 0

Runs == 1 .. MaxRuns
NoRun == 0
Torn == 0               \* what is left of a record that was cut short
Glued == -1             \* a record that follows such a rest on its line
Unreadable == {Torn, Glued}

VARIABLES
    adapter,        \* the object store in use
    owner,          \* the run named in the lock
    overtime,       \* the runs past max_run_seconds
    pc,             \* where each run is
    timedOut,       \* the runs whose pending error is MaximumRunTimeExceeded
    previous,       \* the last_run each run's checkpoint has read
    built,          \* the content each run has built
    published,      \* the runs whose report says published
    status,         \* status.json
    history,        \* runs.jsonl, append by append
    local,          \* snapshots/<product>/latest.json
    object,         \* the public object
    disturbed       \* auxiliary: runs whose put was cut short, or went on
                    \* after another run had taken the lock over

lockState == <<owner, overtime>>
memory == <<timedOut, previous, built, published>>
root == <<status, history, local>>
store == <<adapter, object, disturbed>>
vars == <<lockState, pc, memory, root, store>>

Working == {"heal", "refresh", "build", "save", "announce", "refresh_again",
            "stat", "put", "put_meta", "confirm", "report"}
Active == Working \cup {"finish", "append", "release"}

Init ==
    /\ adapter \in Adapters
    /\ owner = NoRun /\ overtime = {}
    /\ pc = [r \in Runs |-> "idle"]
    /\ timedOut = {} /\ previous = [r \in Runs |-> NoRun]
    /\ built = [r \in Runs |-> NoContent] /\ published = {}
    /\ status = [last |-> NoRun, current |-> NoRun]
    /\ history = <<>> /\ local = NoContent
    /\ object = NoObject /\ disturbed = {}

At(r, here) == pc[r] = here
Goto(r, there) == pc' = [pc EXCEPT ![r] = there]
Recorded == Range(history) \ Unreadable
Lost == { r \in Runs : pc[r] = "lost" }

\* what a run leaves when its process ends, in order or not
EndProcess(r, how) ==
    /\ Goto(r, how)
    /\ timedOut' = timedOut \ {r} /\ previous' = [previous EXCEPT ![r] = NoRun]
    /\ published' = IF r \in Recorded THEN published ELSE published \ {r}
    /\ UNCHANGED built

-----------------------------------------------------------------------------
\* the lock: a free one, or one whose owner is dead or touches it no more
Acquire(r) ==
    /\ At(r, "idle") /\ \A q \in Runs : q < r => pc[q] # "idle"
    /\ owner = NoRun \/ owner \in Lost \cup overtime
    /\ owner' = r /\ Goto(r, "heal")
    /\ UNCHANGED <<overtime, memory, root, store>>

RunOverTime(r) ==
    /\ pc[r] \in Active /\ r \notin overtime
    /\ Cardinality(overtime) < MaxOvertime
    /\ overtime' = overtime \cup {r}
    /\ UNCHANGED <<owner, pc, memory, root, store>>

\* a put that ends between its two files is noted
CutShort(r) == disturbed' = IF At(r, "put_meta") THEN disturbed \cup {r} ELSE disturbed

Crash(r) ==
    /\ pc[r] \in Active /\ Cardinality(Lost) < MaxCrashes
    /\ EndProcess(r, "lost")
    /\ CutShort(r)
    /\ UNCHANGED <<lockState, root, adapter, object>>

\* bug: ownership is not looked at any more
Owned_Unchecked(r) == TRUE
\* assert_owned, and the check of finish, which a run out of time still passes
\* if that is what ended its work
Owned(r) == owner = r /\ r \notin overtime
MayRecord_Unchecked(r) == TRUE           \* bug
MayRecord(r) == owner = r /\ (r \in overtime => r \in timedOut)

\* a check raises: a run out of time goes on to finish, an overtaken one leaves
CheckRaises(r) ==
    /\ \E here \in {"refresh", "save", "refresh_again", "report"} : At(r, here)
    /\ ~Owned(r)
    /\ IF r \in overtime
         THEN Goto(r, "finish") /\ timedOut' = timedOut \cup {r}
         ELSE Goto(r, "release") /\ UNCHANGED timedOut
    /\ UNCHANGED <<lockState, previous, built, published, root, store>>

RecordRefused(r) ==
    /\ At(r, "finish") \/ At(r, "append")
    /\ ~MayRecord(r)
    /\ Goto(r, "release")
    /\ UNCHANGED <<lockState, memory, root, store>>

\* an exception that leaves the work ends in finish
Abort(r) ==
    /\ pc[r] \in Working /\ Goto(r, "finish")
    /\ CutShort(r)
    /\ UNCHANGED <<lockState, memory, root, adapter, object>>

-----------------------------------------------------------------------------
\* OperationalEvidence.checkpoint: take last_run over from the status on disk,
\* then replace it; the phases are "heal" and, before replace, "announce"
Checkpoint == [heal |-> "refresh", announce |-> "refresh_again"]
After == [heal |-> "build", announce |-> "stat"]

ReadStatus(r, phase) ==
    /\ At(r, phase) /\ Goto(r, Checkpoint[phase])
    /\ previous' = [previous EXCEPT ![r] = status.last]
    /\ UNCHANGED <<lockState, timedOut, built, published, root, store>>

RefreshStatus(r, phase) ==
    /\ At(r, Checkpoint[phase]) /\ Owned(r) /\ Goto(r, After[phase])
    /\ status' = [last |-> previous[r], current |-> r]
    /\ previous' = [previous EXCEPT ![r] = NoRun]
    /\ UNCHANGED <<lockState, timedOut, built, published, history, local, store>>

\* anything but a lost lock is swallowed, at times before the check is made
SwallowCheckpoint(r, phase) ==
    /\ At(r, phase) /\ Goto(r, After[phase])
    /\ UNCHANGED <<lockState, memory, root, store>>

Newest == CHOOSE c \in {NoContent} \cup Range(built) : \A d \in Range(built) : d <= c

\* a snapshot of the facts and the time of this moment, to the second
Build(r) ==
    /\ At(r, "build") /\ Goto(r, "save")
    /\ \E content \in {Newest, Newest + 1} \ {NoContent} :
         built' = [built EXCEPT ![r] = content]
    /\ UNCHANGED <<lockState, timedOut, previous, published, root, store>>

\* _write_local_snapshot
SaveLocal(r) ==
    /\ At(r, "save") /\ Owned(r) /\ Goto(r, "announce")
    /\ local' = built[r]
    /\ UNCHANGED <<lockState, memory, status, history, store>>

-----------------------------------------------------------------------------
\* LatestPublisher.replace
Publish(r) == published' = published \cup {r} /\ Goto(r, "report")
ReplaceState == <<lockState, timedOut, previous, built, root>>

\* bug: any object of that name will do
IsPublished_Any(r) == object.body # NoContent
IsPublished(r) == object.body = built[r]

Stat(r) ==
    /\ At(r, "stat")
    /\ IF StatRaises(object) THEN Goto(r, "report") /\ UNCHANGED published
       ELSE IF IsPublished(r) THEN Publish(r)
       ELSE Goto(r, "put") /\ UNCHANGED published
    /\ UNCHANGED <<ReplaceState, store>>

\* a put by a run that is no longer the owner is noted
Disturbs(r) == disturbed' = IF owner # r THEN disturbed \cup {r} ELSE disturbed

Put(r) ==
    /\ At(r, "put")
    /\ IF adapter = "local"
         THEN object' = PutBody(object, built[r]) /\ Goto(r, "put_meta")
         ELSE object' = PutWhole(object, built[r]) /\ Goto(r, "confirm")
    /\ Disturbs(r)
    /\ UNCHANGED <<ReplaceState, published, adapter>>

PutMetadata(r) ==
    /\ At(r, "put_meta") /\ Goto(r, "confirm")
    /\ object' = PutMeta(object, built[r])
    /\ Disturbs(r)
    /\ UNCHANGED <<ReplaceState, published, adapter>>

Confirm(r) ==
    /\ At(r, "confirm")
    /\ IF ~StatRaises(object) /\ object.body = built[r]
         THEN Publish(r)
         ELSE Goto(r, "report") /\ UNCHANGED published
    /\ UNCHANGED <<ReplaceState, store>>

\* the build, the save or a request fails, an R2 put perhaps after it was
\* carried out: the product has failed, which the run reports
FailProduct(r) ==
    /\ pc[r] \in Working \ {"heal", "refresh", "report"}
    /\ Goto(r, "report")
    /\ \/ UNCHANGED object /\ CutShort(r)
       \/ /\ At(r, "put") /\ adapter = "r2"
          /\ object' = PutWhole(object, built[r]) /\ Disturbs(r)
    /\ UNCHANGED <<ReplaceState, published, adapter>>

\* report: the log line after a product, written after a check
Report(r) ==
    /\ At(r, "report") /\ Owned(r) /\ Goto(r, "finish")
    /\ UNCHANGED <<lockState, memory, root, store>>

-----------------------------------------------------------------------------
\* OperationalEvidence.finish: the status, then the line of the history
FinalStatus_StillRunning(r) == [last |-> r, current |-> r]     \* bug
FinalStatus(r) == [last |-> r, current |-> NoRun]

WriteFinalStatus(r) ==
    /\ At(r, "finish") /\ MayRecord(r) /\ Goto(r, "append")
    /\ status' = FinalStatus(r)
    /\ UNCHANGED <<lockState, memory, history, local, store>>

\* What is appended to a rest without a newline is on its line and as
\* unreadable, but brings the newline: the next record can be read again.
AfterTorn == history # <<>> /\ history[Len(history)] = Torn
Appended(record) == Append(history, IF AfterTorn /\ record # Torn THEN Glued ELSE record)

\* the append may end before the newline (a full disk), and raise
AppendRun(r) ==
    /\ At(r, "append") /\ MayRecord(r) /\ Goto(r, "release")
    /\ \E record \in {r, Torn} : history' = Appended(record)
    /\ UNCHANGED <<lockState, memory, status, local, store>>

\* the status report, or the append before its first byte, raises
FailFinish(r) ==
    /\ At(r, "finish") \/ At(r, "append")
    /\ Goto(r, "release")
    /\ UNCHANGED <<lockState, memory, root, store>>

Release_Nobody(r) == owner                          \* bug: nothing is removed
ReleasedOwner(r) == IF owner = r THEN NoRun ELSE owner

Release(r) ==
    /\ At(r, "release") /\ EndProcess(r, "ended")
    /\ owner' = ReleasedOwner(r)
    /\ UNCHANGED <<overtime, root, store>>

Next ==
    \E r \in Runs :
      \/ Acquire(r) \/ RunOverTime(r) \/ Crash(r)
      \/ CheckRaises(r) \/ RecordRefused(r) \/ Abort(r)
      \/ \E phase \in DOMAIN Checkpoint :
           ReadStatus(r, phase) \/ RefreshStatus(r, phase) \/ SwallowCheckpoint(r, phase)
      \/ Build(r) \/ SaveLocal(r)
      \/ Stat(r) \/ Put(r) \/ PutMetadata(r) \/ Confirm(r) \/ FailProduct(r) \/ Report(r)
      \/ WriteFinalStatus(r) \/ AppendRun(r) \/ FailFinish(r) \/ Release(r)

Spec == Init /\ [][Next]_vars

-----------------------------------------------------------------------------
\* Every variable has its type, and the lock names a run that has not ended.
TypeOK ==
    /\ adapter \in Adapters
    /\ owner \in Runs \cup {NoRun}
    /\ owner # NoRun => pc[owner] \in Active \cup {"lost"}
    /\ overtime \subseteq Runs
    /\ pc \in [Runs -> Active \cup {"idle", "lost", "ended"}]
    /\ timedOut \subseteq overtime /\ previous \in [Runs -> Runs \cup {NoRun}]
    /\ built \in [Runs -> Nat] /\ published \subseteq Runs
    /\ status \in [last : Runs \cup {NoRun}, current : Runs \cup {NoRun}]
    /\ history \in Seq(Runs \cup Unreadable) /\ local \in Nat
    /\ object \in [body : Nat, meta : Nat] /\ disturbed \subseteq Runs

\* The history lists runs in the order they had the lock, none twice, and the
\* status has seen each of them: no checkpoint of a later run, and nothing an
\* overtaken run still writes, takes last_run back behind the history.
HistoryFollowsStatus ==
    /\ \A i, j \in DOMAIN history :
         i < j /\ {history[i], history[j]} \subseteq Runs => history[i] < history[j]
    /\ \A r \in Recorded : r <= status.last

\* A run that has left its record is not shown as the one at work.
RecordedNotCurrent == status.current # NoRun => status.current \notin Recorded

\* The data root never falls behind what is public: a snapshot is public only
\* after it was saved, and an overtaken run does not save an older one over it.
LocalNotBehindPublic == object.body <= local

\* A run on record as having published has its content public, or newer one;
\* an older one only by a put that went on after its run had lost the lock.
PublishedStaysPublic ==
    \A r \in Recorded \cap published :
      \/ object.body >= built[r]
      \/ \E q \in disturbed : built[q] = object.body

\* The public object becomes unreadable only while a local put is between its
\* two files, or by a put that was cut short there or went on after its run
\* had lost the lock.
BrokenOnlyByDisturbance ==
    StatRaises(object) =>
      adapter = "local" /\ (disturbed # {} \/ \E r \in Runs : pc[r] = "put_meta")

=============================================================================
