--------------------------- MODULE DirectoryLock ----------------------------
(***************************************************************************)
(* The run lock (locking.py), file operation by file operation: `.lock` is *)
(* a directory, its owner is the run named in `.lock/heartbeat`, its age   *)
(* is the time since the heartbeat was last touched.  A contender that     *)
(* finds it stale renames it away under the `.lock.takeover` guard.  Every *)
(* run has a main thread and a heartbeat thread; all paths are shared.     *)
(*                                                                         *)
(* Each step below is one system call, or a read that the code acts upon   *)
(* at once.  A thread may pause between any two steps, for at most         *)
(* MaxPause time units when Bounded holds, for ever long otherwise; the    *)
(* one place where a main thread may always stay is "work", the analysis   *)
(* between two ownership checks.                                           *)
(***************************************************************************)
EXTENDS Integers, FiniteSets

CONSTANTS
    Runs,           \* run ids; each names one run of the program
    Nobody,         \* no owner
    StaleAfter,     \* stale_after
    Interval,       \* heartbeat_interval
    MaxPause,       \* bound on the pause of a thread between two steps
    Bounded         \* whether pauses are bounded

ASSUME LockAssumption ==
    /\ Nobody \notin Runs /\ Bounded \in BOOLEAN
    /\ StaleAfter \in Nat \ {0} /\ Interval \in Nat \ {0} /\ MaxPause \in Nat \ {0}

VARIABLES
    lock,       \* .lock: exists?, who created its heartbeat file (Nobody: no
                \* file), is the run id written in it, age by _heartbeat_age
    guard,      \* .lock.takeover: exists?, age
    leftover,   \* the runs whose .lock.stale-<run_id> holds a heartbeat file
    pc,         \* main thread of each run
    lost, over, \* _lost is set; _lost because the maximum run time passed
    beat,       \* heartbeat thread: off, waiting, or about to touch the file
    beatAge,    \* time since that thread's last step
    idle        \* time since the main thread's last step

vars == <<lock, guard, leftover, pc, lost, over, beat, beatAge, idle>>

NoLock  == [there |-> FALSE, owner |-> Nobody, named |-> FALSE, age |-> 0]
NoGuard == [there |-> FALSE, age |-> 0]
Ages    == 0 .. (StaleAfter + 1)

Acquiring == {"mkdir", "age", "guard", "guard_age", "guard_rmdir", "recheck",
              "rename", "unguard", "unguard_held", "open", "undo", "write"}
Holding   == {"work", "store", "finish", "record", "finish_late", "record_late",
              "release", "unlink", "rmdir"}
Ended     == {"held", "failed", "done", "dead"}

Init ==
    /\ lock = NoLock /\ guard = NoGuard /\ leftover = {}
    /\ pc = [r \in Runs |-> "new"]
    /\ lost = [r \in Runs |-> FALSE] /\ over = [r \in Runs |-> FALSE]
    /\ beat = [r \in Runs |-> "off"] /\ beatAge = [r \in Runs |-> 0]
    /\ idle = [r \in Runs |-> 0]

-----------------------------------------------------------------------------
\* the main thread of r moves from one label to another
Goto(r, from, to) ==
    /\ pc[r] = from /\ pc' = [pc EXCEPT ![r] = to]
    /\ idle' = [idle EXCEPT ![r] = 0]

\* _read_run_id(heartbeat) is r
Owns(r) == lock.there /\ lock.owner = r /\ lock.named

\* bug: staleness is judged by the heartbeat interval
IsStale_Interval == lock.there => lock.age > Interval

\* _heartbeat_age() > stale_after; a missing lock is infinitely old
IsStale == lock.there => lock.age > StaleAfter

\* the thread and its flags are not touched by acquire before it succeeds
threads == <<lost, over, beat, beatAge>>

StartAcquire(r) ==
    /\ Goto(r, "new", "mkdir")
    /\ UNCHANGED <<lock, guard, leftover, threads>>

MakeLock(r) ==
    /\ \/ /\ ~lock.there /\ Goto(r, "mkdir", "open")
          /\ lock' = [NoLock EXCEPT !.there = TRUE]
       \/ /\ lock.there /\ Goto(r, "mkdir", "age")
          /\ UNCHANGED lock
    /\ UNCHANGED <<guard, leftover, threads>>

ReadAge(r) ==
    /\ Goto(r, "age", IF IsStale THEN "guard" ELSE "held")
    /\ UNCHANGED <<lock, guard, leftover, threads>>

MakeGuard(r) ==
    /\ \/ /\ ~guard.there /\ Goto(r, "guard", "recheck")
          /\ guard' = [there |-> TRUE, age |-> 0]
       \/ /\ guard.there /\ Goto(r, "guard", "guard_age")
          /\ UNCHANGED guard
    /\ UNCHANGED <<lock, leftover, threads>>

\* bug: a guard left behind is never recovered
ReadGuardAge_Waits(r) ==
    /\ Goto(r, "guard_age", "mkdir")
    /\ UNCHANGED <<lock, guard, leftover, threads>>

\* _recover_takeover_guard: stat, then rmdir what may be another's guard by now
ReadGuardAge(r) ==
    /\ Goto(r, "guard_age",
            IF guard.there /\ guard.age > StaleAfter THEN "guard_rmdir" ELSE "mkdir")
    /\ UNCHANGED <<lock, guard, leftover, threads>>

RemoveGuard(r) ==
    /\ guard' = NoGuard
    /\ \/ Goto(r, "guard_rmdir", "mkdir")
       \/ Goto(r, "unguard", "mkdir")
       \/ Goto(r, "unguard_held", "held")
    /\ UNCHANGED <<lock, leftover, threads>>

\* a second look under the guard: another contender may have completed
Recheck(r) ==
    /\ Goto(r, "recheck", IF IsStale THEN "rename" ELSE "unguard_held")
    /\ UNCHANGED <<lock, guard, leftover, threads>>

\* os.rename(.lock, .lock.stale-<run_id>): whatever lock is there by now.  Over
\* the leftover of this run's own earlier takeover it succeeds if that one was
\* bare, and else raises an OSError that leaves acquire; the guard is removed on
\* the way out.
RenameLock(r) ==
    /\ \/ /\ lock.there /\ r \notin leftover /\ Goto(r, "rename", "unguard")
          /\ lock' = NoLock
          /\ leftover' = leftover \cup (IF lock.owner = Nobody THEN {} ELSE {r})
          /\ UNCHANGED guard
       \/ /\ ~lock.there /\ Goto(r, "rename", "unguard")
          /\ UNCHANGED <<lock, leftover, guard>>
       \/ /\ lock.there /\ r \in leftover /\ Goto(r, "rename", "failed")
          /\ guard' = NoGuard
          /\ UNCHANGED <<lock, leftover>>
    /\ UNCHANGED threads

\* heartbeat.open("x") in the directory that has the name now
CreateHeartbeat(r) ==
    /\ \/ /\ lock.there /\ lock.owner = Nobody /\ Goto(r, "open", "write")
          /\ lock' = [lock EXCEPT !.owner = r, !.age = 0]
       \/ /\ ~(lock.there /\ lock.owner = Nobody) /\ Goto(r, "open", "undo")
          /\ UNCHANGED lock
    /\ UNCHANGED <<guard, leftover, threads>>

\* the except clause: rmdir of .lock, if it is empty, whosever it is
UndoLock(r) ==
    /\ Goto(r, "undo", "failed")
    /\ lock' = IF lock.there /\ lock.owner = Nobody THEN NoLock ELSE lock
    /\ UNCHANGED <<guard, leftover, threads>>

\* the body goes to the file that was opened, wherever it has been renamed to;
\* then the leftover is removed and the heartbeat thread starts
WriteHeartbeat(r) ==
    /\ Goto(r, "write", "work")
    /\ lock' = IF lock.owner = r THEN [lock EXCEPT !.named = TRUE, !.age = 0] ELSE lock
    /\ leftover' = leftover \ {r}
    /\ beat' = [beat EXCEPT ![r] = "wait"] /\ beatAge' = [beatAge EXCEPT ![r] = 0]
    /\ UNCHANGED <<guard, lost, over>>

\* the write or the fsync fails: the file stays, with nothing, a part or all of
\* its body, and with it the directory
FailHeartbeat(r) ==
    /\ Goto(r, "write", "undo")
    /\ \/ UNCHANGED lock
       \/ /\ lock.owner = r
          /\ \E named \in BOOLEAN : lock' = [lock EXCEPT !.named = named, !.age = 0]
    /\ UNCHANGED <<guard, leftover, threads>>

-----------------------------------------------------------------------------
\* assert_owned: lost, or out of time, or not the named owner
AssertOwned(r) == ~lost[r] /\ ~over[r] /\ Owns(r)

\* assert_current_owner: like it, but running out of time does not count
AssertCurrentOwner(r) == ~lost[r] /\ Owns(r)

\* out of `with lock`: a run that lost its lock stops and releases nothing,
\* because release() starts with an ownership check that fails
Fail(r, from) ==
    /\ Goto(r, from, "failed")
    /\ lost' = [lost EXCEPT ![r] = TRUE]
    /\ beat' = [beat EXCEPT ![r] = IF @ = "wait" THEN "off" ELSE @]
    /\ UNCHANGED <<lock, guard, leftover, over, beatAge>>

\* every durable write of a run is an ownership check, then the write
CheckBeforeStore(r) ==
    \/ /\ AssertOwned(r) /\ Goto(r, "work", "store")
       /\ UNCHANGED <<lock, guard, leftover, threads>>
    \/ /\ over[r] /\ Goto(r, "work", "finish_late")
       /\ UNCHANGED <<lock, guard, leftover, threads>>
    \/ ~over[r] /\ ~AssertOwned(r) /\ Fail(r, "work")

Store(r) ==
    /\ Goto(r, "store", "work")
    /\ UNCHANGED <<lock, guard, leftover, threads>>

EndWork(r) ==
    /\ Goto(r, "work", "finish")
    /\ UNCHANGED <<lock, guard, leftover, threads>>

\* the run's record, written in several steps, each after its check; a run
\* whose time runs out only now leaves no record and goes on to release
CheckBeforeRecord(r) ==
    \/ /\ AssertOwned(r) /\ Goto(r, "finish", "record")
       /\ UNCHANGED <<lock, guard, leftover, threads>>
    \/ /\ over[r] /\ Goto(r, "finish", "release")
       /\ UNCHANGED <<lock, guard, leftover, threads>>
    \/ ~over[r] /\ ~AssertOwned(r) /\ Fail(r, "finish")

\* a run whose time ran out at work still records its failure, if it is owner
CheckBeforeLateRecord(r) ==
    \/ /\ AssertCurrentOwner(r) /\ Goto(r, "finish_late", "record_late")
       /\ UNCHANGED <<lock, guard, leftover, threads>>
    \/ ~AssertCurrentOwner(r) /\ Fail(r, "finish_late")

Record(r) ==
    /\ \/ Goto(r, "record", "finish") \/ Goto(r, "record_late", "finish_late")
       \/ Goto(r, "record", "release") \/ Goto(r, "record_late", "release")
    /\ UNCHANGED <<lock, guard, leftover, threads>>

\* bug: release leaves the heartbeat thread running
Release_KeepsThread(r) ==
    \/ /\ AssertCurrentOwner(r) /\ Goto(r, "release", "unlink")
       /\ UNCHANGED <<lock, guard, leftover, threads>>
    \/ ~AssertCurrentOwner(r) /\ Fail(r, "release")

\* release: stop the thread (one that is about to touch is not waited for
\* beyond a second), check, unlink the heartbeat, rmdir the lock
Release(r) ==
    \/ /\ AssertCurrentOwner(r) /\ Goto(r, "release", "unlink")
       /\ beat' = [beat EXCEPT ![r] = IF @ = "wait" THEN "off" ELSE @]
       /\ UNCHANGED <<lock, guard, leftover, lost, over, beatAge>>
    \/ ~AssertCurrentOwner(r) /\ Fail(r, "release")

UnlinkHeartbeat(r) ==
    \/ /\ lock.there /\ lock.owner # Nobody /\ Goto(r, "unlink", "rmdir")
       /\ lock' = [lock EXCEPT !.owner = Nobody, !.named = FALSE, !.age = 0]
       /\ UNCHANGED <<guard, leftover, threads>>
    \/ ~(lock.there /\ lock.owner # Nobody) /\ Fail(r, "unlink")

RemoveLock(r) ==
    \/ /\ lock.there /\ lock.owner = Nobody /\ Goto(r, "rmdir", "done")
       /\ lock' = NoLock
       /\ UNCHANGED <<guard, leftover, threads>>
    \/ ~(lock.there /\ lock.owner = Nobody) /\ Fail(r, "rmdir")

-----------------------------------------------------------------------------
\* _stop is set by release
Released(r) == pc[r] \in {"unlink", "rmdir"} \cup Ended

\* the heartbeat thread: after Interval, assert_owned, then utime by path
Touch(r) ==
    /\ beat[r] = "wait" /\ beatAge[r] >= Interval
    /\ IF AssertOwned(r)
         THEN beat' = [beat EXCEPT ![r] = "utime"] /\ UNCHANGED lost
         ELSE /\ beat' = [beat EXCEPT ![r] = "off"]
              /\ lost' = [lost EXCEPT ![r] = lost[r] \/ ~over[r]]
    /\ beatAge' = [beatAge EXCEPT ![r] = 0]
    /\ UNCHANGED <<lock, guard, leftover, pc, over, idle>>

\* bug: the thread touches once and ends
Utime_Once(r) ==
    /\ beat[r] = "utime" /\ beat' = [beat EXCEPT ![r] = "off"]
    /\ lock' = IF lock.there /\ lock.owner # Nobody THEN [lock EXCEPT !.age = 0] ELSE lock
    /\ beatAge' = [beatAge EXCEPT ![r] = 0]
    /\ UNCHANGED <<guard, leftover, pc, lost, over, idle>>

Utime(r) ==
    /\ beat[r] = "utime"
    /\ LET found == lock.there /\ lock.owner # Nobody
       IN  /\ lock' = IF found THEN [lock EXCEPT !.age = 0] ELSE lock
           /\ lost' = [lost EXCEPT ![r] = @ \/ ~found]
           /\ beat' = [beat EXCEPT ![r] =
                         IF found /\ ~Released(r) THEN "wait" ELSE "off"]
    /\ beatAge' = [beatAge EXCEPT ![r] = 0]
    /\ UNCHANGED <<guard, leftover, pc, over, idle>>

\* max_run_seconds has passed since acquire
RunTooLong(r) ==
    /\ pc[r] \in {"work", "store", "finish", "record"} /\ ~lost[r] /\ ~over[r]
    /\ over' = [over EXCEPT ![r] = TRUE]
    /\ UNCHANGED <<lock, guard, leftover, pc, lost, beat, beatAge, idle>>

Crash(r) ==
    /\ pc[r] \notin Ended \cup {"new"}
    /\ pc' = [pc EXCEPT ![r] = "dead"]
    /\ beat' = [beat EXCEPT ![r] = "off"] /\ beatAge' = [beatAge EXCEPT ![r] = 0]
    /\ idle' = [idle EXCEPT ![r] = 0]
    /\ UNCHANGED <<lock, guard, leftover, lost, over>>

\* a unit of time passes, unless a thread would pause longer than it may
MainPauses(r)  == pc[r] \in (Acquiring \cup Holding) \ {"work"}
Older(age)     == IF age > StaleAfter THEN age ELSE age + 1
Tick ==
    /\ Bounded => \A r \in Runs :
         /\ MainPauses(r) => idle[r] < MaxPause
         /\ beat[r] = "wait" => beatAge[r] < Interval + MaxPause
         /\ beat[r] = "utime" => beatAge[r] < MaxPause
    /\ lock'  = IF lock.there THEN [lock EXCEPT !.age = Older(@)] ELSE lock
    /\ guard' = IF guard.there THEN [guard EXCEPT !.age = Older(@)] ELSE guard
    /\ idle'  = [r \in Runs |-> IF Bounded /\ MainPauses(r) THEN idle[r] + 1 ELSE 0]
    /\ beatAge' = [r \in Runs |->
                     IF beat[r] = "off" \/ (~Bounded /\ beatAge[r] >= Interval)
                       THEN beatAge[r] ELSE beatAge[r] + 1]
    /\ UNCHANGED <<leftover, pc, lost, over, beat>>

AcquireStep(r) ==
    \/ MakeLock(r) \/ ReadAge(r) \/ MakeGuard(r) \/ ReadGuardAge(r) \/ RemoveGuard(r)
    \/ Recheck(r) \/ RenameLock(r) \/ CreateHeartbeat(r) \/ UndoLock(r)
    \/ WriteHeartbeat(r) \/ FailHeartbeat(r)

HoldStep(r) ==
    \/ CheckBeforeStore(r) \/ Store(r) \/ EndWork(r)
    \/ CheckBeforeRecord(r) \/ CheckBeforeLateRecord(r) \/ Record(r)
    \/ Release(r) \/ UnlinkHeartbeat(r) \/ RemoveLock(r)

RunStep(r) ==
    \/ StartAcquire(r) \/ AcquireStep(r) \/ HoldStep(r)
    \/ Touch(r) \/ Utime(r) \/ RunTooLong(r) \/ Crash(r)

Next == Tick \/ \E r \in Runs : RunStep(r)

Spec == Init /\ [][Next]_vars

\* time passes and no thread stops for ever, except where it crashed or works
Fairness ==
    /\ WF_vars(Tick)
    /\ \A r \in Runs : /\ WF_vars(AcquireStep(r))
                        /\ WF_vars(pc[r] # "work" /\ HoldStep(r))
                        /\ WF_vars(Touch(r) \/ Utime(r))

FairSpec == Spec /\ Fairness

-----------------------------------------------------------------------------
\* waiting for a lock it has seen
Contends == {"age", "guard", "guard_age", "guard_rmdir", "recheck", "rename",
             "unguard", "unguard_held"}

\* While one run waits for a lock it has seen, no other run is acquiring one.
\* Two runs never do otherwise, and any number of runs that start one after the
\* other's acquire has ended.
OneWaits ==
    \A r, s \in Runs :
      r # s /\ pc[r] \in Contends => pc[s] \notin Contends \cup {"mkdir"}

-----------------------------------------------------------------------------
\* Every variable has its type, and a heartbeat thread waits only while its run
\* holds the lock or believes so.
TypeOK ==
    /\ lock \in [there : BOOLEAN, owner : Runs \cup {Nobody}, named : BOOLEAN, age : Ages]
    /\ guard \in [there : BOOLEAN, age : Ages]
    /\ leftover \subseteq Runs
    /\ pc \in [Runs -> Acquiring \cup Holding \cup Ended \cup {"new"}]
    /\ lost \in [Runs -> BOOLEAN] /\ over \in [Runs -> BOOLEAN]
    /\ beat \in [Runs -> {"off", "wait", "utime"}]
    /\ beatAge \in [Runs -> 0 .. (Interval + MaxPause)]
    /\ idle \in [Runs -> 0 .. MaxPause]
    /\ \A r \in Runs : beat[r] = "wait" => pc[r] \in Holding \ {"unlink", "rmdir"}

\* While a run's write is pending after its ownership check, the run still owns
\* the lock.  The check and the write are two steps: this rests on pauses being
\* bounded, on one contender at a time (OneWaits), and on nobody having run out of time (a
\* run out of time no longer touches its heartbeat and may be overtaken while
\* it finishes).
FencedStores ==
    (\A r \in Runs : ~over[r]) => \A r \in Runs : pc[r] = "store" => Owns(r)

\* A run that is releasing removes its own heartbeat and its own directory,
\* under the same conditions.
ReleasesOwnLock ==
    (\A r \in Runs : ~over[r]) =>
      \A r \in Runs :
        /\ pc[r] = "unlink" => Owns(r)
        /\ pc[r] = "rmdir" => lock.there /\ lock.owner = Nobody

\* tests/test_locking.py: "stale lock race has exactly one winner".  Of the runs
\* whose acquire has succeeded and that have not noticed a loss, one at most.
OneWinner ==
    \A r, s \in Runs :
      (/\ pc[r] = "work" /\ ~lost[r] /\ ~over[r]
       /\ pc[s] = "work" /\ ~lost[s] /\ ~over[s])
         => r = s

\* Only a lock whose owner is gone, or out of time, is taken over.
OnlyDeadTakenOver ==
    [][\A r \in Runs :
         Owns(r) /\ ~lock'.there => pc[r] \in Ended \/ over[r]]_vars

\* acquire returns or raises: no contender waits for ever, whatever the guard
\* or the lock a crashed contender left behind.
AcquireEnds == \A r \in Runs : pc[r] \in Acquiring ~> pc[r] \notin Acquiring

=============================================================================
