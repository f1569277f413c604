------------------------ MODULE DirectoryLockProofs -------------------------
(***************************************************************************)
(* The run lock, for any number of runs: its types, whatever the pauses;   *)
(* and fencing and takeover, for runs that wait for a lock one at a time   *)
(* (OneWaits) and whose threads pause at most MaxPause between two steps.  *)
(*                                                                         *)
(* They rest on a lock never being stale while its run is at work.  A      *)
(* heartbeat is at most as old as the thread's own last step and the step  *)
(* before it (Fresh), which a stale_after of Interval + 2 * MaxPause       *)
(* covers.  So a contender that has found the lock stale has found it      *)
(* behind a run that has ended or is out of time (Doomed), and with nobody *)
(* else to make another it renames that very lock.                         *)
(***************************************************************************)
EXTENDS DirectoryLock, TLAPS

USE DEF threads

\* the defaults are 300 s against 30 s and the pauses
PausesCovered == Bounded /\ StaleAfter >= Interval + 2 * MaxPause

-----------------------------------------------------------------------------
\* Types.

\* a heartbeat thread is alive, and notices a loss, only after acquire has succeeded
BeatAfterAcquire ==
    \A r \in Runs : beat[r] # "off" \/ lost[r] => pc[r] \in Holding \cup Ended

LockTypeInv == TypeOK /\ BeatAfterAcquire

LockStates ==
    [there : BOOLEAN, owner : Runs \cup {Nobody}, named : BOOLEAN, age : Ages]
GuardStates == [there : BOOLEAN, age : Ages]

LEMMA AgesFit ==
  /\ StaleAfter \in Nat /\ Interval \in Nat /\ MaxPause \in Nat /\ 0 \in Ages
  /\ \A a \in Ages : a \in Nat /\ Older(a) \in Ages /\ Older(a) <= a + 1
BY LockAssumption DEF Ages, Older

LEMMA InitType == Init => LockTypeInv
<1> SUFFICES ASSUME Init  PROVE  LockTypeInv
  OBVIOUS
<1>1. TypeOK
  BY AgesFit DEF Init, TypeOK, NoLock, NoGuard
<1> QED  BY <1>1 DEF Init, LockTypeInv, BeatAfterAcquire

\* a step of the main thread that leaves the heartbeat thread alone
LEMMA MainStepType ==
  ASSUME LockTypeInv, NEW r \in Runs, NEW from, NEW to, Goto(r, from, to),
         \/ from \in Acquiring \cup {"new"} /\ to \in Acquiring \cup Ended
         \/ from \in Holding /\ to \in Holding \ {"unlink", "rmdir"}
         \/ from \in Holding /\ to \in Holding \cup Ended /\ beat[r] # "wait",
         lock' \in LockStates, guard' \in GuardStates, leftover' \subseteq Runs,
         UNCHANGED threads
  PROVE  LockTypeInv'
<1> USE DEF Holding, Ended, Acquiring
<1>1. pc[r] = from /\ pc' = [pc EXCEPT ![r] = to] /\ idle' = [idle EXCEPT ![r] = 0]
  BY DEF Goto
<1>2. idle' \in [Runs -> 0 .. MaxPause]
  BY <1>1, AgesFit DEF LockTypeInv, TypeOK
<1>3. pc' \in [Runs -> Acquiring \cup Holding \cup Ended \cup {"new"}]
  BY <1>1 DEF LockTypeInv, TypeOK
<1>4. ASSUME NEW s \in Runs
      PROVE  /\ beat'[s] # "off" \/ lost'[s] => pc'[s] \in Holding \cup Ended
             /\ beat'[s] = "wait" => pc'[s] \in Holding \ {"unlink", "rmdir"}
  BY <1>1 DEF LockTypeInv, TypeOK, BeatAfterAcquire
<1> HIDE DEF Holding, Ended, Acquiring
<1> QED
  BY <1>2, <1>3, <1>4 DEF LockTypeInv, TypeOK, BeatAfterAcquire, LockStates, GuardStates

LEMMA DiskStates ==
  ASSUME LockTypeInv
  PROVE  /\ lock \in LockStates /\ guard \in GuardStates /\ leftover \subseteq Runs
         /\ NoLock \in LockStates /\ [NoLock EXCEPT !.there = TRUE] \in LockStates
         /\ NoGuard \in GuardStates /\ [there |-> TRUE, age |-> 0] \in GuardStates
         /\ \A r \in Runs :
              /\ [lock EXCEPT !.owner = r, !.age = 0] \in LockStates
              /\ [lock EXCEPT !.named = TRUE, !.age = 0] \in LockStates
              /\ [lock EXCEPT !.owner = Nobody, !.named = FALSE, !.age = 0] \in LockStates
         /\ [lock EXCEPT !.age = 0] \in LockStates
BY AgesFit DEF LockTypeInv, TypeOK, LockStates, GuardStates, NoLock, NoGuard

LEMMA AcquireType ==
  ASSUME LockTypeInv, NEW r \in Runs, StartAcquire(r) \/ AcquireStep(r)
  PROVE  LockTypeInv'
<1> DEFINE First == Acquiring \cup {"new"}
           Next1 == Acquiring \cup Ended
<1>0. ASSUME NEW from \in First, NEW to \in Next1, Goto(r, from, to),
             lock' \in LockStates, guard' \in GuardStates, leftover' \subseteq Runs,
             UNCHANGED threads
      PROVE  LockTypeInv'
  BY <1>0, MainStepType
<1>a. /\ {"new", "mkdir", "age", "guard", "guard_age", "guard_rmdir", "recheck",
          "rename", "unguard", "unguard_held", "open", "undo", "write"} \subseteq First
      /\ {"mkdir", "age", "guard", "guard_age", "guard_rmdir", "recheck", "rename",
          "unguard", "unguard_held", "open", "undo", "write", "held", "failed"}
           \subseteq Next1
  BY DEF Acquiring, Ended
<1> HIDE DEF First, Next1
<1>1. CASE StartAcquire(r)
  BY <1>0, <1>a, <1>1, DiskStates DEF StartAcquire
<1>2. CASE MakeLock(r)
  BY <1>0, <1>a, <1>2, DiskStates DEF MakeLock
<1>3. CASE ReadAge(r) \/ Recheck(r)
  BY <1>0, <1>a, <1>3, DiskStates DEF ReadAge, Recheck
<1>4. CASE MakeGuard(r) \/ ReadGuardAge(r) \/ RemoveGuard(r)
  BY <1>0, <1>a, <1>4, DiskStates DEF MakeGuard, ReadGuardAge, RemoveGuard
<1>5. CASE RenameLock(r)
  BY <1>0, <1>a, <1>5, DiskStates DEF RenameLock
<1>6. CASE CreateHeartbeat(r) \/ UndoLock(r)
  BY <1>0, <1>a, <1>6, DiskStates DEF CreateHeartbeat, UndoLock
<1>7. CASE WriteHeartbeat(r)
  <2>1. lock' \in LockStates
    BY <1>7, DiskStates DEF WriteHeartbeat
  <2> QED
    BY <1>7, <2>1, AgesFit DEF WriteHeartbeat, Goto, LockTypeInv, TypeOK, BeatAfterAcquire,
       Holding, Ended, LockStates
<1>8. CASE FailHeartbeat(r)
  <2>1. lock' \in LockStates
    <3>1. \A named \in BOOLEAN : [lock EXCEPT !.named = named, !.age = 0] \in LockStates
      BY DiskStates, AgesFit DEF LockStates
    <3> QED  BY <1>8, <3>1, DiskStates DEF FailHeartbeat
  <2> QED  BY <1>0, <1>a, <1>8, <2>1, DiskStates DEF FailHeartbeat
<1> QED
  BY <1>1, <1>2, <1>3, <1>4, <1>5, <1>6, <1>7, <1>8 DEF AcquireStep

LEMMA FailType ==
  ASSUME LockTypeInv, NEW r \in Runs, NEW from \in Holding, Fail(r, from)
  PROVE  LockTypeInv'
BY AgesFit DEF Fail, LockTypeInv, BeatAfterAcquire, TypeOK, Goto, Holding, Ended, Acquiring

LEMMA HoldType ==
  ASSUME LockTypeInv, NEW r \in Runs, HoldStep(r)
  PROVE  LockTypeInv'
<1> DEFINE Stays == Holding \ {"unlink", "rmdir"}
<1>1. ASSUME NEW from \in Holding, NEW to \in Stays,
             Goto(r, from, to), UNCHANGED <<lock, guard, leftover, threads>>
      PROVE  LockTypeInv'
  BY <1>1, MainStepType, DiskStates
<1>a. /\ {"work", "store", "finish", "record", "finish_late", "record_late", "release"}
           \subseteq Stays
      /\ Stays \subseteq Holding /\ {"unlink", "rmdir"} \subseteq Holding
  BY DEF Holding
<1> HIDE DEF Stays
<1>2. CASE CheckBeforeStore(r) \/ CheckBeforeRecord(r) \/ CheckBeforeLateRecord(r)
  BY <1>1, <1>2, <1>a, FailType DEF CheckBeforeStore, CheckBeforeRecord,
     CheckBeforeLateRecord
<1>3. CASE Store(r) \/ EndWork(r) \/ Record(r)
  BY <1>1, <1>3, <1>a DEF Store, EndWork, Record
<1>4. CASE Release(r)
  <2>1. CASE Fail(r, "release")
    BY <2>1, <1>a, FailType
  <2>2. CASE ~Fail(r, "release")
    BY <1>4, <2>2, AgesFit DEF Release, LockTypeInv, BeatAfterAcquire, TypeOK, Goto,
       Holding, Ended
  <2> QED  BY <2>1, <2>2
<1>5. CASE UnlinkHeartbeat(r)
  <2>1. CASE Fail(r, "unlink")
    BY <2>1, <1>a, FailType
  <2>2. CASE Goto(r, "unlink", "rmdir") /\ ~Fail(r, "unlink")
    <3>1. beat[r] # "wait"
      BY <2>2 DEF Goto, LockTypeInv, TypeOK
    <3> QED  BY <1>5, <1>a, <2>2, <3>1, MainStepType, DiskStates DEF UnlinkHeartbeat
  <2> QED  BY <1>5, <2>1, <2>2 DEF UnlinkHeartbeat
<1>6. CASE RemoveLock(r)
  <2>1. CASE Fail(r, "rmdir")
    BY <2>1, <1>a, FailType
  <2>2. CASE Goto(r, "rmdir", "done") /\ ~Fail(r, "rmdir")
    <3>1. beat[r] # "wait" /\ "done" \in Ended
      BY <2>2 DEF Goto, LockTypeInv, TypeOK, Ended
    <3> QED  BY <1>6, <1>a, <2>2, <3>1, MainStepType, DiskStates DEF RemoveLock
  <2> QED  BY <1>6, <2>1, <2>2 DEF RemoveLock
<1> QED  BY <1>2, <1>3, <1>4, <1>5, <1>6 DEF HoldStep

LEMMA ThreadType ==
  ASSUME LockTypeInv, NEW r \in Runs,
         Touch(r) \/ Utime(r) \/ RunTooLong(r) \/ Crash(r)
  PROVE  LockTypeInv'
<1> USE AgesFit DEF LockTypeInv, BeatAfterAcquire, TypeOK, Holding, Ended, Acquiring
<1>1. CASE Touch(r)
  <2>1. lost' \in [Runs -> BOOLEAN]
    <3>1. \A x \in BOOLEAN : [lost EXCEPT ![r] = x] \in [Runs -> BOOLEAN]
      OBVIOUS
    <3>2. (lost[r] \/ ~over[r]) \in BOOLEAN
      OBVIOUS
    <3> QED  BY <1>1, <3>1, <3>2 DEF Touch
  <2>2. /\ beat' \in [Runs -> {"off", "wait", "utime"}]
        /\ beatAge' \in [Runs -> 0 .. (Interval + MaxPause)]
        /\ \A s \in Runs : /\ beat'[s] = "wait" => beat[s] = "wait"
                           /\ beat'[s] # "off" => beat[s] # "off"
    BY <1>1 DEF Touch
  <2> QED  BY <1>1, <2>1, <2>2 DEF Touch
<1>2. CASE Utime(r)
  BY <1>2 DEF Utime, Released
<1>3. CASE RunTooLong(r)
  BY <1>3 DEF RunTooLong
<1>4. CASE Crash(r)
  BY <1>4 DEF Crash
<1> QED  BY <1>1, <1>2, <1>3, <1>4

LEMMA TickType == LockTypeInv /\ Tick => LockTypeInv'
<1> SUFFICES ASSUME LockTypeInv, Tick  PROVE  LockTypeInv'
  OBVIOUS
<1> USE AgesFit DEF LockTypeInv, TypeOK, Tick
<1>1. lock' \in [there : BOOLEAN, owner : Runs \cup {Nobody}, named : BOOLEAN, age : Ages]
  OBVIOUS
<1>2. guard' \in [there : BOOLEAN, age : Ages]
  OBVIOUS
<1>3. idle' \in [Runs -> 0 .. MaxPause]
  BY DEF MainPauses
<1>4. beatAge' \in [Runs -> 0 .. (Interval + MaxPause)]
  <2>1. ASSUME NEW r \in Runs  PROVE  beatAge'[r] \in 0 .. (Interval + MaxPause)
    BY LockAssumption
  <2> QED  BY <2>1
<1> QED  BY <1>1, <1>2, <1>3, <1>4 DEF BeatAfterAcquire

LEMMA TypeStep == LockTypeInv /\ [Next]_vars => LockTypeInv'
<1> SUFFICES ASSUME LockTypeInv, [Next]_vars  PROVE  LockTypeInv'
  OBVIOUS
<1>1. CASE UNCHANGED vars
  BY <1>1 DEF vars, LockTypeInv, TypeOK, BeatAfterAcquire
<1> QED
  BY <1>1, TickType, AcquireType, HoldType, ThreadType DEF Next, RunStep

LEMMA AlwaysTyped == Spec => []LockTypeInv
BY InitType, TypeStep, PTL DEF Spec

\* In every execution every variable has its type, for any number of runs and
\* however long threads pause.
THEOREM TypeCorrect == Spec => []TypeOK
<1>1. LockTypeInv => TypeOK
  BY DEF LockTypeInv
<1> QED  BY <1>1, AlwaysTyped, PTL

-----------------------------------------------------------------------------
\* Freshness: whatever the runs do.

\* from acquire's success until release's ownership check
AtWork == {"work", "store", "finish", "record", "release"}

\* a run between its mkdir and its rmdir of .lock, at a lock that is its own or
\* younger, and with time left
Guarded(r) ==
    /\ lock.there
    /\ \/ pc[r] \in {"open", "rmdir"}
       \/ pc[r] \in {"write", "undo"} /\ lock.owner = r
       \/ pc[r] \in AtWork \cup {"unlink"} /\ Owns(r) /\ ~over[r]

\* how old its heartbeat can be
FreshOpen(r) ==
    /\ pc[r] \in {"open", "write", "rmdir"} => lock.age <= idle[r]
    /\ pc[r] = "undo" => lock.age <= MaxPause + idle[r]
FreshWork(r) ==
    pc[r] \in AtWork =>
      /\ ~lost[r] /\ beat[r] # "off"
      /\ beat[r] = "wait" => lock.age <= beatAge[r]
FreshUtime(r) ==
    pc[r] \in AtWork \cup {"unlink"} /\ beat[r] = "utime" =>
      /\ ~lost[r] /\ beatAge[r] <= MaxPause
      /\ lock.age <= Interval + MaxPause + beatAge[r]
FreshUnlink(r) ==
    pc[r] = "unlink" =>
      /\ ~lost[r]
      /\ beat[r] = "off" => lock.age <= Interval + MaxPause + idle[r]

Fresh(r) == Guarded(r) =>
    FreshOpen(r) /\ FreshWork(r) /\ FreshUtime(r) /\ FreshUnlink(r)

\* only a run out of time records late
LateOver(r) == pc[r] \in {"finish_late", "record_late"} => over[r]

AllFresh == \A r \in Runs : Fresh(r) /\ LateOver(r)

\* the types, one by one
LEMMA Typed ==
  ASSUME LockTypeInv
  PROVE  /\ lock \in LockStates /\ lock.age \in Nat
         /\ pc \in [Runs -> Acquiring \cup Holding \cup Ended \cup {"new"}]
         /\ lost \in [Runs -> BOOLEAN] /\ over \in [Runs -> BOOLEAN]
         /\ beat \in [Runs -> {"off", "wait", "utime"}]
         /\ beatAge \in [Runs -> 0 .. (Interval + MaxPause)]
         /\ idle \in [Runs -> 0 .. MaxPause]
         /\ \A r \in Runs :
              /\ r # Nobody /\ idle[r] \in Nat /\ beatAge[r] \in Nat
              /\ beat[r] = "wait" => pc[r] \in Holding \ {"unlink", "rmdir"}
              /\ lost[r] => pc[r] \in Holding \cup Ended
BY AgesFit, LockAssumption DEF LockTypeInv, TypeOK, LockStates, BeatAfterAcquire

\* A lock is never stale while it is guarded.
LEMMA NeverStale ==
  ASSUME LockTypeInv, PausesCovered, NEW r \in Runs, Fresh(r), Guarded(r)
  PROVE  ~IsStale
<1>1. lock.there /\ lock.age \in Nat /\ idle[r] \in 0 .. MaxPause
      /\ beatAge[r] \in 0 .. (Interval + MaxPause) /\ beat[r] \in {"off", "wait", "utime"}
      /\ (beat[r] = "wait" => pc[r] # "unlink")
  BY AgesFit DEF LockTypeInv, TypeOK, Guarded
<1>2. FreshOpen(r) /\ FreshWork(r) /\ FreshUtime(r) /\ FreshUnlink(r)
  BY DEF Fresh
<1>3. lock.age <= StaleAfter
  <2>1. CASE pc[r] \in {"open", "write", "undo", "rmdir"}
    BY <1>1, <1>2, <2>1, AgesFit DEF FreshOpen, PausesCovered
  <2>2. CASE pc[r] \in AtWork
    BY <1>1, <1>2, <2>2, AgesFit DEF FreshWork, FreshUtime, PausesCovered
  <2>3. CASE pc[r] = "unlink"
    BY <1>1, <1>2, <2>3, AgesFit DEF FreshUtime, FreshUnlink, PausesCovered
  <2> QED  BY <2>1, <2>2, <2>3 DEF Guarded
<1> QED  BY <1>1, <1>3, AgesFit DEF IsStale

\* A step of one run leaves the threads of the others alone.
LEMMA Frame ==
  ASSUME LockTypeInv, NEW r \in Runs, RunStep(r), NEW s \in Runs, s # r
  PROVE  /\ pc'[s] = pc[s] /\ lost'[s] = lost[s] /\ over'[s] = over[s]
         /\ beat'[s] = beat[s] /\ beatAge'[s] = beatAge[s] /\ idle'[s] = idle[s]
<1>1. ASSUME NEW from, NEW to, Goto(r, from, to)  PROVE  pc'[s] = pc[s] /\ idle'[s] = idle[s]
  BY <1>1 DEF Goto, LockTypeInv, TypeOK
<1>2. ASSUME NEW from, Fail(r, from)
      PROVE  /\ pc'[s] = pc[s] /\ lost'[s] = lost[s] /\ over'[s] = over[s]
             /\ beat'[s] = beat[s] /\ beatAge'[s] = beatAge[s] /\ idle'[s] = idle[s]
  BY <1>1, <1>2 DEF Fail, LockTypeInv, TypeOK
<1>3. CASE StartAcquire(r) \/ AcquireStep(r)
  <2>1. CASE WriteHeartbeat(r)
    BY <1>1, <2>1 DEF WriteHeartbeat, LockTypeInv, TypeOK
  <2>2. CASE ~WriteHeartbeat(r)
    <3>1. UNCHANGED threads /\ \E from, to : Goto(r, from, to)
      BY <1>3, <2>2 DEF StartAcquire, AcquireStep, MakeLock, ReadAge, MakeGuard,
         ReadGuardAge, RemoveGuard, Recheck, RenameLock, CreateHeartbeat, UndoLock,
         FailHeartbeat
    <3> QED  BY <1>1, <3>1
  <2> QED  BY <2>1, <2>2
<1>4. CASE HoldStep(r)
  <2>1. CASE Release(r)
    BY <1>1, <1>2, <2>1 DEF Release, LockTypeInv, TypeOK
  <2>2. CASE ~Release(r)
    <3>1. \/ \E from : Fail(r, from)
          \/ UNCHANGED threads /\ \E from, to : Goto(r, from, to)
      BY <1>4, <2>2 DEF HoldStep, CheckBeforeStore, Store, EndWork, CheckBeforeRecord,
         CheckBeforeLateRecord, Record, UnlinkHeartbeat, RemoveLock
    <3> QED  BY <1>1, <1>2, <3>1
  <2> QED  BY <2>1, <2>2
<1>5. CASE Touch(r) \/ Utime(r) \/ RunTooLong(r) \/ Crash(r)
  BY <1>5 DEF Touch, Utime, RunTooLong, Crash, LockTypeInv, TypeOK
<1> QED  BY <1>3, <1>4, <1>5 DEF RunStep

\* Whatever the pauses, only a run past acquire can be out of time, and only one
\* that has created its heartbeat is the owner.
PastAcquire ==
    \A r \in Runs :
      /\ over[r] => pc[r] \in Holding \cup Ended
      /\ lock.owner = r => pc[r] \in {"write", "undo"} \cup Holding \cup Ended

LEMMA PastAcquireStep ==
  ASSUME LockTypeInv, PastAcquire, NEW r \in Runs, RunStep(r)
  PROVE  PastAcquire'
<1>0. /\ lock \in LockStates
      /\ pc \in [Runs -> Acquiring \cup Holding \cup Ended \cup {"new"}]
      /\ over \in [Runs -> BOOLEAN] /\ r # Nobody
  BY LockAssumption DEF LockTypeInv, TypeOK, LockStates
<1>1. /\ pc[r] \in Holding \cup Ended => pc'[r] \in Holding \cup Ended
      /\ pc[r] \in {"write", "undo"} =>
           pc'[r] \in {"write", "undo"} \cup Holding \cup Ended
      /\ \A s \in Runs : lock'.owner = s =>
           lock.owner = s \/ (s = r /\ pc'[r] = "write")
      /\ \A s \in Runs : over'[s] => over[s] \/ (s = r /\ pc[r] \in Holding)
  <2>1. CASE StartAcquire(r) \/ AcquireStep(r)
    <3>1. over' = over
      BY <2>1 DEF StartAcquire, AcquireStep, MakeLock, ReadAge, MakeGuard, ReadGuardAge,
         RemoveGuard, Recheck, RenameLock, CreateHeartbeat, UndoLock, WriteHeartbeat,
         FailHeartbeat
    <3>2. /\ pc[r] \notin Holding \cup Ended
          /\ pc[r] = "write" => pc'[r] \in {"work", "undo"}
          /\ pc[r] = "undo" => pc'[r] = "failed"
      BY <1>0, <2>1 DEF StartAcquire, AcquireStep, MakeLock, ReadAge, MakeGuard,
         ReadGuardAge, RemoveGuard, Recheck, RenameLock, CreateHeartbeat, UndoLock,
         WriteHeartbeat, FailHeartbeat, Goto, Holding, Ended
    <3>3. \/ lock'.owner = Nobody \/ lock'.owner = lock.owner
          \/ lock'.owner = r /\ pc'[r] = "write"
      <4>1. CASE MakeLock(r)
        BY <4>1 DEF MakeLock, NoLock
      <4>2. CASE CreateHeartbeat(r)
        BY <1>0, <4>2 DEF CreateHeartbeat, Goto, LockStates
      <4>3. CASE WriteHeartbeat(r) \/ FailHeartbeat(r)
        BY <1>0, <4>3 DEF WriteHeartbeat, FailHeartbeat, LockStates
      <4>4. CASE RenameLock(r) \/ UndoLock(r)
        BY <4>4 DEF RenameLock, UndoLock, NoLock
      <4> QED
        BY <2>1, <4>1, <4>2, <4>3, <4>4 DEF StartAcquire, AcquireStep, ReadAge,
           MakeGuard, ReadGuardAge, RemoveGuard, Recheck
    <3> QED  BY <3>1, <3>2, <3>3, LockAssumption DEF Holding, Ended
  <2>2. CASE HoldStep(r)
    <3>1. over' = over
      BY <2>2 DEF HoldStep, CheckBeforeStore, Store, EndWork, CheckBeforeRecord,
         CheckBeforeLateRecord, Record, Release, UnlinkHeartbeat, RemoveLock, Fail
    <3>2. pc'[r] \in Holding \cup Ended
      BY <1>0, <2>2 DEF HoldStep, CheckBeforeStore, Store, EndWork, CheckBeforeRecord,
         CheckBeforeLateRecord, Record, Release, UnlinkHeartbeat, RemoveLock, Fail,
         Goto, Holding, Ended
    <3>3. lock'.owner = Nobody \/ lock'.owner = lock.owner
      <4>1. CASE UnlinkHeartbeat(r) \/ RemoveLock(r)
        <5>1. \/ lock' = [lock EXCEPT !.owner = Nobody, !.named = FALSE, !.age = 0]
              \/ lock' = NoLock \/ lock' = lock
          BY <4>1 DEF UnlinkHeartbeat, RemoveLock, Fail
        <5>2. NoLock.owner = Nobody
          BY DEF NoLock
        <5>3. [lock EXCEPT !.owner = Nobody, !.named = FALSE, !.age = 0].owner = Nobody
          BY <1>0 DEF LockStates
        <5> QED  BY <5>1, <5>2, <5>3
      <4>2. CASE ~UnlinkHeartbeat(r) /\ ~RemoveLock(r)
        <5>1. lock' = lock
          BY <2>2, <4>2 DEF HoldStep, CheckBeforeStore, Store, EndWork,
             CheckBeforeRecord, CheckBeforeLateRecord, Record, Release, Fail
        <5> QED  BY <5>1
      <4> QED  BY <4>1, <4>2
    <3> QED  BY <3>1, <3>2, <3>3, LockAssumption
  <2>3. CASE Touch(r)
    BY <2>3 DEF Touch
  <2>4. CASE Utime(r)
    <3>1. lock'.owner = lock.owner /\ pc' = pc /\ over' = over
      BY <1>0, <2>4 DEF Utime, LockStates
    <3> QED  BY <3>1
  <2>5. CASE RunTooLong(r)
    BY <1>0, <2>5 DEF RunTooLong, Holding, Ended
  <2>6. CASE Crash(r)
    BY <1>0, <2>6 DEF Crash, Ended
  <2> QED  BY <2>1, <2>2, <2>3, <2>4, <2>5, <2>6 DEF RunStep
<1>2. \A s \in Runs : s # r => pc'[s] = pc[s]
  BY Frame
<1> QED  BY <1>1, <1>2 DEF PastAcquire

LEMMA AlwaysPastAcquire == Spec => []PastAcquire
<1>1. Init => PastAcquire
  BY LockAssumption DEF Init, NoLock, PastAcquire
<1>2. LockTypeInv /\ PastAcquire /\ [Next]_vars => PastAcquire'
  <2> SUFFICES ASSUME LockTypeInv, PastAcquire, [Next]_vars  PROVE  PastAcquire'
    OBVIOUS
  <2>1. CASE UNCHANGED vars
    BY <2>1 DEF vars, PastAcquire
  <2>2. CASE Tick
    BY <2>2 DEF Tick, PastAcquire, LockTypeInv, TypeOK
  <2> QED  BY <2>1, <2>2, PastAcquireStep DEF Next
<1> QED  BY <1>1, <1>2, AlwaysTyped, PTL DEF Spec

\* What a run does to the lock there is: it leaves it, or makes it or another
\* young, and gives nothing to others.
LEMMA LockChange ==
  ASSUME LockTypeInv, NEW r \in Runs, RunStep(r)
  PROVE  \/ lock' = lock
         \/ /\ lock'.age = 0
            /\ \A s \in Runs \ {r} :
                 /\ lock'.there /\ lock'.owner = s => lock.there /\ lock.owner = s
                 /\ Owns(s)' => Owns(s)
<1> DEFINE Younger == \/ lock' = lock
                      \/ /\ lock'.age = 0
                         /\ \A s \in Runs \ {r} :
                              /\ lock'.there /\ lock'.owner = s
                                   => lock.there /\ lock.owner = s
                              /\ Owns(s)' => Owns(s)
<1>0. lock \in LockStates /\ r # Nobody /\ \A s \in Runs : s # Nobody
  BY Typed
<1>1. ASSUME lock' = NoLock \/ lock' = [NoLock EXCEPT !.there = TRUE]  PROVE  Younger
  BY <1>0, <1>1 DEF NoLock, Owns
<1>2. ASSUME lock' = [lock EXCEPT !.age = 0]  PROVE  Younger
  BY <1>0, <1>2 DEF Owns, LockStates
<1>3. CASE StartAcquire(r) \/ AcquireStep(r)
  <2>1. CASE MakeLock(r) \/ RenameLock(r) \/ UndoLock(r)
    BY <1>1, <2>1 DEF MakeLock, RenameLock, UndoLock
  <2>2. CASE CreateHeartbeat(r) \/ WriteHeartbeat(r) \/ FailHeartbeat(r)
    BY <1>0, <2>2 DEF CreateHeartbeat, WriteHeartbeat, FailHeartbeat, Owns, LockStates
  <2> QED
    BY <1>3, <2>1, <2>2 DEF StartAcquire, AcquireStep, ReadAge, Recheck, MakeGuard,
       ReadGuardAge, RemoveGuard
<1>4. CASE HoldStep(r)
  <2>1. CASE RemoveLock(r)
    BY <1>1, <2>1 DEF RemoveLock, Fail
  <2>2. CASE UnlinkHeartbeat(r)
    BY <1>0, <2>2 DEF UnlinkHeartbeat, Fail, Owns, LockStates
  <2> QED
    BY <1>4, <2>1, <2>2 DEF HoldStep, CheckBeforeStore, Store, EndWork,
       CheckBeforeRecord, CheckBeforeLateRecord, Record, Release, Fail
<1>5. CASE Utime(r)
  BY <1>2, <1>5 DEF Utime
<1>6. CASE Touch(r) \/ RunTooLong(r) \/ Crash(r)
  BY <1>6 DEF Touch, RunTooLong, Crash
<1> QED  BY <1>3, <1>4, <1>5, <1>6 DEF RunStep

\* Nobody ages the lock of another.
LEMMA OthersFresh ==
  ASSUME LockTypeInv, NEW r \in Runs, RunStep(r), NEW s \in Runs, s # r,
         Fresh(s), LateOver(s)
  PROVE  Fresh(s)' /\ LateOver(s)'
<1>1. /\ pc'[s] = pc[s] /\ lost'[s] = lost[s] /\ over'[s] = over[s]
      /\ beat'[s] = beat[s] /\ beatAge'[s] = beatAge[s] /\ idle'[s] = idle[s]
  BY Frame
<1>2. idle[s] \in Nat /\ beatAge[s] \in Nat
  BY Typed
<1>3. LateOver(s)'
  BY <1>1 DEF LateOver
<1>4. CASE lock' = lock
  BY <1>1, <1>4 DEF LateOver, Fresh, Guarded, Owns, FreshOpen, FreshWork, FreshUtime,
     FreshUnlink
<1>5. CASE /\ lock'.age = 0
           /\ lock'.there /\ lock'.owner = s => lock.there /\ lock.owner = s
           /\ Owns(s)' => Owns(s)
  <2> SUFFICES ASSUME Guarded(s)'
               PROVE  FreshOpen(s)' /\ FreshWork(s)' /\ FreshUtime(s)' /\ FreshUnlink(s)'
    BY <1>3 DEF Fresh
  <2>1. CASE pc[s] \in {"open", "write", "undo", "rmdir"}
    BY <1>1, <1>2, <1>5, <2>1, AgesFit DEF FreshOpen, FreshWork, FreshUtime, FreshUnlink,
       AtWork
  <2>2. CASE pc[s] \in AtWork \cup {"unlink"}
    <3>1. Guarded(s)
      BY <1>1, <1>5, <2>2 DEF Guarded, AtWork, Owns
    <3>2. FreshWork(s) /\ FreshUtime(s) /\ FreshUnlink(s)
      BY <3>1 DEF Fresh
    <3> QED
      BY <1>1, <1>2, <1>5, <2>2, <3>2, AgesFit DEF FreshOpen, FreshWork, FreshUtime,
         FreshUnlink, AtWork
  <2> QED  BY <1>1, <2>1, <2>2 DEF Guarded
<1> QED  BY <1>3, <1>4, <1>5, LockChange

\* A run keeps its own heartbeat fresh.
LEMMA OwnFresh ==
  ASSUME LockTypeInv, PastAcquire, NEW r \in Runs, RunStep(r), Fresh(r), LateOver(r)
  PROVE  Fresh(r)' /\ LateOver(r)'
<1>0. /\ lock \in LockStates /\ lock.age \in Nat
      /\ pc \in [Runs -> Acquiring \cup Holding \cup Ended \cup {"new"}]
      /\ lost \in [Runs -> BOOLEAN] /\ over \in [Runs -> BOOLEAN]
      /\ beat \in [Runs -> {"off", "wait", "utime"}]
      /\ beatAge \in [Runs -> 0 .. (Interval + MaxPause)]
      /\ idle \in [Runs -> 0 .. MaxPause]
      /\ r # Nobody /\ beatAge[r] \in Nat
      /\ (beat[r] = "wait" => pc[r] \in Holding \ {"unlink", "rmdir"})
      /\ (lost[r] => pc[r] \in Holding \cup Ended)
  BY Typed
<1>1. ASSUME pc'[r] \notin {"open", "write", "undo", "rmdir", "unlink"} \cup AtWork,
             pc'[r] \notin {"finish_late", "record_late"}
      PROVE  Fresh(r)' /\ LateOver(r)'
  BY <1>1 DEF Fresh, Guarded, LateOver
<1>2. ASSUME pc'[r] \in {"open", "write", "undo", "rmdir"}, lock'.there => lock'.age = 0,
             idle'[r] = 0
      PROVE  Fresh(r)' /\ LateOver(r)'
  BY <1>2, AgesFit DEF Fresh, Guarded, LateOver, FreshOpen, FreshWork, FreshUtime,
     FreshUnlink, AtWork
<1>3. ASSUME NEW to \in AtWork, pc[r] \in AtWork, pc'[r] = to,
             UNCHANGED <<lock, threads>>
      PROVE  Fresh(r)' /\ LateOver(r)'
  BY <1>3 DEF Fresh, Guarded, Owns, LateOver, FreshOpen, FreshWork, FreshUtime,
     FreshUnlink, AtWork
<1>4. ASSUME NEW to, pc'[r] = to, over'[r], to \notin {"open", "write", "undo", "rmdir"}
      PROVE  Fresh(r)' /\ LateOver(r)'
  BY <1>4 DEF Fresh, Guarded, LateOver
<1>5. ASSUME NEW from \in Holding, Fail(r, from)  PROVE  Fresh(r)' /\ LateOver(r)'
  <2>1. pc'[r] = "failed"
    BY <1>0, <1>5 DEF Fail, Goto
  <2> QED  BY <1>1, <2>1 DEF AtWork
<1>6. CASE StartAcquire(r) \/ AcquireStep(r)
  <2>1. CASE MakeLock(r)
    <3>1. \/ pc'[r] = "age"
          \/ pc'[r] = "open" /\ lock'.age = 0 /\ idle'[r] = 0
      BY <1>0, <2>1 DEF MakeLock, Goto, NoLock
    <3> QED  BY <1>1, <1>2, <3>1 DEF AtWork
  <2>2. CASE CreateHeartbeat(r)
    <3>1. \/ pc'[r] = "undo" /\ lock' = lock
          \/ pc'[r] = "write" /\ lock'.age = 0 /\ idle'[r] = 0
      BY <1>0, <2>2 DEF CreateHeartbeat, Goto, LockStates
    <3>2. lock.owner # r
      BY <1>0, <2>2 DEF CreateHeartbeat, Goto, PastAcquire, Holding, Ended
    <3>3. CASE pc'[r] = "undo" /\ lock' = lock
      BY <3>2, <3>3 DEF Fresh, Guarded, LateOver, AtWork
    <3> QED  BY <1>2, <3>1, <3>3
  <2>3. CASE WriteHeartbeat(r)
    <3>1. /\ pc'[r] = "work" /\ beat'[r] = "wait" /\ beatAge'[r] = 0 /\ ~lost'[r]
          /\ lock.owner # r => lock' = lock
          /\ lock.owner = r => lock'.age = 0
      BY <1>0, <2>3 DEF WriteHeartbeat, Goto, LockStates, Holding, Ended
    <3> QED
      BY <3>1 DEF Fresh, Guarded, Owns, LateOver, FreshOpen, FreshWork, FreshUtime,
         FreshUnlink, AtWork
  <2>4. CASE FailHeartbeat(r)
    <3>1. /\ pc[r] = "write" /\ pc'[r] = "undo" /\ idle'[r] = 0
          /\ lock' = lock \/ lock'.age = 0
      BY <1>0, <2>4 DEF FailHeartbeat, Goto, LockStates
    <3>2. FreshWork(r)' /\ FreshUtime(r)' /\ FreshUnlink(r)' /\ LateOver(r)'
      BY <3>1 DEF FreshWork, FreshUtime, FreshUnlink, LateOver, AtWork
    <3>3. CASE lock'.age = 0
      BY <3>1, <3>2, <3>3, AgesFit DEF Fresh, FreshOpen
    <3>4. CASE lock' = lock
      <4>1. Guarded(r)' => lock.age <= idle[r]
        BY <3>1, <3>4 DEF Guarded, Fresh, FreshOpen, AtWork
      <4>2. Guarded(r)' => FreshOpen(r)'
        BY <1>0, <3>1, <3>4, <4>1, AgesFit DEF FreshOpen
      <4> QED  BY <3>2, <4>2 DEF Fresh
    <3> QED  BY <3>1, <3>3, <3>4
  <2>5. CASE /\ ~MakeLock(r) /\ ~CreateHeartbeat(r)
             /\ ~WriteHeartbeat(r) /\ ~FailHeartbeat(r)
    <3>1. pc'[r] \in {"mkdir", "failed", "held"} \cup Contends
      BY <1>0, <1>6, <2>5 DEF StartAcquire, AcquireStep, ReadAge, MakeGuard,
         ReadGuardAge, RemoveGuard, Recheck, RenameLock, UndoLock, Goto, Contends
    <3> QED  BY <1>1, <3>1 DEF Contends, AtWork
  <2> QED  BY <2>1, <2>2, <2>3, <2>4, <2>5
<1>7. CASE HoldStep(r)
  <2>1. CASE CheckBeforeStore(r) \/ CheckBeforeRecord(r)
    <3>1. CASE Fail(r, "work") \/ Fail(r, "finish")
      BY <1>5, <3>1 DEF Holding
    <3>2. CASE /\ UNCHANGED <<lock, threads>> /\ pc[r] \in AtWork
               /\ \/ pc'[r] \in AtWork
                  \/ over[r] /\ pc'[r] = "finish_late"
      <4>1. over'[r] = over[r]
        BY <3>2
      <4> QED  BY <1>3, <1>4, <3>2, <4>1
    <3> QED
      BY <1>0, <2>1, <3>1, <3>2 DEF CheckBeforeStore, CheckBeforeRecord, Goto, AtWork
  <2>2. CASE Store(r) \/ EndWork(r) \/ (Record(r) /\ pc[r] = "record")
    <3>1. UNCHANGED <<lock, threads>> /\ pc[r] \in AtWork /\ pc'[r] \in AtWork
      BY <1>0, <2>2 DEF Store, EndWork, Record, Goto, AtWork
    <3> QED  BY <1>3, <3>1
  <2>3. CASE CheckBeforeLateRecord(r) \/ (Record(r) /\ pc[r] # "record")
    <3>1. CASE Fail(r, "finish_late")
      BY <1>5, <3>1 DEF Holding
    <3>2. CASE ~Fail(r, "finish_late")
      <4>1. /\ UNCHANGED <<lock, threads>> /\ pc[r] \in {"finish_late", "record_late"}
            /\ pc'[r] \in {"finish_late", "record_late", "release"}
        BY <1>0, <2>3, <3>2 DEF CheckBeforeLateRecord, Record, Goto
      <4>2. over'[r]
        BY <4>1 DEF LateOver
      <4> QED  BY <1>4, <4>1, <4>2
    <3> QED  BY <3>1, <3>2
  <2>4. CASE Release(r)
    <3>1. CASE Fail(r, "release")
      BY <1>5, <3>1 DEF Holding
    <3>2. CASE ~Fail(r, "release")
      <4>1. /\ pc[r] = "release" /\ pc'[r] = "unlink" /\ idle'[r] = 0
            /\ UNCHANGED <<lock, lost, over, beatAge>>
            /\ beat'[r] = IF beat[r] = "wait" THEN "off" ELSE beat[r]
        BY <1>0, <2>4, <3>2 DEF Release, Goto
      <4> SUFFICES ASSUME Guarded(r)'
                   PROVE  FreshOpen(r)' /\ FreshWork(r)' /\ FreshUtime(r)' /\ FreshUnlink(r)'
        BY <4>1 DEF Fresh, LateOver
      <4>2. Guarded(r)
        BY <4>1 DEF Guarded, AtWork, Owns
      <4>3. FreshWork(r) /\ FreshUtime(r)
        BY <4>2 DEF Fresh
      <4>4. beat[r] # "off" /\ ~lost[r] /\ (beat[r] = "wait" => lock.age <= beatAge[r])
        BY <4>1, <4>3 DEF FreshWork, AtWork
      <4>5. FreshOpen(r)' /\ FreshWork(r)' /\ FreshUtime(r)'
        BY <4>1, <4>3, <4>4 DEF FreshOpen, FreshWork, FreshUtime, AtWork
      <4>6. FreshUnlink(r)'
        BY <1>0, <4>1, <4>4, AgesFit DEF FreshUnlink
      <4> QED  BY <4>5, <4>6
    <3> QED  BY <3>1, <3>2
  <2>5. CASE UnlinkHeartbeat(r)
    <3>1. CASE Fail(r, "unlink")
      BY <1>5, <3>1 DEF Holding
    <3>2. CASE ~Fail(r, "unlink")
      <4>1. pc'[r] = "rmdir" /\ lock'.age = 0 /\ idle'[r] = 0
        BY <1>0, <2>5, <3>2 DEF UnlinkHeartbeat, Goto, LockStates
      <4> QED  BY <1>2, <4>1
    <3> QED  BY <3>1, <3>2
  <2>6. CASE RemoveLock(r)
    <3>1. CASE Fail(r, "rmdir")
      BY <1>5, <3>1 DEF Holding
    <3>2. CASE ~Fail(r, "rmdir")
      <4>1. pc'[r] = "done"
        BY <1>0, <2>6, <3>2 DEF RemoveLock, Goto
      <4> QED  BY <1>1, <4>1 DEF AtWork
    <3> QED  BY <3>1, <3>2
  <2> QED
    BY <1>7, <2>1, <2>2, <2>3, <2>4, <2>5, <2>6 DEF HoldStep
<1>8. CASE Touch(r)
  <2>1. /\ UNCHANGED <<lock, pc, over, idle>> /\ beat[r] = "wait" /\ beatAge'[r] = 0
        /\ ~AssertOwned(r) => beat'[r] = "off"
        /\ AssertOwned(r) => beat'[r] = "utime" /\ lost'[r] = lost[r]
    BY <1>0, <1>8 DEF Touch
  <2> SUFFICES ASSUME Guarded(r)'
               PROVE  FreshOpen(r)' /\ FreshWork(r)' /\ FreshUtime(r)' /\ FreshUnlink(r)'
    BY <2>1 DEF Fresh, LateOver
  <2>2. Guarded(r) /\ pc[r] \in Holding \ {"unlink", "rmdir"}
    BY <1>0, <2>1 DEF Guarded, Owns
  <2>3. pc[r] \in AtWork
    BY <2>2 DEF Guarded, Holding
  <2>4. Owns(r) /\ ~over[r] /\ ~lost[r] /\ lock.age <= beatAge[r]
    BY <2>1, <2>2, <2>3 DEF Guarded, Fresh, FreshWork, AtWork
  <2>5. beat'[r] = "utime" /\ ~lost'[r]
    BY <2>1, <2>4 DEF AssertOwned
  <2> QED
    BY <1>0, <2>1, <2>3, <2>4, <2>5, AgesFit DEF FreshOpen, FreshWork, FreshUtime,
       FreshUnlink, AtWork
<1>9. CASE Utime(r)
  <2>1. /\ UNCHANGED <<pc, over, idle>> /\ beat[r] = "utime" /\ beatAge'[r] = 0
        /\ lock' = lock \/ lock'.age = 0
        /\ lock'.there = lock.there /\ lock'.owner = lock.owner
        /\ lock'.named = lock.named
    BY <1>0, <1>9 DEF Utime, LockStates
  <2> SUFFICES ASSUME Guarded(r)'
               PROVE  FreshOpen(r)' /\ FreshWork(r)' /\ FreshUtime(r)' /\ FreshUnlink(r)'
    BY <2>1 DEF Fresh, LateOver
  <2>2. Guarded(r)
    BY <2>1 DEF Guarded, Owns
  <2>3. CASE pc[r] \in {"open", "write", "undo", "rmdir"}
    <3>1. lock.age <= MaxPause + idle[r] /\ idle[r] \in Nat
          /\ (pc[r] # "undo" => lock.age <= idle[r])
      BY <1>0, <2>2, <2>3, AgesFit DEF Fresh, FreshOpen
    <3> QED
      BY <2>1, <2>3, <3>1, AgesFit DEF FreshOpen, FreshWork, FreshUtime, FreshUnlink,
         AtWork
  <2>4. CASE pc[r] \in AtWork \cup {"unlink"}
    <3>1. lock.there /\ lock.owner # Nobody /\ ~lost[r]
      BY <1>0, <2>1, <2>2, <2>4 DEF Guarded, Owns, Fresh, FreshUtime, AtWork
    <3>2. lock'.age = 0 /\ ~lost'[r]
      BY <1>0, <1>9, <3>1 DEF Utime, LockStates
    <3>3. beat'[r] = IF pc[r] = "unlink" THEN "off" ELSE "wait"
      BY <1>0, <1>9, <2>4, <3>1 DEF Utime, Released, AtWork, Ended
    <3> QED
      BY <1>0, <2>1, <2>4, <3>2, <3>3, AgesFit DEF FreshOpen, FreshWork, FreshUtime,
         FreshUnlink, AtWork
  <2> QED  BY <2>2, <2>3, <2>4 DEF Guarded
<1>10. CASE RunTooLong(r)
  <2>1. pc'[r] = pc[r] /\ over'[r] /\ pc[r] \notin {"open", "write", "undo", "rmdir"}
    BY <1>0, <1>10 DEF RunTooLong
  <2> QED  BY <1>4, <2>1
<1>11. CASE Crash(r)
  <2>1. pc'[r] = "dead"
    BY <1>0, <1>11 DEF Crash
  <2> QED  BY <1>1, <2>1 DEF AtWork
<1> QED  BY <1>6, <1>7, <1>8, <1>9, <1>10, <1>11 DEF RunStep

\* The age of a heartbeat grows no faster than the pauses it is compared with.
LEMMA TickFresh ==
  ASSUME LockTypeInv, PausesCovered, Tick, NEW r \in Runs, Fresh(r), LateOver(r)
  PROVE  Fresh(r)' /\ LateOver(r)'
<1>1. UNCHANGED <<pc, lost, beat, over>>
  BY DEF Tick
<1>2. /\ lock'.there = lock.there /\ lock'.owner = lock.owner /\ lock'.named = lock.named
      /\ lock.age \in Nat /\ lock'.age \in Nat /\ lock'.age <= lock.age + 1
  BY AgesFit DEF Tick, LockTypeInv, TypeOK
<1>3. idle[r] \in Nat /\ beatAge[r] \in Nat
  BY Typed
<1>4. pc[r] \in {"open", "write", "undo", "rmdir", "unlink"} => idle'[r] = idle[r] + 1
  BY DEF Tick, PausesCovered, MainPauses, Acquiring, Holding
<1>5. beat[r] # "off" => beatAge'[r] = beatAge[r] + 1
  BY DEF Tick, PausesCovered
<1>6. beat[r] = "utime" => beatAge[r] < MaxPause
  BY DEF Tick, PausesCovered
<1>7. LateOver(r)'
  BY <1>1 DEF LateOver
<1> SUFFICES ASSUME Guarded(r)'
             PROVE  FreshOpen(r)' /\ FreshWork(r)' /\ FreshUtime(r)' /\ FreshUnlink(r)'
  BY <1>7 DEF Fresh
<1>8. FreshOpen(r) /\ FreshWork(r) /\ FreshUtime(r) /\ FreshUnlink(r)
  BY <1>1, <1>2 DEF Guarded, Owns, Fresh
<1>9. FreshOpen(r)' /\ FreshWork(r)'
  BY <1>1, <1>2, <1>3, <1>4, <1>5, <1>8, AgesFit DEF FreshOpen, FreshWork
<1>10. FreshUtime(r)'
  BY <1>1, <1>2, <1>3, <1>5, <1>6, <1>8, AgesFit DEF FreshUtime
<1>11. FreshUnlink(r)'
  BY <1>1, <1>2, <1>3, <1>4, <1>8, AgesFit DEF FreshUnlink
<1> QED  BY <1>9, <1>10, <1>11

LEMMA AlwaysFresh ==
  ASSUME PausesCovered
  PROVE  Spec => [](LockTypeInv /\ AllFresh)
<1>1. Init => AllFresh
  BY DEF Init, AllFresh, Fresh, Guarded, LateOver, AtWork
<1>2. LockTypeInv /\ PastAcquire /\ AllFresh /\ [Next]_vars => AllFresh'
  <2> SUFFICES ASSUME LockTypeInv, PastAcquire, AllFresh, [Next]_vars, NEW s \in Runs
               PROVE  Fresh(s)' /\ LateOver(s)'
    BY DEF AllFresh
  <2>0. Fresh(s) /\ LateOver(s)
    BY DEF AllFresh
  <2>1. CASE UNCHANGED vars
    BY <2>0, <2>1 DEF vars, Fresh, Guarded, Owns, LateOver, FreshOpen, FreshWork,
       FreshUtime, FreshUnlink
  <2>2. CASE Tick
    BY <2>0, <2>2, TickFresh
  <2>3. ASSUME NEW r \in Runs, RunStep(r)  PROVE  Fresh(s)' /\ LateOver(s)'
    BY <2>0, <2>3, OthersFresh, OwnFresh
  <2> QED  BY <2>1, <2>2, <2>3 DEF Next
<1> QED  BY <1>1, <1>2, AlwaysTyped, AlwaysPastAcquire, PTL DEF Spec

-----------------------------------------------------------------------------
\* Takeover: who can lose a lock to a rename.

\* a lock that is about to be renamed away is nobody's who has time left, and
\* nobody is about to make it theirs
Doomed ==
    \A r, s \in Runs : pc[s] = "rename" =>
      /\ pc[r] = "open" => ~lock.there
      /\ pc[r] = "write" => ~(lock.there /\ lock.owner = r)
      /\ Owns(r) => over[r] \/ pc[r] \in Ended

\* How a run comes to be where Doomed looks.
LEMMA Arrivals ==
  ASSUME LockTypeInv, NEW r \in Runs, RunStep(r)
  PROVE  /\ pc'[r] = "rename" => pc[r] = "recheck" /\ IsStale /\ UNCHANGED <<lock, threads>>
         /\ pc'[r] = "open" => pc[r] = "mkdir"
         /\ pc'[r] = "write" => pc[r] = "open" /\ lock.there
         /\ Owns(r)' => \/ Owns(r)
                        \/ pc[r] = "open" /\ lock.there
                        \/ pc[r] = "write" /\ lock.there /\ lock.owner = r
         /\ lock'.there => lock.there \/ pc[r] = "mkdir"
         /\ pc[r] \in Ended => pc'[r] \in Ended
         /\ over[r] => over'[r]
<1>0. /\ lock \in LockStates /\ r # Nobody
      /\ pc \in [Runs -> Acquiring \cup Holding \cup Ended \cup {"new"}]
      /\ over \in [Runs -> BOOLEAN]
      /\ beat[r] # "off" => pc[r] \in Holding \cup Ended
  BY Typed DEF LockTypeInv, BeatAfterAcquire
<1>1. CASE StartAcquire(r) \/ ReadAge(r) \/ Recheck(r)
  BY <1>0, <1>1 DEF StartAcquire, ReadAge, Recheck, Goto, Owns, Ended
<1>2. CASE MakeGuard(r) \/ ReadGuardAge(r) \/ RemoveGuard(r)
  BY <1>0, <1>2 DEF MakeGuard, ReadGuardAge, RemoveGuard, Goto, Owns, Ended
<1>3. CASE MakeLock(r)
  BY <1>0, <1>3 DEF MakeLock, NoLock, Goto, Owns, Ended
<1>4. CASE RenameLock(r) \/ UndoLock(r)
  BY <1>0, <1>4 DEF RenameLock, UndoLock, NoLock, Goto, Owns, Ended
<1>5. CASE CreateHeartbeat(r) \/ WriteHeartbeat(r) \/ FailHeartbeat(r)
  BY <1>0, <1>5 DEF CreateHeartbeat, WriteHeartbeat, FailHeartbeat, Goto, Owns, Ended,
     LockStates
<1>6. CASE HoldStep(r)
  <2>1. over' = over
    BY <1>6 DEF HoldStep, CheckBeforeStore, Store, EndWork, CheckBeforeRecord,
       CheckBeforeLateRecord, Record, Release, UnlinkHeartbeat, RemoveLock, Fail
  <2>2. pc[r] \in Holding /\ pc'[r] \in Holding \cup {"done", "failed"}
    BY <1>0, <1>6 DEF HoldStep, CheckBeforeStore, Store, EndWork, CheckBeforeRecord,
       CheckBeforeLateRecord, Record, Release, UnlinkHeartbeat, RemoveLock, Fail,
       Goto, Holding
  <2>3. (lock'.there => lock.there) /\ (Owns(r)' => Owns(r))
    <3>0. CASE lock' = lock
      BY <3>0 DEF Owns
    <3>1. CASE UnlinkHeartbeat(r) \/ RemoveLock(r)
      <4>1. \/ lock' = [lock EXCEPT !.owner = Nobody, !.named = FALSE, !.age = 0]
            \/ lock' = NoLock \/ lock' = lock
        BY <3>1 DEF UnlinkHeartbeat, RemoveLock, Fail
      <4>2. CASE lock' = [lock EXCEPT !.owner = Nobody, !.named = FALSE, !.age = 0]
        BY <1>0, <4>2 DEF Owns, LockStates
      <4>3. CASE lock' = NoLock
        BY <4>3 DEF NoLock, Owns
      <4> QED  BY <3>0, <4>1, <4>2, <4>3
    <3>2. CASE ~UnlinkHeartbeat(r) /\ ~RemoveLock(r)
      <4>1. lock' = lock
        BY <1>6, <3>2 DEF HoldStep, CheckBeforeStore, Store, EndWork,
           CheckBeforeRecord, CheckBeforeLateRecord, Record, Release, Fail
      <4> QED  BY <4>1 DEF Owns
    <3> QED  BY <3>1, <3>2
  <2> QED  BY <2>1, <2>2, <2>3 DEF Holding, Ended
<1>7. CASE Touch(r) \/ Utime(r)
  <2>1. pc' = pc /\ over' = over /\ pc[r] \in Holding \cup Ended
    BY <1>0, <1>7 DEF Touch, Utime
  <2>2. lock'.there = lock.there /\ lock'.owner = lock.owner /\ lock'.named = lock.named
    BY <1>0, <1>7 DEF Touch, Utime, LockStates
  <2> QED  BY <2>1, <2>2 DEF Owns, Holding, Ended
<1>8. CASE RunTooLong(r)
  BY <1>0, <1>8 DEF RunTooLong, Owns, Ended
<1>9. CASE Crash(r)
  BY <1>0, <1>9 DEF Crash, Owns, Ended
<1> QED
  BY <1>1, <1>2, <1>3, <1>4, <1>5, <1>6, <1>7, <1>8, <1>9 DEF RunStep, AcquireStep

LEMMA DoomedStep ==
  ASSUME LockTypeInv, AllFresh, PastAcquire, PausesCovered, OneWaits, Doomed,
         NEW q \in Runs, RunStep(q)
  PROVE  Doomed'
<1> SUFFICES ASSUME NEW r \in Runs, NEW s \in Runs, pc'[s] = "rename"
             PROVE  /\ pc'[r] = "open" => ~lock'.there
                    /\ pc'[r] = "write" => ~(lock'.there /\ lock'.owner = r)
                    /\ Owns(r)' => over'[r] \/ pc'[r] \in Ended
  BY DEF Doomed
<1>0. \A p \in Runs : p # q => pc'[p] = pc[p] /\ over'[p] = over[p]
  BY Frame
<1>1. CASE s = q
  <2>1. pc[q] = "recheck" /\ IsStale /\ lock' = lock /\ over' = over
    BY <1>1, Arrivals
  <2>2. ~Guarded(r) /\ LateOver(r)
    BY <2>1, NeverStale DEF AllFresh
  <2>3. CASE r = q
    <3>1. lock.owner # r
      BY <2>1, <2>3 DEF PastAcquire, Holding, Ended
    <3> QED  BY <1>1, <2>1, <2>3, <3>1 DEF Owns
  <2>4. CASE r # q
    <3>1. pc'[r] = pc[r]
      BY <1>0, <2>4
    <3>2. Owns(r) => pc[r] \in {"write", "undo"} \cup Holding \cup Ended
      BY DEF PastAcquire, Owns
    <3>3. Owns(r) => over[r] \/ pc[r] \in Ended
      BY <2>2, <3>2 DEF Guarded, Owns, LateOver, Holding, AtWork
    <3> QED  BY <2>1, <2>2, <3>1, <3>3 DEF Guarded, Owns
  <2> QED  BY <2>3, <2>4
<1>2. CASE s # q
  <2>1. pc[s] = "rename"
    BY <1>0, <1>2
  <2>2. pc[q] # "mkdir"
    BY <1>2, <2>1 DEF OneWaits, Contends
  <2>3. /\ pc[r] = "open" => ~lock.there
        /\ pc[r] = "write" => ~(lock.there /\ lock.owner = r)
        /\ Owns(r) => over[r] \/ pc[r] \in Ended
    BY <2>1 DEF Doomed
  <2>4. lock'.there => lock.there
    BY <2>2, Arrivals
  <2>5. CASE r = q
    BY <2>2, <2>3, <2>5, Arrivals
  <2>6. CASE r # q
    <3>1. /\ lock'.there /\ lock'.owner = r => lock.there /\ lock.owner = r
          /\ Owns(r)' => Owns(r)
      BY <2>6, LockChange DEF Owns
    <3> QED  BY <1>0, <2>3, <2>4, <2>6, <3>1
  <2> QED  BY <2>5, <2>6
<1> QED  BY <1>1, <1>2

LEMMA AlwaysDoomed ==
  ASSUME PausesCovered
  PROVE  Spec /\ []OneWaits => []Doomed
<1>1. Init => Doomed
  BY DEF Init, Doomed
<1>2. LockTypeInv /\ AllFresh /\ PastAcquire /\ OneWaits /\ Doomed /\ [Next]_vars
        => Doomed'
  <2> SUFFICES ASSUME LockTypeInv, AllFresh, PastAcquire, OneWaits, Doomed, [Next]_vars
               PROVE  Doomed'
    OBVIOUS
  <2>1. CASE UNCHANGED vars
    BY <2>1 DEF vars, Doomed, Owns
  <2>2. CASE Tick
    <3>1. /\ UNCHANGED <<pc, over>>
          /\ lock'.there = lock.there /\ lock'.owner = lock.owner
          /\ lock'.named = lock.named
      BY <2>2, Typed DEF Tick, LockStates
    <3> QED  BY <3>1 DEF Doomed, Owns
  <2> QED  BY <2>1, <2>2, DoomedStep DEF Next
<1> QED  BY <1>1, <1>2, AlwaysFresh, AlwaysPastAcquire, PTL DEF Spec

\* The only step that takes a lock away from its named owner is the rename.
LEMMA OnlyRenameTakes ==
  ASSUME LockTypeInv, [Next]_vars, NEW r \in Runs, Owns(r), ~lock'.there
  PROVE  \E s \in Runs : pc[s] = "rename"
<1>0. lock \in LockStates /\ lock.there /\ lock.owner = r /\ lock.owner # Nobody
  BY LockAssumption DEF LockTypeInv, TypeOK, LockStates, Owns
<1>1. ASSUME lock' = lock  PROVE  FALSE
  BY <1>0, <1>1
<1>2. ASSUME NEW s \in Runs, RunStep(s)  PROVE  pc[s] = "rename"
  <2>1. CASE AcquireStep(s)
    <3>1. CASE MakeLock(s) \/ UndoLock(s)
      BY <1>0, <1>1, <3>1 DEF MakeLock, UndoLock
    <3>2. CASE RenameLock(s)
      BY <3>2 DEF RenameLock, Goto
    <3>3. CASE CreateHeartbeat(s) \/ WriteHeartbeat(s) \/ FailHeartbeat(s)
      BY <1>0, <3>3 DEF CreateHeartbeat, WriteHeartbeat, FailHeartbeat, LockStates
    <3> QED
      BY <1>1, <2>1, <3>1, <3>2, <3>3 DEF AcquireStep, ReadAge, Recheck, MakeGuard,
         ReadGuardAge, RemoveGuard
  <2>2. CASE HoldStep(s)
    <3>1. CASE UnlinkHeartbeat(s) \/ RemoveLock(s)
      BY <1>0, <1>1, <3>1 DEF UnlinkHeartbeat, RemoveLock, Fail, LockStates
    <3> QED
      BY <1>1, <2>2, <3>1 DEF HoldStep, CheckBeforeStore, Store, EndWork,
         CheckBeforeRecord, CheckBeforeLateRecord, Record, Release, Fail
  <2>3. CASE Utime(s)
    BY <1>0, <2>3 DEF Utime, LockStates
  <2>4. CASE StartAcquire(s) \/ Touch(s) \/ RunTooLong(s) \/ Crash(s)
    BY <1>1, <2>4 DEF StartAcquire, Touch, RunTooLong, Crash
  <2> QED  BY <1>2, <2>1, <2>2, <2>3, <2>4 DEF RunStep
<1>3. CASE Tick
  BY <1>0, <1>3 DEF Tick, LockStates
<1> QED  BY <1>1, <1>2, <1>3 DEF Next, vars

\* With any number of runs that wait for a lock one at a time, and pauses that
\* stale_after covers, no step removes the lock of a run that is neither gone nor
\* out of time (DirectoryLock.acquire, its rename).
THEOREM TakeoverOnlyOfDead ==
  ASSUME PausesCovered
  PROVE  Spec /\ []OneWaits => OnlyDeadTakenOver
<1>1. ASSUME LockTypeInv, Doomed, [Next]_vars, NEW r \in Runs, Owns(r), ~lock'.there
      PROVE  pc[r] \in Ended \/ over[r]
  BY <1>1, OnlyRenameTakes DEF Doomed
<1>2. LockTypeInv /\ Doomed /\ [Next]_vars =>
        [\A r \in Runs : Owns(r) /\ ~lock'.there => pc[r] \in Ended \/ over[r]]_vars
  BY <1>1
<1> QED
  BY <1>2, AlwaysTyped, AlwaysDoomed, PTL DEF Spec, OnlyDeadTakenOver

-----------------------------------------------------------------------------
\* Fencing, as long as no run is out of time.

\* from mkdir of .lock until its rmdir
Inside == AtWork \cup {"open", "write", "undo", "unlink", "rmdir"}

InTime == \A r \in Runs : ~over[r]

\* what a run inside the lock finds there
HeldLock(r) ==
    /\ pc[r] \in Inside => lock.there
    /\ pc[r] \in {"open", "rmdir"} => lock.owner = Nobody
    /\ pc[r] \in {"write", "undo"} => lock.owner = r
    /\ pc[r] \in AtWork \cup {"unlink"} => Owns(r)

\* nothing surprises a run on its way
OneWay(r) == pc[r] \notin {"finish_late", "record_late"}

OneInside == \A r, s \in Runs : pc[r] \in Inside /\ pc[s] \in Inside => r = s

\* a lock is renamed away only when nobody is inside
Left == \A r, s \in Runs : pc[s] = "rename" => pc[r] \notin Inside

Calm ==
    /\ \A r \in Runs : HeldLock(r) /\ OneWay(r)
    /\ OneInside /\ Left

LockInv == InTime => Calm

LEMMA InsideGuarded ==
  ASSUME AllFresh, Calm, InTime, NEW r \in Runs, pc[r] \in Inside
  PROVE  Guarded(r) /\ FreshOpen(r) /\ FreshWork(r) /\ FreshUtime(r) /\ FreshUnlink(r)
<1>1. Guarded(r)
  BY DEF Calm, HeldLock, InTime, Inside, Guarded
<1> QED  BY <1>1 DEF AllFresh, Fresh

\* A run that is out of time stays so.
LEMMA InTimeBefore == LockTypeInv /\ [Next]_vars /\ InTime' => InTime
<1> SUFFICES ASSUME LockTypeInv, [Next]_vars, InTime', NEW r \in Runs  PROVE  ~over[r]
  BY DEF InTime
<1>1. over' = over \/ \E s \in Runs : RunTooLong(s)
  BY DEF Next, vars, Tick, RunStep, StartAcquire, AcquireStep, MakeLock, ReadAge,
     MakeGuard, ReadGuardAge, RemoveGuard, Recheck, RenameLock, CreateHeartbeat,
     UndoLock, WriteHeartbeat, FailHeartbeat, HoldStep, CheckBeforeStore, Store,
     EndWork, CheckBeforeRecord, CheckBeforeLateRecord, Record, Release, UnlinkHeartbeat,
     RemoveLock, Touch, Utime, Crash, Fail
<1>2. ASSUME NEW s \in Runs, RunTooLong(s)  PROVE  FALSE
  <2>1. over'[s]
    BY <1>2 DEF RunTooLong, LockTypeInv, TypeOK
  <2> QED  BY <2>1 DEF InTime
<1> QED  BY <1>1, <1>2 DEF InTime

\* As long as the lock holds, no ownership check fails.
LEMMA HoldOutcome ==
  ASSUME LockTypeInv, AllFresh, Calm, InTime, NEW r \in Runs, HoldStep(r)
  PROVE  \/ /\ pc[r] \in AtWork /\ UNCHANGED <<lock, threads>>
            /\ \E to \in AtWork : Goto(r, pc[r], to)
         \/ /\ Goto(r, "release", "unlink") /\ UNCHANGED <<lock, lost, over, beatAge>>
            /\ beat' = [beat EXCEPT ![r] = IF @ = "wait" THEN "off" ELSE @]
         \/ /\ Goto(r, "unlink", "rmdir") /\ UNCHANGED threads
            /\ lock' = [lock EXCEPT !.owner = Nobody, !.named = FALSE, !.age = 0]
         \/ Goto(r, "rmdir", "done") /\ lock' = NoLock /\ UNCHANGED threads
<1>1. ~over[r] /\ HeldLock(r) /\ OneWay(r)
  BY DEF InTime, Calm
<1>2. ASSUME pc[r] \in AtWork \cup {"unlink"}
      PROVE  Owns(r) /\ AssertOwned(r) /\ AssertCurrentOwner(r)
  <2>1. Owns(r) /\ ~lost[r]
    BY <1>1, <1>2, InsideGuarded DEF HeldLock, Fresh, FreshWork, FreshUnlink, Inside
  <2> QED  BY <1>1, <2>1 DEF AssertOwned, AssertCurrentOwner
<1>3. /\ pc[r] = "unlink" => lock.there /\ lock.owner # Nobody
      /\ pc[r] = "rmdir" => lock.there /\ lock.owner = Nobody
  BY <1>1, <1>2, LockAssumption DEF HeldLock, Owns, Inside
<1>4. CASE \/ CheckBeforeStore(r) \/ CheckBeforeRecord(r) \/ CheckBeforeLateRecord(r)
           \/ Store(r) \/ EndWork(r) \/ Record(r)
  BY <1>1, <1>2, <1>4 DEF CheckBeforeStore, CheckBeforeRecord, CheckBeforeLateRecord,
     Store, EndWork, Record, Fail, Goto, AtWork, OneWay
<1>5. CASE Release(r)
  BY <1>2, <1>5 DEF Release, Fail, Goto, AtWork
<1>6. CASE UnlinkHeartbeat(r) \/ RemoveLock(r)
  BY <1>3, <1>6 DEF UnlinkHeartbeat, RemoveLock, Fail, Goto
<1> QED  BY <1>4, <1>5, <1>6 DEF HoldStep

\* Where a run goes next.
LEMMA Moves ==
  ASSUME LockTypeInv, AllFresh, Calm, InTime, NEW r \in Runs, RunStep(r)
  PROVE  /\ pc[r] \in Ended => pc'[r] \in Ended
         /\ pc[r] \in Inside => pc'[r] \in Inside \cup Ended
         /\ pc'[r] \in Inside => pc[r] \in Inside \/ (pc[r] = "mkdir" /\ ~lock.there)
         /\ OneWay(r)'
<1>0. pc \in [Runs -> Acquiring \cup Holding \cup Ended \cup {"new"}]
  BY DEF LockTypeInv, TypeOK
<1>1. HeldLock(r) /\ OneWay(r)
  BY DEF Calm
<1>2. CASE StartAcquire(r)
  BY <1>0, <1>2 DEF StartAcquire, Goto, Ended, Inside, AtWork, OneWay
<1>3. CASE AcquireStep(r)
  <2>1. CASE MakeLock(r)
    BY <1>0, <2>1 DEF MakeLock, Goto, Ended, Inside, AtWork, OneWay
  <2>2. CASE ReadAge(r) \/ Recheck(r)
    BY <1>0, <2>2 DEF ReadAge, Recheck, Goto, Ended, Inside, AtWork, OneWay
  <2>3. CASE MakeGuard(r) \/ ReadGuardAge(r) \/ RemoveGuard(r)
    BY <1>0, <2>3 DEF MakeGuard, ReadGuardAge, RemoveGuard, Goto, Ended, Inside,
       AtWork, OneWay
  <2>4. CASE RenameLock(r)
    BY <1>0, <2>4 DEF RenameLock, Goto, Ended, Inside, AtWork, OneWay
  <2>5. CASE CreateHeartbeat(r)
    BY <1>0, <1>1, <2>5 DEF CreateHeartbeat, HeldLock, Goto, Ended, Inside, AtWork,
       OneWay
  <2>6. CASE UndoLock(r)
    BY <1>0, <2>6 DEF UndoLock, Goto, Ended, Inside, AtWork, OneWay
  <2>7. CASE WriteHeartbeat(r) \/ FailHeartbeat(r)
    BY <1>0, <2>7 DEF WriteHeartbeat, FailHeartbeat, Goto, Ended, Inside, AtWork, OneWay
  <2> QED
    BY <1>3, <2>1, <2>2, <2>3, <2>4, <2>5, <2>6, <2>7 DEF AcquireStep
<1>4. CASE HoldStep(r)
  BY <1>0, <1>4, HoldOutcome DEF Goto, Ended, Inside, AtWork, OneWay
<1>5. CASE Touch(r) \/ Utime(r) \/ RunTooLong(r)
  BY <1>1, <1>5 DEF Touch, Utime, RunTooLong, OneWay, Inside, Ended
<1>6. CASE Crash(r)
  BY <1>0, <1>6 DEF Crash, Ended, Inside, AtWork, OneWay
<1> QED  BY <1>2, <1>3, <1>4, <1>5, <1>6 DEF RunStep

\* What a run does to the lock: it touches it, makes it where there is none,
\* removes it under "rename", or is inside.
LEMMA LockEffect ==
  ASSUME LockTypeInv, AllFresh, Calm, InTime, NEW r \in Runs, RunStep(r)
  PROVE  \/ lock' = lock \/ lock' = [lock EXCEPT !.age = 0]
         \/ pc[r] = "mkdir" /\ ~lock.there /\ pc'[r] = "open"
         \/ pc[r] = "rename" /\ lock' = NoLock
         \/ pc[r] \in Inside /\ (lock'.there => lock.there)
<1>0. pc \in [Runs -> Acquiring \cup Holding \cup Ended \cup {"new"}]
      /\ lock \in LockStates
  BY DEF LockTypeInv, TypeOK, LockStates
<1>1. HeldLock(r) /\ OneWay(r)
  BY DEF Calm
<1>3. CASE AcquireStep(r)
  <2>1. CASE MakeLock(r)
    BY <1>0, <2>1 DEF MakeLock, Goto
  <2>2. CASE RenameLock(r)
    BY <2>2 DEF RenameLock, Goto
  <2>3. CASE CreateHeartbeat(r) \/ WriteHeartbeat(r) \/ FailHeartbeat(r)
    BY <1>0, <2>3 DEF CreateHeartbeat, WriteHeartbeat, FailHeartbeat, Goto, Inside,
       LockStates
  <2>4. CASE UndoLock(r)
    BY <1>1, <2>4, LockAssumption DEF UndoLock, Goto, HeldLock
  <2> QED
    BY <1>3, <2>1, <2>2, <2>3, <2>4 DEF AcquireStep, ReadAge, Recheck, MakeGuard,
       ReadGuardAge, RemoveGuard
<1>4. CASE HoldStep(r)
  <2>1. ASSUME lock' = [lock EXCEPT !.owner = Nobody, !.named = FALSE, !.age = 0]
        PROVE  lock'.there = lock.there
    BY <1>0, <2>1 DEF LockStates
  <2>2. ~NoLock.there
    BY DEF NoLock
  <2>3. \/ UNCHANGED lock
        \/ /\ pc[r] = "unlink"
           /\ lock' = [lock EXCEPT !.owner = Nobody, !.named = FALSE, !.age = 0]
        \/ pc[r] = "rmdir" /\ lock' = NoLock
    BY <1>4, HoldOutcome DEF Goto
  <2> QED  BY <2>1, <2>2, <2>3 DEF Inside
<1>5. CASE StartAcquire(r) \/ Touch(r) \/ Utime(r) \/ RunTooLong(r) \/ Crash(r)
  BY <1>5 DEF StartAcquire, Touch, Utime, RunTooLong, Crash
<1> QED  BY <1>3, <1>4, <1>5 DEF RunStep

\* Nobody disturbs the lock of a run inside.
LEMMA OthersKeep ==
  ASSUME LockTypeInv, AllFresh, Calm, InTime, NEW r \in Runs, RunStep(r),
         NEW s \in Runs, s # r
  PROVE  HeldLock(s)' /\ OneWay(s)'
<1>1. pc'[s] = pc[s]
  BY Frame
<1>2. HeldLock(s) /\ OneWay(s) /\ HeldLock(r)
  BY DEF Calm
<1>3. CASE pc[s] \in Inside
  <2>1. lock' = lock \/ lock' = [lock EXCEPT !.age = 0]
    <3>1. lock.there /\ pc[r] \notin Inside
      BY <1>2, <1>3 DEF HeldLock, Calm, OneInside
    <3>2. pc[r] # "rename"
      BY <1>3 DEF Calm, Left
    <3> QED  BY <3>1, <3>2, LockEffect
  <2>2. /\ lock'.there = lock.there /\ lock'.owner = lock.owner
        /\ lock'.named = lock.named
    BY <2>1 DEF LockTypeInv, TypeOK
  <2> QED  BY <1>1, <1>2, <2>2 DEF HeldLock, Owns, OneWay
<1>4. CASE pc[s] \notin Inside
  BY <1>1, <1>2, <1>4 DEF HeldLock, OneWay, Inside
<1> QED  BY <1>3, <1>4

\* A run inside finds its lock as it left it.
LEMMA OwnKeeps ==
  ASSUME LockTypeInv, AllFresh, Calm, InTime, NEW r \in Runs, RunStep(r)
  PROVE  HeldLock(r)'
<1>0. /\ lock \in LockStates /\ r # Nobody
      /\ pc \in [Runs -> Acquiring \cup Holding \cup Ended \cup {"new"}]
  BY Typed
<1>1. HeldLock(r) /\ OneWay(r) /\ ~over[r]
  BY DEF Calm, InTime
<1>2. ASSUME pc'[r] \notin Inside  PROVE  HeldLock(r)'
  BY <1>2 DEF HeldLock, Inside
<1>3. CASE StartAcquire(r) \/ AcquireStep(r)
  <2>1. CASE MakeLock(r)
    BY <1>0, <1>2, <2>1 DEF MakeLock, Goto, HeldLock, Inside, AtWork, NoLock
  <2>2. CASE CreateHeartbeat(r)
    <3>1. /\ Goto(r, "open", "write")
          /\ lock' = [lock EXCEPT !.owner = r, !.age = 0]
      BY <1>1, <2>2 DEF CreateHeartbeat, HeldLock, Goto, Inside
    <3>2. pc'[r] = "write" /\ lock.there
      BY <1>0, <1>1, <3>1 DEF Goto, HeldLock, Inside
    <3>3. lock'.there /\ lock'.owner = r
      BY <1>0, <3>1, <3>2 DEF LockStates
    <3> QED  BY <3>2, <3>3 DEF HeldLock, AtWork
  <2>3. CASE WriteHeartbeat(r)
    <3>1. /\ Goto(r, "write", "work") /\ lock.there /\ lock.owner = r
          /\ lock' = [lock EXCEPT !.named = TRUE, !.age = 0]
      BY <1>1, <2>3 DEF WriteHeartbeat, HeldLock, Goto, Inside
    <3> QED
      BY <1>0, <3>1 DEF Goto, HeldLock, Owns, Inside, AtWork, LockStates
  <2>4. CASE FailHeartbeat(r)
    <3>1. pc[r] = "write" /\ pc'[r] = "undo" /\ lock.there /\ lock.owner = r
      BY <1>0, <1>1, <2>4 DEF FailHeartbeat, HeldLock, Goto, Inside
    <3>2. lock'.there /\ lock'.owner = r
      BY <1>0, <2>4, <3>1 DEF FailHeartbeat, LockStates
    <3> QED  BY <3>1, <3>2 DEF HeldLock, AtWork
  <2>5. CASE /\ ~MakeLock(r) /\ ~CreateHeartbeat(r)
             /\ ~WriteHeartbeat(r) /\ ~FailHeartbeat(r)
    <3>1. pc'[r] \in {"mkdir", "failed", "held"} \cup Contends
      BY <1>0, <1>3, <2>5 DEF StartAcquire, AcquireStep, ReadAge, MakeGuard,
         ReadGuardAge, RemoveGuard, Recheck, RenameLock, UndoLock, Goto, Contends
    <3> QED  BY <1>2, <3>1 DEF Contends, Inside, AtWork
  <2> QED  BY <2>1, <2>2, <2>3, <2>4, <2>5
<1>4. CASE HoldStep(r)
  <2>1. CASE /\ pc[r] \in AtWork /\ UNCHANGED <<lock, threads>>
             /\ \E to \in AtWork : Goto(r, pc[r], to)
    BY <1>0, <1>1, <2>1 DEF Goto, HeldLock, Owns, Inside, AtWork
  <2>2. CASE Goto(r, "release", "unlink") /\ lock' = lock
    BY <1>0, <1>1, <2>2 DEF Goto, HeldLock, Owns, Inside, AtWork
  <2>3. CASE /\ Goto(r, "unlink", "rmdir") /\ UNCHANGED threads
             /\ lock' = [lock EXCEPT !.owner = Nobody, !.named = FALSE, !.age = 0]
    BY <1>0, <1>1, <2>3 DEF Goto, HeldLock, Inside, AtWork, LockStates
  <2>4. CASE Goto(r, "rmdir", "done") /\ lock' = NoLock /\ UNCHANGED threads
    BY <1>0, <1>2, <2>4 DEF Goto, Inside, AtWork
  <2> QED  BY <1>4, <2>1, <2>2, <2>3, <2>4, HoldOutcome
<1>5. CASE Touch(r) \/ Utime(r) \/ RunTooLong(r)
  <2>1. /\ pc' = pc /\ lock'.there = lock.there /\ lock'.owner = lock.owner
        /\ lock'.named = lock.named
    BY <1>0, <1>5 DEF Touch, Utime, RunTooLong, LockStates
  <2> QED  BY <1>1, <2>1 DEF HeldLock, Owns
<1>6. CASE Crash(r)
  <2>1. pc'[r] = "dead"
    BY <1>0, <1>6 DEF Crash
  <2> QED  BY <1>2, <2>1 DEF Inside, AtWork
<1> QED  BY <1>3, <1>4, <1>5, <1>6 DEF RunStep

LEMMA RunCalm ==
  ASSUME LockTypeInv, AllFresh, Calm, InTime, OneWaits, PausesCovered,
         NEW r \in Runs, RunStep(r)
  PROVE  Calm'
<1>1. \A s \in Runs : HeldLock(s)' /\ OneWay(s)'
  BY OthersKeep, OwnKeeps, Moves
<1>2. \A s \in Runs : s # r => pc'[s] = pc[s]
  BY Frame
<1>3. \A s \in Runs : pc[s] \in Inside => lock.there
  BY DEF Calm, HeldLock
<1>4. OneInside'
  BY <1>2, <1>3, Moves DEF Calm, OneInside
<1>5. Left'
  <2> SUFFICES ASSUME NEW p \in Runs, NEW q \in Runs, pc'[q] = "rename"
               PROVE  pc'[p] \notin Inside
    BY DEF Left
  <2>1. CASE p = q
    BY <2>1 DEF Inside, AtWork
  <2>2. CASE p # q /\ q = r
    <3>1. IsStale /\ pc'[p] = pc[p]
      BY <1>2, <2>2, Arrivals
    <3>2. pc[p] \in Inside => ~IsStale
      BY InsideGuarded, NeverStale DEF AllFresh
    <3> QED  BY <3>1, <3>2
  <2>3. CASE p # q /\ q # r
    <3>1. pc[q] = "rename"
      BY <1>2, <2>3
    <3>2. pc[p] \notin Inside
      BY <3>1 DEF Calm, Left
    <3>3. pc[r] # "mkdir"
      BY <2>3, <3>1 DEF OneWaits, Contends
    <3> QED  BY <1>2, <3>2, <3>3, Moves
  <2> QED  BY <2>1, <2>2, <2>3
<1> QED  BY <1>1, <1>4, <1>5 DEF Calm

LEMMA AlwaysCalm ==
  ASSUME PausesCovered
  PROVE  Spec /\ []OneWaits => []LockInv
<1>1. Init => LockInv
  BY DEF Init, NoLock, LockInv, Calm, HeldLock, OneWay, OneInside, Left, Inside, AtWork
<1>2. LockTypeInv /\ AllFresh /\ OneWaits /\ LockInv /\ [Next]_vars => LockInv'
  <2> SUFFICES ASSUME LockTypeInv, AllFresh, OneWaits, LockInv, [Next]_vars, InTime'
               PROVE  Calm'
    BY DEF LockInv
  <2>1. InTime /\ Calm
    BY InTimeBefore DEF LockInv
  <2>2. CASE UNCHANGED vars
    BY <2>1, <2>2 DEF vars, Calm, HeldLock, Owns, OneWay, OneInside, Left
  <2>3. CASE Tick
    <3>1. /\ pc' = pc /\ lock'.there = lock.there /\ lock'.owner = lock.owner
          /\ lock'.named = lock.named
      BY <2>3, Typed DEF Tick, LockStates
    <3> QED  BY <2>1, <3>1 DEF Calm, HeldLock, Owns, OneWay, OneInside, Left
  <2>4. ASSUME NEW r \in Runs, RunStep(r)  PROVE  Calm'
    BY <2>1, <2>4, RunCalm
  <2> QED  BY <2>2, <2>3, <2>4 DEF Next
<1> QED  BY <1>1, <1>2, AlwaysFresh, PTL DEF Spec

\* With any number of runs that wait for a lock one at a time, and pauses that
\* stale_after covers, a run whose ownership check has passed still owns the lock
\* when it writes, as long as no run is out of time (DirectoryLock.assert_owned
\* before each durable write).
THEOREM WritesFenced ==
  ASSUME PausesCovered
  PROVE  Spec /\ []OneWaits => []FencedStores
<1>1. LockInv => FencedStores
  BY DEF LockInv, InTime, Calm, HeldLock, FencedStores, AtWork
<1> QED  BY <1>1, AlwaysCalm, PTL

\* Under the same conditions a run that releases unlinks its own heartbeat and
\* removes its own directory (DirectoryLock.release).
THEOREM ReleaseIsOwn ==
  ASSUME PausesCovered
  PROVE  Spec /\ []OneWaits => []ReleasesOwnLock
<1>1. LockInv => ReleasesOwnLock
  BY DEF LockInv, InTime, Calm, HeldLock, ReleasesOwnLock, Inside
<1> QED  BY <1>1, AlwaysCalm, PTL

-----------------------------------------------------------------------------
\* Two runs always wait one at a time: a lock one of them has seen was made by
\* the other.

TwoRuns == \A p, q, r \in Runs : p = q \/ q = r \/ p = r

\* the runs that have not made a lock yet
Before == Contends \cup {"new", "mkdir"}

SeenIsOthers ==
    /\ lock.there => \E r \in Runs : pc[r] \notin Before
    /\ \A r, s \in Runs : r # s /\ pc[r] \in Contends => pc[s] \notin Before

LEMMA Onward ==
  ASSUME LockTypeInv, NEW r \in Runs, RunStep(r)
  PROVE  /\ pc[r] \notin Before => pc'[r] \notin Before
         /\ pc'[r] \in Contends => pc[r] \in Contends \/ (pc[r] = "mkdir" /\ lock.there)
         /\ pc[r] = "mkdir" /\ ~lock.there => pc'[r] \notin Before
<1>0. pc \in [Runs -> Acquiring \cup Holding \cup Ended \cup {"new"}]
      /\ (beat[r] # "off" => pc[r] \in Holding \cup Ended)
  BY Typed DEF LockTypeInv, BeatAfterAcquire
<1>1. CASE StartAcquire(r) \/ ReadAge(r) \/ Recheck(r) \/ RenameLock(r)
  BY <1>0, <1>1 DEF StartAcquire, ReadAge, Recheck, RenameLock, Goto, Before, Contends
<1>2. CASE MakeLock(r)
  BY <1>0, <1>2 DEF MakeLock, Goto, Before, Contends
<1>3. CASE MakeGuard(r) \/ ReadGuardAge(r) \/ RemoveGuard(r)
  BY <1>0, <1>3 DEF MakeGuard, ReadGuardAge, RemoveGuard, Goto, Before, Contends
<1>4. CASE CreateHeartbeat(r) \/ UndoLock(r) \/ WriteHeartbeat(r) \/ FailHeartbeat(r)
  BY <1>0, <1>4 DEF CreateHeartbeat, UndoLock, WriteHeartbeat, FailHeartbeat, Goto,
     Before, Contends
<1>5. CASE HoldStep(r)
  <2>1. pc[r] \in Holding /\ pc'[r] \in Holding \cup {"done", "failed"}
    BY <1>0, <1>5 DEF HoldStep, CheckBeforeStore, Store, EndWork, CheckBeforeRecord,
       CheckBeforeLateRecord, Record, Release, UnlinkHeartbeat, RemoveLock, Fail,
       Goto, Holding
  <2> QED  BY <2>1 DEF Holding, Before, Contends
<1>6. CASE Touch(r) \/ Utime(r) \/ RunTooLong(r)
  BY <1>0, <1>6 DEF Touch, Utime, RunTooLong, Holding, Ended, Before, Contends
<1>7. CASE Crash(r)
  BY <1>0, <1>7 DEF Crash, Before, Contends
<1> QED
  BY <1>1, <1>2, <1>3, <1>4, <1>5, <1>6, <1>7 DEF RunStep, AcquireStep

\* Of two runs no second one is acquiring a lock while one waits for a lock it has
\* seen (DirectoryLock.acquire): for two runs the conditions of the theorems above
\* are pauses alone.
THEOREM TwoRunsTakeTurns ==
  ASSUME TwoRuns
  PROVE  Spec => []OneWaits
<1>1. Init => SeenIsOthers
  BY DEF Init, NoLock, SeenIsOthers, Contends
<1>2. LockTypeInv /\ SeenIsOthers /\ [Next]_vars => SeenIsOthers'
  <2> SUFFICES ASSUME LockTypeInv, SeenIsOthers, [Next]_vars  PROVE  SeenIsOthers'
    OBVIOUS
  <2>1. CASE UNCHANGED vars
    BY <2>1 DEF vars, SeenIsOthers
  <2>2. CASE Tick
    <3>1. pc' = pc /\ lock'.there = lock.there
      BY <2>2, Typed DEF Tick, LockStates
    <3> QED  BY <3>1 DEF SeenIsOthers
  <2>3. ASSUME NEW q \in Runs, RunStep(q)  PROVE  SeenIsOthers'
    <3>1. \A p \in Runs : p # q => pc'[p] = pc[p]
      BY <2>3, Frame
    <3>2. /\ pc[q] \notin Before => pc'[q] \notin Before
          /\ pc'[q] \in Contends => pc[q] \in Contends \/ (pc[q] = "mkdir" /\ lock.there)
          /\ pc[q] = "mkdir" /\ ~lock.there => pc'[q] \notin Before
          /\ lock'.there => lock.there \/ pc[q] = "mkdir"
      BY <2>3, Onward, Arrivals
    <3>3. lock'.there => \E r \in Runs : pc'[r] \notin Before
      BY <3>1, <3>2 DEF SeenIsOthers
    <3>4. ASSUME NEW r \in Runs, NEW s \in Runs, r # s, pc'[r] \in Contends
          PROVE  pc'[s] \notin Before
      <4>1. CASE pc[r] \in Contends
        <5>1. pc[s] \notin Before
          BY <3>4, <4>1 DEF SeenIsOthers
        <5> QED  BY <3>1, <3>2, <5>1
      <4>2. CASE pc[r] \notin Contends
        <5>1. r = q /\ pc[q] = "mkdir" /\ lock.there
          BY <3>1, <3>2, <3>4, <4>2
        <5>2. PICK m \in Runs : pc[m] \notin Before
          BY <5>1 DEF SeenIsOthers
        <5>3. m = s
          BY <3>4, <5>1, <5>2 DEF TwoRuns, Before
        <5> QED  BY <3>1, <3>4, <5>1, <5>2, <5>3
      <4> QED  BY <4>1, <4>2
    <3> QED  BY <3>3, <3>4 DEF SeenIsOthers
  <2> QED  BY <2>1, <2>2, <2>3 DEF Next
<1>3. SeenIsOthers => OneWaits
  BY DEF SeenIsOthers, OneWaits, Before
<1> QED  BY <1>1, <1>2, <1>3, AlwaysTyped, PTL DEF Spec

=============================================================================
