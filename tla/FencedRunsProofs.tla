-------------------------- MODULE FencedRunsProofs --------------------------
(***************************************************************************)
(* Overlapping runs: what the ownership checks keep true of the status,    *)
(* the history, the snapshot and the public object, for any number of      *)
(* runs, of runs lost and of runs past their time, and either store.       *)
(*                                                                         *)
(* The argument is about order.  The lock goes to runs in the order of     *)
(* their numbers and never back, so that the owner is the newest run and   *)
(* alone in writing what is checked.  What it remembers of the status      *)
(* between a read and a write is therefore still so when it writes; and    *)
(* what it has built is at least as new as what any run has saved, since   *)
(* it built after the last of them lost the lock.                          *)
(***************************************************************************)
EXTENDS FencedRuns, IntegerSetProofs, SequenceTheorems

USE DEF lockState, memory, root, store, Runs

Started(r) == pc[r] # "idle"

\* The lock goes to the runs in their order; its owner is the newest of them.
LockInOrder ==
    /\ \A q, r \in Runs : q < r /\ Started(r) => Started(q)
    /\ \A r \in Runs : Started(r) /\ owner # NoRun => r <= owner

\* A run on record has left finish; the owner's view of the status is current.
StatusInv ==
    /\ \A r \in Recorded : pc[r] \in {"release", "ended", "lost"}
    /\ \A r \in Runs : owner = r =>
         /\ pc[r] \in {"refresh", "refresh_again"} => previous[r] = status.last
         /\ pc[r] = "append" => status = FinalStatus(r)

\* before a run has built anything; where it has saved what it built
Early == {"idle", "heal", "refresh", "build"}
Saved == {"announce", "refresh_again", "stat", "put", "put_meta", "confirm"}

\* The data root holds what some run built.  What is public, or about to be, or
\* was published, has been saved and is no newer than the data root; what the
\* owner has built is no older.
RunContent(r) ==
    /\ pc[r] \in Early => built[r] = NoContent /\ r \notin published \cup disturbed
    /\ pc[r] \in Saved \/ r \in published \cup disturbed => built[r] <= local
    /\ owner = r /\ pc[r] \in {"save"} \cup Saved => local <= built[r]

ContentInv ==
    /\ local = NoContent \/ \E r \in Runs : local = built[r]
    /\ object.body <= local
    /\ \A r \in Runs : RunContent(r)

\* What was published is still there, or something newer; and only a put by the
\* owner, alone between its two files, leaves an undisturbed object unreadable.
ObjectInv ==
    /\ \A r \in published :
         \/ object.body >= built[r]
         \/ \E q \in disturbed : built[q] = object.body
    /\ \A r \in Runs : pc[r] = "put_meta" => adapter = "local"
    /\ \A r \in Runs :
         owner = r /\ pc[r] = "put_meta" /\ disturbed = {} => object.body = built[r]
    /\ BrokenOnlyByDisturbance

FencedInv == TypeOK /\ LockInOrder /\ StatusInv /\ ContentInv /\ ObjectInv
             /\ HistoryFollowsStatus /\ RecordedNotCurrent

-----------------------------------------------------------------------------
\* Types.
LEMMA Zero ==
    /\ NoRun = 0 /\ Torn = 0 /\ NoContent = 0 /\ NoRun \notin Runs /\ Runs \subseteq Nat
    /\ \A line \in Unreadable : line \notin Runs
BY RunsAssumption DEF NoRun, Torn, Glued, Unreadable

\* The steps of a checkpoint with both phases spelt out.
ReadsStatus(r) ==
    /\ \/ pc[r] = "heal" /\ Goto(r, "refresh")
       \/ pc[r] = "announce" /\ Goto(r, "refresh_again")
    /\ previous' = [previous EXCEPT ![r] = status.last]
    /\ UNCHANGED <<lockState, timedOut, built, published, root, store>>
RefreshesStatus(r) ==
    /\ \/ pc[r] = "refresh" /\ Goto(r, "build")
       \/ pc[r] = "refresh_again" /\ Goto(r, "stat")
    /\ owner = r
    /\ status' = [last |-> previous[r], current |-> r]
    /\ previous' = [previous EXCEPT ![r] = NoRun]
    /\ UNCHANGED <<lockState, timedOut, built, published, history, local, store>>
SwallowsCheckpoint(r) ==
    /\ \/ pc[r] = "heal" /\ Goto(r, "build")
       \/ pc[r] = "announce" /\ Goto(r, "stat")
    /\ UNCHANGED <<lockState, memory, root, store>>

LEMMA CheckpointSteps ==
  ASSUME NEW r \in Runs, NEW phase \in DOMAIN Checkpoint
  PROVE  /\ ReadStatus(r, phase) => ReadsStatus(r)
         /\ RefreshStatus(r, phase) => RefreshesStatus(r)
         /\ SwallowCheckpoint(r, phase) => SwallowsCheckpoint(r)
<1> USE DEF ReadStatus, RefreshStatus, SwallowCheckpoint, At, Owned,
            ReadsStatus, RefreshesStatus, SwallowsCheckpoint
<1>1. CASE phase = "heal"
  <2>1. Checkpoint[phase] = "refresh" /\ After[phase] = "build"
    BY <1>1 DEF Checkpoint, After
  <2> QED  BY <1>1, <2>1
<1>2. CASE phase = "announce"
  <2>1. Checkpoint[phase] = "refresh_again" /\ After[phase] = "stat"
    BY <1>2 DEF Checkpoint, After
  <2> QED  BY <1>2, <2>1
<1> QED  BY <1>1, <1>2 DEF Checkpoint

LEMMA NextSteps ==
  ASSUME Next
  PROVE  \E r \in Runs :
           \/ Acquire(r) \/ RunOverTime(r) \/ Crash(r)
           \/ CheckRaises(r) \/ RecordRefused(r) \/ Abort(r)
           \/ ReadsStatus(r) \/ RefreshesStatus(r) \/ SwallowsCheckpoint(r)
           \/ Build(r) \/ SaveLocal(r)
           \/ Stat(r) \/ Put(r) \/ PutMetadata(r) \/ Confirm(r) \/ FailProduct(r) \/ Report(r)
           \/ WriteFinalStatus(r) \/ AppendRun(r) \/ FailFinish(r) \/ Release(r)
BY CheckpointSteps DEF Next

LEMMA BuiltFinite ==
  ASSUME TypeOK
  PROVE  /\ IsFiniteSet({NoContent} \cup Range(built))
         /\ {NoContent} \cup Range(built) \subseteq Nat
<1>1. built \in Surjection(Runs, Range(built))
  BY DEF TypeOK, Range, Surjection
<1>2. IsFiniteSet(Runs)
  BY FS_Interval, RunsAssumption
<1>3. IsFiniteSet(Range(built))
  BY <1>1, <1>2, FS_Surjection
<1>4. IsFiniteSet(Range(built) \cup {NoContent})
  BY <1>3, FS_AddElement
<1>5. {NoContent} \cup Range(built) = Range(built) \cup {NoContent}
  OBVIOUS
<1>6. Range(built) \subseteq Nat
  BY DEF TypeOK, Range
<1> QED  BY <1>4, <1>5, <1>6, Zero

\* There is a newest content, and a run builds on it.
LEMMA NewestIsNewest ==
  ASSUME TypeOK
  PROVE  Newest \in Nat /\ \A r \in Runs : built[r] <= Newest
<1> DEFINE S == {NoContent} \cup Range(built)
<1>1. IsFiniteSet(S) /\ S \subseteq Nat /\ S # {}
  BY BuiltFinite
<1>2. \E c \in S : \A d \in S : d <= c
  BY <1>1, GreatestExists
<1>3. \E c \in {NoContent} \cup Range(built) : \A d \in Range(built) : d <= c
  BY <1>2
<1>4. Newest \in S /\ \A d \in Range(built) : d <= Newest
  BY <1>3 DEF Newest
<1>5. \A r \in Runs : built[r] \in Range(built)
  BY DEF TypeOK, Range
<1> QED  BY <1>1, <1>4, <1>5

LEMMA BuildIsNewest ==
  ASSUME TypeOK, NEW r \in Runs, Build(r)
  PROVE  \E c \in Nat : built' = [built EXCEPT ![r] = c] /\ Newest <= c
<1>1. Newest \in Nat
  BY NewestIsNewest
<1>2. PICK c \in {Newest, Newest + 1} : built' = [built EXCEPT ![r] = c]
  BY DEF Build
<1>3. c \in Nat /\ Newest <= c
  BY <1>1
<1> QED  BY <1>2, <1>3

LEMMA InitType == Init => TypeOK
BY Zero, RunsAssumption DEF Init, TypeOK, NoObject, Active, Working

\* The three parts of TypeOK.
PlaceType ==
    /\ owner \in Runs \cup {NoRun}
    /\ owner # NoRun => pc[owner] \in Active \cup {"lost"}
    /\ overtime \subseteq Runs /\ timedOut \subseteq overtime
    /\ pc \in [Runs -> Active \cup {"idle", "lost", "ended"}]
MemoryType ==
    /\ previous \in [Runs -> Runs \cup {NoRun}]
    /\ built \in [Runs -> Nat] /\ published \subseteq Runs
DiskType ==
    /\ adapter \in Adapters
    /\ status \in [last : Runs \cup {NoRun}, current : Runs \cup {NoRun}]
    /\ history \in Seq(Runs \cup Unreadable) /\ local \in Nat
    /\ object \in [body : Nat, meta : Nat] /\ disturbed \subseteq Runs

LEMMA TypeParts == TypeOK <=> PlaceType /\ MemoryType /\ DiskType
BY DEF TypeOK, PlaceType, MemoryType, DiskType

LEMMA PlaceTypeStep == TypeOK /\ [Next]_vars => PlaceType'
<1> SUFFICES ASSUME TypeOK, [Next]_vars  PROVE  PlaceType'
  OBVIOUS
<1>0. PlaceType
  BY TypeParts
<1> USE <1>0, Zero DEF Goto, At, Active, Working, PlaceType
<1>1. CASE UNCHANGED vars
  BY <1>1 DEF vars
<1>2. ASSUME NEW r \in Runs, Acquire(r) \/ RunOverTime(r)  PROVE  PlaceType'
  BY <1>2 DEF Acquire, RunOverTime, Lost
<1>3. ASSUME NEW r \in Runs, Crash(r)  PROVE  PlaceType'
  BY <1>3 DEF Crash, EndProcess
<1>7. ASSUME NEW r \in Runs, Release(r)  PROVE  PlaceType'
  BY <1>7 DEF Release, ReleasedOwner, EndProcess
<1>4. ASSUME NEW r \in Runs, CheckRaises(r) \/ RecordRefused(r) \/ Abort(r)
      PROVE  PlaceType'
  BY <1>4 DEF CheckRaises, RecordRefused, Abort
<1>a. ASSUME NEW r \in Runs, NEW to \in Active, Goto(r, to), UNCHANGED <<lockState, timedOut>>
      PROVE  PlaceType'
  BY <1>a
<1>b. ASSUME NEW r \in Runs,
             \/ ReadsStatus(r) \/ RefreshesStatus(r) \/ SwallowsCheckpoint(r)
             \/ Build(r) \/ SaveLocal(r) \/ Report(r) \/ Stat(r) \/ Confirm(r)
             \/ Put(r) \/ PutMetadata(r) \/ FailProduct(r)
      PROVE  PlaceType'
  <2> HIDE DEF Goto, Active, PlaceType
  <2>1. UNCHANGED <<lockState, timedOut>>
    BY <1>b DEF ReadsStatus, RefreshesStatus, SwallowsCheckpoint, Build, SaveLocal, Report,
       Stat, Confirm, Put, PutMetadata, FailProduct, ReplaceState
  <2>2. \E to \in {"refresh", "refresh_again", "build", "stat", "save", "announce",
                  "finish", "put", "put_meta", "confirm", "report"} : Goto(r, to)
    <3>1. CASE ReadsStatus(r) \/ RefreshesStatus(r) \/ SwallowsCheckpoint(r)
      BY <3>1 DEF ReadsStatus, RefreshesStatus, SwallowsCheckpoint
    <3>2. CASE Build(r) \/ SaveLocal(r) \/ Report(r)
      BY <3>2 DEF Build, SaveLocal, Report
    <3>3. CASE Stat(r) \/ Confirm(r)
      BY <3>3 DEF Stat, Confirm, Publish
    <3>4. CASE Put(r) \/ PutMetadata(r)
      BY <3>4 DEF Put, PutMetadata
    <3>5. CASE FailProduct(r)
      BY <3>5 DEF FailProduct
    <3> QED  BY <1>b, <3>1, <3>2, <3>3, <3>4, <3>5
  <2>3. {"refresh", "refresh_again", "build", "stat", "save", "announce",
         "finish", "put", "put_meta", "confirm", "report"} \subseteq Active
    BY DEF Active, Working
  <2> QED  BY <1>a, <2>1, <2>2, <2>3
<1>10. ASSUME NEW r \in Runs, WriteFinalStatus(r) \/ FailFinish(r) \/ AppendRun(r)
       PROVE  PlaceType'
  BY <1>10 DEF WriteFinalStatus, FailFinish, AppendRun
<1> QED  BY <1>1, <1>2, <1>3, <1>4, <1>7, <1>b, <1>10, NextSteps

LEMMA MemoryTypeStep == TypeOK /\ [Next]_vars => MemoryType'
<1> SUFFICES ASSUME TypeOK, [Next]_vars  PROVE  MemoryType'
  OBVIOUS
<1>0. MemoryType /\ DiskType
  BY TypeParts
<1> USE <1>0 DEF MemoryType
<1>1. CASE UNCHANGED vars
  BY <1>1 DEF vars
<1>2. ASSUME NEW r \in Runs, \/ Acquire(r) \/ RunOverTime(r) \/ CheckRaises(r)
                             \/ RecordRefused(r) \/ Abort(r) \/ SaveLocal(r) \/ Report(r)
      PROVE  MemoryType'
  BY <1>2 DEF Acquire, RunOverTime, CheckRaises, RecordRefused, Abort, SaveLocal, Report
<1>3. ASSUME NEW r \in Runs, Crash(r) \/ Release(r)  PROVE  MemoryType'
  BY <1>3 DEF Crash, Release, EndProcess
<1>4. ASSUME NEW r \in Runs, ReadsStatus(r) \/ RefreshesStatus(r) \/ SwallowsCheckpoint(r)
      PROVE  MemoryType'
  BY <1>4 DEF ReadsStatus, RefreshesStatus, SwallowsCheckpoint, DiskType
<1>5. ASSUME NEW r \in Runs, Build(r)  PROVE  MemoryType'
  BY <1>5, NewestIsNewest DEF Build
<1>6. ASSUME NEW r \in Runs, \/ Stat(r) \/ Confirm(r) \/ Put(r) \/ PutMetadata(r)
                             \/ FailProduct(r)
      PROVE  MemoryType'
  BY <1>6 DEF Stat, Confirm, Publish, Put, PutMetadata, FailProduct, ReplaceState
<1>7. ASSUME NEW r \in Runs, WriteFinalStatus(r) \/ FailFinish(r) \/ AppendRun(r)
      PROVE  MemoryType'
  BY <1>7 DEF WriteFinalStatus, FailFinish, AppendRun
<1> QED  BY <1>1, <1>2, <1>3, <1>4, <1>5, <1>6, <1>7, NextSteps

LEMMA DiskTypeStep == TypeOK /\ [Next]_vars => DiskType'
<1> SUFFICES ASSUME TypeOK, [Next]_vars  PROVE  DiskType'
  OBVIOUS
<1>0. MemoryType /\ DiskType
  BY TypeParts
<1> USE <1>0, Zero DEF DiskType, MemoryType
<1>1. CASE UNCHANGED vars
  BY <1>1 DEF vars
<1>2. ASSUME NEW r \in Runs, \/ Acquire(r) \/ RunOverTime(r) \/ CheckRaises(r)
                             \/ RecordRefused(r) \/ Build(r) \/ Report(r)
                             \/ Stat(r) \/ Confirm(r) \/ FailFinish(r) \/ Release(r)
      PROVE  DiskType'
  BY <1>2 DEF Acquire, RunOverTime, CheckRaises, RecordRefused, Build, Report,
     Stat, Confirm, FailFinish, Release, ReplaceState
<1>3. ASSUME NEW r \in Runs, Crash(r) \/ Abort(r)  PROVE  DiskType'
  BY <1>3 DEF Crash, Abort, CutShort
<1>4. ASSUME NEW r \in Runs, ReadsStatus(r) \/ RefreshesStatus(r) \/ SwallowsCheckpoint(r)
      PROVE  DiskType'
  <2>1. CASE RefreshesStatus(r)
    BY <2>1 DEF RefreshesStatus
  <2>2. CASE ReadsStatus(r) \/ SwallowsCheckpoint(r)
    BY <2>2 DEF ReadsStatus, SwallowsCheckpoint
  <2> QED  BY <1>4, <2>1, <2>2
<1>5. ASSUME NEW r \in Runs, SaveLocal(r)  PROVE  DiskType'
  BY <1>5 DEF SaveLocal
<1>6. ASSUME NEW r \in Runs, Put(r) \/ PutMetadata(r) \/ FailProduct(r)  PROVE  DiskType'
  BY <1>6 DEF Put, PutMetadata, FailProduct, PutBody, PutMeta, PutWhole, Disturbs,
     CutShort, ReplaceState
<1>7. ASSUME NEW r \in Runs, WriteFinalStatus(r)  PROVE  DiskType'
  BY <1>7 DEF WriteFinalStatus, FinalStatus
<1>8. ASSUME NEW r \in Runs, AppendRun(r)  PROVE  DiskType'
  <2>1. PICK line \in Runs \cup Unreadable : history' = Append(history, line)
    BY <1>8 DEF AppendRun, Appended, Unreadable
  <2>2. history' \in Seq(Runs \cup Unreadable)
    <3>1. history \in Seq(Runs \cup Unreadable)
      OBVIOUS
    <3> HIDE <1>0, Zero DEF DiskType, MemoryType
    <3> QED  BY <2>1, <3>1, AppendProperties
  <2> QED  BY <1>8, <2>2 DEF AppendRun
<1> QED  BY <1>1, <1>2, <1>3, <1>4, <1>5, <1>6, <1>7, <1>8, NextSteps

LEMMA TypeStep == TypeOK /\ [Next]_vars => TypeOK'
<1> SUFFICES ASSUME TypeOK, [Next]_vars  PROVE  TypeOK'
  OBVIOUS
<1>1. PlaceType' /\ MemoryType' /\ DiskType'
  BY PlaceTypeStep, MemoryTypeStep, DiskTypeStep
<1> QED  BY <1>1 DEF TypeOK, PlaceType, MemoryType, DiskType

\* In every execution every variable has its type, and the lock names a run
\* that has not ended in order.
THEOREM TypeCorrect == Spec => []TypeOK
BY InitType, TypeStep, PTL DEF Spec

-----------------------------------------------------------------------------
\* The order of the runs, and what they leave on record.

\* A step is one run's.  Only Acquire takes a run out of idle or makes it the
\* owner, and a run that has come to its release only goes on to its end.
LEMMA OneRunMoves ==
  ASSUME TypeOK, Next
  PROVE  \E r \in Runs :
           /\ \A q \in Runs \ {r} : pc'[q] = pc[q]
           /\ pc'[r] # "idle"
           /\ Acquire(r) \/ (pc[r] # "idle" /\ owner' \in {owner, NoRun})
           /\ pc[r] \in {"release", "ended", "lost"} => pc'[r] \in {"release", "ended", "lost"}
<1> USE DEF TypeOK, Goto, At, Active, Working
<1> DEFINE Moves(r) ==
      /\ \A q \in Runs \ {r} : pc'[q] = pc[q]
      /\ pc'[r] # "idle"
      /\ Acquire(r) \/ (pc[r] # "idle" /\ owner' \in {owner, NoRun})
      /\ pc[r] \in {"release", "ended", "lost"} => pc'[r] \in {"release", "ended", "lost"}
<1>1. ASSUME NEW r \in Runs, Acquire(r)  PROVE  Moves(r)
  BY <1>1 DEF Acquire
<1>2. ASSUME NEW r \in Runs, Crash(r) \/ Release(r)  PROVE  Moves(r)
  BY <1>2 DEF Crash, Release, ReleasedOwner, EndProcess
<1>3. ASSUME NEW r \in Runs, RunOverTime(r) \/ CheckRaises(r) \/ RecordRefused(r) \/ Abort(r)
      PROVE  Moves(r)
  BY <1>3 DEF RunOverTime, CheckRaises, RecordRefused, Abort
<1>4. ASSUME NEW r \in Runs, ReadsStatus(r) \/ RefreshesStatus(r) \/ SwallowsCheckpoint(r)
      PROVE  Moves(r)
  BY <1>4 DEF ReadsStatus, RefreshesStatus, SwallowsCheckpoint
<1>5. ASSUME NEW r \in Runs, Build(r) \/ SaveLocal(r) \/ Report(r)  PROVE  Moves(r)
  BY <1>5 DEF Build, SaveLocal, Report
<1>6. ASSUME NEW r \in Runs, \/ Stat(r) \/ Confirm(r) \/ Put(r) \/ PutMetadata(r)
                             \/ FailProduct(r)
      PROVE  Moves(r)
  BY <1>6 DEF Stat, Confirm, Publish, Put, PutMetadata, FailProduct, ReplaceState
<1>7. ASSUME NEW r \in Runs, WriteFinalStatus(r) \/ FailFinish(r) \/ AppendRun(r)
      PROVE  Moves(r)
  BY <1>7 DEF WriteFinalStatus, FailFinish, AppendRun
<1> QED  BY <1>1, <1>2, <1>3, <1>4, <1>5, <1>6, <1>7, NextSteps

LEMMA LockInOrderStep == TypeOK /\ LockInOrder /\ [Next]_vars => LockInOrder'
<1> SUFFICES ASSUME TypeOK, LockInOrder, [Next]_vars  PROVE  LockInOrder'
  OBVIOUS
<1>1. CASE UNCHANGED vars
  BY <1>1 DEF vars, LockInOrder, Started
<1>2. CASE Next
  <2>1. PICK r \in Runs :
          /\ \A q \in Runs \ {r} : pc'[q] = pc[q]
          /\ pc'[r] # "idle"
          /\ Acquire(r) \/ (pc[r] # "idle" /\ owner' \in {owner, NoRun})
    BY <1>2, OneRunMoves
  <2>2. CASE Acquire(r)
    <3>1. owner' = r /\ pc[r] = "idle" /\ \A q \in Runs : q < r => Started(q)
      BY <2>2 DEF Acquire, At, Started
    <3>2. \A q \in Runs : Started(q)' <=> Started(q) \/ q = r
      BY <2>1 DEF Started
    <3>3. \A q \in Runs : Started(q) => q <= r
      BY <3>1 DEF LockInOrder, Started
    <3> QED  BY <3>1, <3>2, <3>3, Zero DEF LockInOrder
  <2>3. CASE pc[r] # "idle" /\ owner' \in {owner, NoRun}
    BY <2>1, <2>3 DEF LockInOrder, Started
  <2> QED  BY <2>1, <2>2, <2>3
<1> QED  BY <1>1, <1>2

\* The history gains a line, of the run r or unreadable.
AppendsFor(r) == \E line \in {r} \cup Unreadable : history' = Append(history, line)

\* It gains at most one line, of the run that appends it.
LEMMA RecordedStep ==
  ASSUME TypeOK, [Next]_vars
  PROVE  \/ history' = history
         \/ \E r \in Runs : AppendRun(r) /\ AppendsFor(r)
<1>1. ASSUME NEW r \in Runs, AppendRun(r)  PROVE  AppendsFor(r)
  BY <1>1 DEF AppendRun, Appended, AppendsFor, Unreadable
<1>2. ASSUME NEW r \in Runs,
             \/ Acquire(r) \/ RunOverTime(r) \/ Crash(r)
             \/ CheckRaises(r) \/ RecordRefused(r) \/ Abort(r)
             \/ ReadsStatus(r) \/ RefreshesStatus(r) \/ SwallowsCheckpoint(r)
             \/ Build(r) \/ SaveLocal(r) \/ Report(r)
      PROVE  history' = history
  BY <1>2 DEF Acquire, RunOverTime, Crash, CheckRaises, RecordRefused, Abort,
     ReadsStatus, RefreshesStatus, SwallowsCheckpoint, Build, SaveLocal, Report
<1>3. ASSUME NEW r \in Runs,
             \/ Stat(r) \/ Put(r) \/ PutMetadata(r) \/ Confirm(r) \/ FailProduct(r)
             \/ WriteFinalStatus(r) \/ FailFinish(r) \/ Release(r)
      PROVE  history' = history
  BY <1>3 DEF Stat, Put, PutMetadata, Confirm, FailProduct, ReplaceState,
     WriteFinalStatus, FailFinish, Release
<1>4. CASE UNCHANGED vars
  BY <1>4 DEF vars
<1> QED  BY <1>1, <1>2, <1>3, <1>4, NextSteps

LEMMA RecordedGrows ==
  ASSUME TypeOK, NEW r \in Runs, AppendsFor(r)
  PROVE  Recorded' \subseteq Recorded \cup {r}
<1>1. history \in Seq(Runs \cup Unreadable)
  BY DEF TypeOK
<1>2. Range(history') \subseteq Range(history) \cup {r} \cup Unreadable
  BY <1>1, Zero DEF Range, AppendsFor
<1> QED  BY <1>2 DEF Recorded

LEMMA RecordedAreRuns == TypeOK => Recorded \subseteq Runs
BY DEF TypeOK, Recorded, Range

\* A run on record stays behind its release.
LEMMA RecordedBehindStep ==
  ASSUME TypeOK, StatusInv, [Next]_vars
  PROVE  \A r \in Recorded' : pc'[r] \in {"release", "ended", "lost"}
<1>1. CASE UNCHANGED vars
  BY <1>1 DEF vars, StatusInv, Recorded
<1>2. CASE Next
  <2>1. PICK q \in Runs :
          /\ \A r \in Runs \ {q} : pc'[r] = pc[r]
          /\ pc[q] \in {"release", "ended", "lost"} => pc'[q] \in {"release", "ended", "lost"}
    BY <1>2, OneRunMoves
  <2>2. \A r \in Recorded : pc'[r] \in {"release", "ended", "lost"}
    BY <2>1, RecordedAreRuns DEF StatusInv
  <2>3. CASE history' = history
    BY <2>2, <2>3 DEF Recorded
  <2>4. ASSUME NEW r \in Runs, AppendRun(r), AppendsFor(r)
        PROVE  \A s \in Recorded' : pc'[s] \in {"release", "ended", "lost"}
    <3>1. pc'[r] = "release"
      BY <2>4 DEF AppendRun, Goto, TypeOK
    <3> QED  BY <2>2, <2>4, <3>1, RecordedGrows
  <2> QED  BY <2>3, <2>4, RecordedStep
<1> QED  BY <1>1, <1>2

\* The owner alone writes the status, and nothing changes between its read of
\* the status and its write, or between its last write and its line.
OwnersView(r) ==
    owner = r =>
      /\ pc[r] \in {"refresh", "refresh_again"} => previous[r] = status.last
      /\ pc[r] = "append" => status = FinalStatus(r)

LEMMA OwnersViewStep ==
  ASSUME TypeOK, StatusInv, [Next]_vars, NEW s \in Runs
  PROVE  OwnersView(s)'
<1>0. OwnersView(s)
  BY DEF StatusInv, OwnersView
<1> USE <1>0 DEF TypeOK, OwnersView, FinalStatus, Goto, At
<1>1. CASE UNCHANGED vars
  BY <1>1 DEF vars
<1>2. ASSUME NEW r \in Runs, Acquire(r)  PROVE  OwnersView(s)'
  <2>1. owner' = r /\ pc' = [pc EXCEPT ![r] = "heal"]
    BY <1>2 DEF Acquire
  <2> QED  BY <2>1
<1>12. ASSUME NEW r \in Runs, RunOverTime(r)  PROVE  OwnersView(s)'
  BY <1>12 DEF RunOverTime
<1>3. ASSUME NEW r \in Runs, Crash(r)  PROVE  OwnersView(s)'
  BY <1>3 DEF Crash, EndProcess
<1>4. ASSUME NEW r \in Runs, Release(r)  PROVE  OwnersView(s)'
  BY <1>4, Zero DEF Release, ReleasedOwner, EndProcess
<1>5. ASSUME NEW r \in Runs, CheckRaises(r) \/ RecordRefused(r) \/ Abort(r)
      PROVE  OwnersView(s)'
  BY <1>5 DEF CheckRaises, RecordRefused, Abort
<1>6. ASSUME NEW r \in Runs, ReadsStatus(r)  PROVE  OwnersView(s)'
  BY <1>6 DEF ReadsStatus
<1>7. ASSUME NEW r \in Runs, RefreshesStatus(r)  PROVE  OwnersView(s)'
  BY <1>7 DEF RefreshesStatus
<1>8. ASSUME NEW r \in Runs, \/ SwallowsCheckpoint(r) \/ Build(r) \/ SaveLocal(r)
                             \/ Report(r)
      PROVE  OwnersView(s)'
  BY <1>8 DEF SwallowsCheckpoint, Build, SaveLocal, Report
<1>9. ASSUME NEW r \in Runs, \/ Stat(r) \/ Confirm(r) \/ Put(r) \/ PutMetadata(r)
                             \/ FailProduct(r)
      PROVE  OwnersView(s)'
  BY <1>9 DEF Stat, Confirm, Publish, Put, PutMetadata, FailProduct, ReplaceState
<1>10. ASSUME NEW r \in Runs, WriteFinalStatus(r)  PROVE  OwnersView(s)'
  BY <1>10 DEF WriteFinalStatus, MayRecord
<1>11. ASSUME NEW r \in Runs, AppendRun(r) \/ FailFinish(r)  PROVE  OwnersView(s)'
  BY <1>11 DEF AppendRun, FailFinish
<1> QED  BY <1>1, <1>2, <1>3, <1>4, <1>5, <1>6, <1>7, <1>8, <1>9, <1>10, <1>11, <1>12,
         NextSteps

\* The status is written by the owner alone: in a checkpoint, with the last run
\* it read, or at its end.
LEMMA StatusStep ==
  ASSUME TypeOK, [Next]_vars
  PROVE  \/ status' = status
         \/ \E r \in Runs : owner = r /\ history' = history
              /\ \/ pc[r] \in {"refresh", "refresh_again"}
                    /\ status' = [last |-> previous[r], current |-> r]
                 \/ pc[r] = "finish" /\ status' = FinalStatus(r)
<1>1. ASSUME NEW r \in Runs, RefreshesStatus(r)
      PROVE  /\ owner = r /\ history' = history
             /\ pc[r] \in {"refresh", "refresh_again"}
             /\ status' = [last |-> previous[r], current |-> r]
  BY <1>1 DEF RefreshesStatus
<1>2. ASSUME NEW r \in Runs, WriteFinalStatus(r)
      PROVE  owner = r /\ history' = history /\ pc[r] = "finish" /\ status' = FinalStatus(r)
  BY <1>2 DEF WriteFinalStatus, MayRecord, At
<1>3. ASSUME NEW r \in Runs,
             \/ Acquire(r) \/ RunOverTime(r) \/ Crash(r)
             \/ CheckRaises(r) \/ RecordRefused(r) \/ Abort(r)
             \/ ReadsStatus(r) \/ SwallowsCheckpoint(r)
             \/ Build(r) \/ SaveLocal(r) \/ Report(r)
      PROVE  status' = status
  BY <1>3 DEF Acquire, RunOverTime, Crash, CheckRaises, RecordRefused, Abort,
     ReadsStatus, SwallowsCheckpoint, Build, SaveLocal, Report
<1>4. ASSUME NEW r \in Runs,
             \/ Stat(r) \/ Put(r) \/ PutMetadata(r) \/ Confirm(r) \/ FailProduct(r)
             \/ AppendRun(r) \/ FailFinish(r) \/ Release(r)
      PROVE  status' = status
  BY <1>4 DEF Stat, Put, PutMetadata, Confirm, FailProduct, ReplaceState,
     AppendRun, FailFinish, Release
<1>5. CASE UNCHANGED vars
  BY <1>5 DEF vars
<1> QED  BY <1>1, <1>2, <1>3, <1>4, <1>5, NextSteps

LEMMA HistoryStep ==
  ASSUME TypeOK, LockInOrder, StatusInv, HistoryFollowsStatus, RecordedNotCurrent, [Next]_vars
  PROVE  HistoryFollowsStatus' /\ RecordedNotCurrent'
<1> USE Zero
<1>1. /\ Recorded \subseteq Runs
      /\ \A s \in Recorded : Started(s) /\ s <= status.last
      /\ status.current # NoRun => status.current \notin Recorded
  BY RecordedAreRuns DEF StatusInv, Started, HistoryFollowsStatus, RecordedNotCurrent
<1>2. ASSUME history' = history,
             \A s \in Recorded : s <= status'.last,
             status'.current # NoRun => status'.current \notin Recorded
      PROVE  HistoryFollowsStatus' /\ RecordedNotCurrent'
  BY <1>2 DEF HistoryFollowsStatus, RecordedNotCurrent, Recorded
<1>3. CASE status' = status /\ history' = history
  BY <1>1, <1>2, <1>3
<1>4. ASSUME NEW r \in Runs, owner = r, history' = history,
             pc[r] \in {"refresh", "refresh_again"},
             status' = [last |-> previous[r], current |-> r]
      PROVE  HistoryFollowsStatus' /\ RecordedNotCurrent'
  <2>1. previous[r] = status.last /\ r \notin Recorded
    BY <1>4 DEF StatusInv
  <2> QED  BY <1>1, <1>2, <1>4, <2>1
<1>5. ASSUME NEW r \in Runs, owner = r, history' = history, status' = FinalStatus(r)
      PROVE  HistoryFollowsStatus' /\ RecordedNotCurrent'
  <2>1. \A s \in Recorded : s <= r
    BY <1>1, <1>5 DEF LockInOrder
  <2> QED  BY <1>2, <1>5, <2>1 DEF FinalStatus
<1>6. ASSUME NEW r \in Runs, AppendRun(r), AppendsFor(r)
      PROVE  HistoryFollowsStatus' /\ RecordedNotCurrent'
  <2>1. owner = r /\ pc[r] = "append" /\ status' = status
    BY <1>6 DEF AppendRun, MayRecord, At
  <2>2. status = [last |-> r, current |-> NoRun]
    BY <2>1 DEF StatusInv, FinalStatus
  <2>3. r \notin Recorded
    BY <2>1 DEF StatusInv
  <2>4. \A s \in Recorded : s < r
    <3>1. \A s \in Recorded : s <= r /\ s \in Nat
      BY <1>1, <2>2
    <3> QED  BY <2>3, <3>1
  <2>5. \A s \in Recorded' : s <= status'.last
    <3>1. Recorded' \subseteq Recorded \cup {r}
      BY <1>6, RecordedGrows
    <3> QED  BY <1>1, <2>1, <2>2, <2>4, <3>1
  <2>6. \A i \in DOMAIN history : history[i] \in Runs => history[i] < r
    BY <2>4 DEF Recorded, Range
  <2>7. history \in Seq(Runs \cup Unreadable)
    BY DEF TypeOK
  <2>8. \A i, j \in DOMAIN history' :
          i < j /\ {history'[i], history'[j]} \subseteq Runs => history'[i] < history'[j]
    <3> SUFFICES ASSUME NEW i \in DOMAIN history', NEW j \in DOMAIN history', i < j,
                        history'[i] \in Runs, history'[j] \in Runs
                 PROVE  history'[i] < history'[j]
      OBVIOUS
    <3>1. PICK line \in {r} \cup Unreadable : history' = Append(history, line)
      BY <1>6 DEF AppendsFor
    <3>2. /\ i \in DOMAIN history /\ history'[i] = history[i]
          /\ \/ j \in DOMAIN history /\ history'[j] = history[j]
             \/ history'[j] = line
      BY <2>7, <3>1
    <3>3. CASE j \in DOMAIN history /\ history'[j] = history[j]
      BY <3>2, <3>3 DEF HistoryFollowsStatus
    <3>4. CASE history'[j] = line
      <4>1. line = r
        BY Zero, <3>1, <3>4
      <4> QED  BY <2>6, <3>2, <3>4, <4>1
    <3> QED  BY <3>2, <3>3, <3>4
  <2> QED  BY <2>1, <2>2, <2>5, <2>8 DEF HistoryFollowsStatus, RecordedNotCurrent
<1> QED  BY <1>3, <1>4, <1>5, <1>6, StatusStep, RecordedStep

-----------------------------------------------------------------------------
\* What runs have built, saved and published.

LEMMA RunContentStep ==
  ASSUME TypeOK, LockInOrder, ContentInv, [Next]_vars, NEW s \in Runs
  PROVE  RunContent(s)'
<1>0. RunContent(s)
  BY DEF ContentInv
<1> USE <1>0 DEF TypeOK, RunContent, Early, Saved, Goto, At
<1>1. CASE UNCHANGED vars
  BY <1>1 DEF vars
<1>2. ASSUME NEW r \in Runs, Acquire(r)  PROVE  RunContent(s)'
  BY <1>2 DEF Acquire
<1>3. ASSUME NEW r \in Runs, RunOverTime(r)  PROVE  RunContent(s)'
  BY <1>3 DEF RunOverTime
<1>4. ASSUME NEW r \in Runs, Crash(r)  PROVE  RunContent(s)'
  BY <1>4 DEF Crash, EndProcess, CutShort
<1>5. ASSUME NEW r \in Runs, Release(r)  PROVE  RunContent(s)'
  <2>1. /\ UNCHANGED <<built, local, disturbed>> /\ published' \subseteq published
        /\ owner' = owner \/ owner' = NoRun
    BY <1>5 DEF Release, ReleasedOwner, EndProcess
  <2>2. s # r => pc'[s] = pc[s]
    BY <1>5 DEF Release, EndProcess
  <2>3. pc'[r] = "ended"
    BY <1>5 DEF Release, EndProcess
  <2> QED  BY <2>1, <2>2, <2>3, Zero
<1>6. ASSUME NEW r \in Runs, CheckRaises(r) \/ RecordRefused(r)  PROVE  RunContent(s)'
  <2>1. /\ pc[r] \in {"save", "refresh", "refresh_again", "report", "finish", "append"}
        /\ pc'[r] \in {"finish", "release"}
        /\ s # r => pc'[s] = pc[s]
    BY <1>6 DEF CheckRaises, RecordRefused
  <2>2. UNCHANGED <<owner, built, published, disturbed, local>>
    BY <1>6 DEF CheckRaises, RecordRefused
  <2> QED  BY <2>1, <2>2
<1>7. ASSUME NEW r \in Runs, Abort(r)  PROVE  RunContent(s)'
  BY <1>7 DEF Abort, CutShort
<1>8. ASSUME NEW r \in Runs, ReadsStatus(r)  PROVE  RunContent(s)'
  BY <1>8 DEF ReadsStatus
<1>9. ASSUME NEW r \in Runs, RefreshesStatus(r) \/ SwallowsCheckpoint(r)
      PROVE  RunContent(s)'
  BY <1>9 DEF RefreshesStatus, SwallowsCheckpoint
<1>10. ASSUME NEW r \in Runs, Build(r)  PROVE  RunContent(s)'
  <2>1. /\ pc[r] = "build" /\ pc' = [pc EXCEPT ![r] = "save"]
        /\ r \notin published \cup disturbed
        /\ UNCHANGED <<owner, local, published, disturbed>>
    BY <1>10 DEF Build, ContentInv
  <2>2. PICK c \in Nat : built' = [built EXCEPT ![r] = c] /\ Newest <= c
    BY <1>10, BuildIsNewest
  <2>3. local <= c
    BY <2>2, NewestIsNewest, Zero DEF ContentInv
  <2> QED  BY <2>1, <2>2, <2>3
<1>11. ASSUME NEW r \in Runs, SaveLocal(r)  PROVE  RunContent(s)'
  <2>1. local <= built[r] /\ owner = r
    BY <1>11 DEF SaveLocal, Owned, ContentInv
  <2> QED  BY <1>11, <2>1 DEF SaveLocal
<1>12. ASSUME NEW r \in Runs, Stat(r) \/ Confirm(r)  PROVE  RunContent(s)'
  <2>1. /\ pc[r] \in {"stat", "confirm"} /\ pc'[r] \in {"put", "report"}
        /\ pc[r] = "confirm" => pc'[r] = "report"
        /\ s # r => pc'[s] = pc[s]
    <3>1. CASE Stat(r)
      BY <3>1 DEF Stat, Publish
    <3>2. CASE Confirm(r)
      BY <3>2 DEF Confirm, Publish
    <3> QED  BY <1>12, <3>1, <3>2
  <2>2. UNCHANGED <<owner, built, local, disturbed>> /\ published' \subseteq published \cup {r}
    BY <1>12 DEF Stat, Confirm, Publish, ReplaceState
  <2>3. CASE s = r
    BY <2>1, <2>2, <2>3
  <2>4. CASE s # r
    BY <2>1, <2>2, <2>4
  <2> QED  BY <2>3, <2>4
<1>13. ASSUME NEW r \in Runs, Put(r) \/ PutMetadata(r)  PROVE  RunContent(s)'
  <2>1. /\ pc[r] \in {"put", "put_meta"} /\ pc'[r] \in {"put_meta", "confirm"}
        /\ s # r => pc'[s] = pc[s]
    <3>1. CASE Put(r)
      BY <3>1 DEF Put
    <3>2. CASE PutMetadata(r)
      BY <3>2 DEF PutMetadata
    <3> QED  BY <1>13, <3>1, <3>2
  <2>2. UNCHANGED <<owner, built, published, local>> /\ disturbed' \subseteq disturbed \cup {r}
    BY <1>13 DEF Put, PutMetadata, Disturbs, ReplaceState
  <2>3. CASE s = r
    BY <2>1, <2>2, <2>3
  <2>4. CASE s # r
    BY <2>1, <2>2, <2>4
  <2> QED  BY <2>3, <2>4
<1>14. ASSUME NEW r \in Runs, FailProduct(r)  PROVE  RunContent(s)'
  <2>1. /\ pc[r] \in {"build", "save"} \cup Saved /\ pc'[r] = "report"
        /\ s # r => pc'[s] = pc[s]
    BY <1>14 DEF FailProduct, Working
  <2>2. UNCHANGED <<owner, built, published, local>>
    BY <1>14 DEF FailProduct, ReplaceState
  <2>3. disturbed' = disturbed \/ (pc[r] \in Saved /\ disturbed' \subseteq disturbed \cup {r})
    BY <1>14 DEF FailProduct, Disturbs, CutShort
  <2>4. CASE s = r
    BY <2>1, <2>2, <2>3, <2>4
  <2>5. CASE s # r
    BY <2>1, <2>2, <2>3, <2>5
  <2> QED  BY <2>4, <2>5
<1>15. ASSUME NEW r \in Runs, \/ Report(r) \/ WriteFinalStatus(r) \/ AppendRun(r)
                              \/ FailFinish(r)
       PROVE  RunContent(s)'
  <2>1. /\ pc[r] \in {"report", "finish", "append"}
        /\ pc'[r] \in {"finish", "append", "release"}
        /\ s # r => pc'[s] = pc[s]
    BY <1>15 DEF Report, WriteFinalStatus, AppendRun, FailFinish
  <2>2. UNCHANGED <<owner, built, published, disturbed, local>>
    BY <1>15 DEF Report, WriteFinalStatus, AppendRun, FailFinish
  <2> QED  BY <2>1, <2>2
<1> QED  BY <1>1, <1>2, <1>3, <1>4, <1>5, <1>6, <1>7, <1>8, <1>9, <1>10, <1>11, <1>12,
         <1>13, <1>14, <1>15, NextSteps

LEMMA LocalStep ==
  ASSUME TypeOK, ContentInv, [Next]_vars
  PROVE  /\ local <= local'
         /\ local' = NoContent \/ \E r \in Runs : local' = built'[r]
<1> USE DEF TypeOK, ContentInv
<1> DEFINE LocalBuilt == local = NoContent \/ \E r \in Runs : local = built[r]
<1>1. ASSUME NEW r \in Runs, Build(r)  PROVE  local' = local /\ LocalBuilt'
  <2>1. local' = local /\ \A q \in Runs \ {r} : built'[q] = built[q]
    BY <1>1 DEF Build
  <2>2. built[r] = NoContent
    BY <1>1 DEF Build, At, RunContent, Early
  <2> QED  BY <2>1, <2>2
<1>2. ASSUME NEW r \in Runs, SaveLocal(r)  PROVE  local <= local' /\ LocalBuilt'
  BY <1>2 DEF SaveLocal, At, Owned, RunContent
<1>3. ASSUME NEW r \in Runs,
             \/ Acquire(r) \/ RunOverTime(r) \/ Crash(r)
             \/ CheckRaises(r) \/ RecordRefused(r) \/ Abort(r)
             \/ ReadsStatus(r) \/ RefreshesStatus(r) \/ SwallowsCheckpoint(r)
      PROVE  UNCHANGED <<local, built>>
  BY <1>3 DEF Acquire, RunOverTime, Crash, EndProcess, CheckRaises, RecordRefused, Abort,
     ReadsStatus, RefreshesStatus, SwallowsCheckpoint
<1>4. ASSUME NEW r \in Runs,
             \/ Stat(r) \/ Put(r) \/ PutMetadata(r) \/ Confirm(r) \/ FailProduct(r)
             \/ Report(r) \/ WriteFinalStatus(r) \/ AppendRun(r) \/ FailFinish(r)
             \/ Release(r)
      PROVE  UNCHANGED <<local, built>>
  BY <1>4 DEF Stat, Put, PutMetadata, Confirm, FailProduct, ReplaceState,
     Report, WriteFinalStatus, AppendRun, FailFinish, Release, EndProcess
<1>5. CASE UNCHANGED vars
  BY <1>5 DEF vars
<1>6. ASSUME UNCHANGED <<local, built>>  PROVE  local <= local' /\ LocalBuilt'
  BY <1>6
<1> QED  BY <1>1, <1>2, <1>3, <1>4, <1>5, <1>6, NextSteps

\* The object's body changes by a put alone, and to what the putting run saved.
LEMMA BodyStep ==
  ASSUME TypeOK, ContentInv, [Next]_vars
  PROVE  \/ object'.body = object.body
         \/ \E r \in Runs : /\ pc[r] = "put" /\ object'.body = built[r]
                            /\ Disturbs(r)
                            /\ UNCHANGED <<owner, built, local, published>>
<1> USE DEF TypeOK
<1>1. ASSUME NEW r \in Runs, Put(r)
      PROVE  /\ pc[r] = "put" /\ object'.body = built[r] /\ Disturbs(r)
             /\ UNCHANGED <<owner, built, local, published>>
  BY <1>1 DEF Put, At, PutBody, PutMeta, PutWhole, ReplaceState
<1>2. ASSUME NEW r \in Runs, PutMetadata(r)  PROVE  object'.body = object.body
  BY <1>2 DEF PutMetadata, PutMeta
<1>3. ASSUME NEW r \in Runs, FailProduct(r), object' # object
      PROVE  /\ pc[r] = "put" /\ object'.body = built[r] /\ Disturbs(r)
             /\ UNCHANGED <<owner, built, local, published>>
  BY <1>3 DEF FailProduct, At, PutBody, PutMeta, PutWhole, ReplaceState
<1>4. ASSUME NEW r \in Runs,
             \/ Acquire(r) \/ RunOverTime(r) \/ Crash(r)
             \/ CheckRaises(r) \/ RecordRefused(r) \/ Abort(r)
             \/ ReadsStatus(r) \/ RefreshesStatus(r) \/ SwallowsCheckpoint(r)
             \/ Build(r) \/ SaveLocal(r)
      PROVE  object' = object
  BY <1>4 DEF Acquire, RunOverTime, Crash, CheckRaises, RecordRefused, Abort,
     ReadsStatus, RefreshesStatus, SwallowsCheckpoint, Build, SaveLocal
<1>5. ASSUME NEW r \in Runs,
             \/ Stat(r) \/ Confirm(r) \/ Report(r) \/ WriteFinalStatus(r)
             \/ AppendRun(r) \/ FailFinish(r) \/ Release(r)
      PROVE  object' = object
  BY <1>5 DEF Stat, Confirm, Report, WriteFinalStatus, AppendRun, FailFinish, Release
<1>6. CASE UNCHANGED vars
  BY <1>6 DEF vars
<1> QED  BY <1>1, <1>2, <1>3, <1>4, <1>5, <1>6, NextSteps

LEMMA ContentStep ==
  ASSUME TypeOK, LockInOrder, ContentInv, [Next]_vars
  PROVE  ContentInv'
<1>1. \A s \in Runs : RunContent(s)'
  BY RunContentStep
<1>2. object'.body <= local'
  <2>1. local <= local' /\ local \in Nat /\ local' \in Nat /\ object.body \in Nat
    BY LocalStep, TypeStep DEF TypeOK
  <2>2. CASE object'.body = object.body
    BY <2>1, <2>2 DEF ContentInv
  <2>3. ASSUME NEW r \in Runs, pc[r] = "put", object'.body = built[r], local' = local
        PROVE  object'.body <= local'
    BY <2>3 DEF ContentInv, RunContent, Saved
  <2> QED  BY <2>2, <2>3, BodyStep
<1> QED  BY <1>1, <1>2, LocalStep DEF ContentInv

-----------------------------------------------------------------------------
\* What is public.

\* A run is noted as disturbed for good, and builds nothing after that or after
\* it has published; it publishes what it sees in place.
LEMMA NotedForGood ==
  ASSUME TypeOK, ContentInv, [Next]_vars
  PROVE  /\ disturbed \subseteq disturbed'
         /\ \A q \in published \cup disturbed : built'[q] = built[q]
         /\ \A s \in published' : \/ s \in published
                                  \/ /\ UNCHANGED <<object, built>>
                                     /\ object.body = built[s]
<1> USE DEF TypeOK
<1> DEFINE Grows ==
      /\ disturbed \subseteq disturbed'
      /\ \A q \in published \cup disturbed : built'[q] = built[q]
      /\ \A s \in published' : \/ s \in published
                               \/ UNCHANGED <<object, built>> /\ object.body = built[s]
<1>1. ASSUME NEW r \in Runs,
             \/ Acquire(r) \/ RunOverTime(r) \/ Crash(r)
             \/ CheckRaises(r) \/ RecordRefused(r) \/ Abort(r)
             \/ ReadsStatus(r) \/ RefreshesStatus(r) \/ SwallowsCheckpoint(r)
      PROVE  Grows
  BY <1>1 DEF Acquire, RunOverTime, Crash, EndProcess, CutShort, CheckRaises, RecordRefused,
     Abort, ReadsStatus, RefreshesStatus, SwallowsCheckpoint
<1>2. ASSUME NEW r \in Runs,
             \/ SaveLocal(r) \/ Report(r) \/ WriteFinalStatus(r) \/ AppendRun(r)
             \/ FailFinish(r) \/ Release(r)
      PROVE  Grows
  BY <1>2 DEF SaveLocal, Report, WriteFinalStatus, AppendRun, FailFinish, Release, EndProcess
<1>3. ASSUME NEW r \in Runs, Build(r)  PROVE  Grows
  <2>1. r \notin published \cup disturbed
    BY <1>3 DEF Build, At, ContentInv, RunContent, Early
  <2> QED  BY <1>3, <2>1 DEF Build
<1>4. ASSUME NEW r \in Runs, Stat(r) \/ Confirm(r)  PROVE  Grows
  BY <1>4 DEF Stat, IsPublished, Confirm, Publish, ReplaceState
<1>5. ASSUME NEW r \in Runs, Put(r) \/ PutMetadata(r) \/ FailProduct(r)  PROVE  Grows
  BY <1>5 DEF Put, PutMetadata, FailProduct, Disturbs, CutShort, ReplaceState
<1>6. CASE UNCHANGED vars
  BY <1>6 DEF vars
<1> QED  BY <1>1, <1>2, <1>3, <1>4, <1>5, <1>6, NextSteps

\* The object has what s published, or newer, or what a disturbed put left.
StillPublic(s) ==
    s \in published =>
      \/ object.body >= built[s]
      \/ \E q \in disturbed : built[q] = object.body

LEMMA StillPublicStep ==
  ASSUME TypeOK, ContentInv, ObjectInv, [Next]_vars, NEW s \in Runs
  PROVE  StillPublic(s)'
<1> SUFFICES ASSUME s \in published'
             PROVE  \/ object'.body >= built'[s]
                    \/ \E q \in disturbed' : built'[q] = object'.body
  BY DEF StillPublic
<1>1. /\ object.body \in Nat /\ built \in [Runs -> Nat] /\ local \in Nat
      /\ disturbed \subseteq Runs /\ published \subseteq Runs
  BY DEF TypeOK
<1>2. CASE s \notin published
  <2>1. UNCHANGED <<object, built>> /\ object.body = built[s]
    BY <1>2, NotedForGood
  <2>2. object'.body >= built'[s]
    BY <1>1, <2>1
  <2> QED  BY <2>2
<1>3. CASE s \in published
  <2>1. /\ built'[s] = built[s] /\ disturbed \subseteq disturbed'
        /\ \A q \in disturbed : built'[q] = built[q]
    BY <1>3, NotedForGood
  <2>2. CASE object'.body = object.body
    <3>1. object.body >= built[s] \/ \E q \in disturbed : built[q] = object.body
      BY <1>3 DEF ObjectInv
    <3> QED  BY <2>1, <2>2, <3>1
  <2>3. ASSUME NEW r \in Runs, pc[r] = "put", object'.body = built[r], Disturbs(r),
               built' = built
        PROVE  \/ object'.body >= built'[s]
               \/ \E q \in disturbed' : built'[q] = object'.body
    <3>1. CASE owner = r
      <4>1. built[s] <= local /\ local <= built[r]
        BY <1>1, <1>3, <2>3, <3>1 DEF ContentInv, RunContent, Saved
      <4> QED  BY <1>1, <2>3, <4>1
    <3>2. CASE owner # r
      BY <2>3, <3>2 DEF Disturbs
    <3> QED  BY <3>1, <3>2
  <2> QED  BY <2>2, <2>3, BodyStep
<1> QED  BY <1>2, <1>3

\* A put between its two files is one into the local store; the owner's has its
\* content in place, unless a put was ever disturbed.
BetweenFiles(s) ==
    pc[s] = "put_meta" =>
      /\ adapter = "local"
      /\ owner = s /\ disturbed = {} => object.body = built[s]

LEMMA BetweenFilesStep ==
  ASSUME TypeOK, ObjectInv, [Next]_vars, NEW s \in Runs
  PROVE  BetweenFiles(s)'
<1>0. BetweenFiles(s)
  BY DEF ObjectInv, BetweenFiles
<1> USE <1>0 DEF TypeOK, BetweenFiles, Goto, At
<1>1. CASE UNCHANGED vars
  BY <1>1 DEF vars
<1>2. ASSUME NEW r \in Runs, Acquire(r)  PROVE  BetweenFiles(s)'
  <2>1. /\ owner' = r /\ pc' = [pc EXCEPT ![r] = "heal"]
        /\ UNCHANGED <<adapter, object, built, disturbed>>
    BY <1>2 DEF Acquire
  <2> QED  BY <2>1
<1>3. ASSUME NEW r \in Runs, Crash(r) \/ Abort(r)  PROVE  BetweenFiles(s)'
  BY <1>3 DEF Crash, Abort, EndProcess, CutShort
<1>4. ASSUME NEW r \in Runs, Release(r)  PROVE  BetweenFiles(s)'
  BY <1>4, Zero DEF Release, ReleasedOwner, EndProcess
<1>5. ASSUME NEW r \in Runs, RunOverTime(r) \/ CheckRaises(r) \/ RecordRefused(r)
      PROVE  BetweenFiles(s)'
  BY <1>5 DEF RunOverTime, CheckRaises, RecordRefused
<1>6. ASSUME NEW r \in Runs, ReadsStatus(r) \/ RefreshesStatus(r) \/ SwallowsCheckpoint(r)
      PROVE  BetweenFiles(s)'
  BY <1>6 DEF ReadsStatus, RefreshesStatus, SwallowsCheckpoint
<1>7. ASSUME NEW r \in Runs, Build(r) \/ SaveLocal(r) \/ Report(r)  PROVE  BetweenFiles(s)'
  BY <1>7 DEF Build, SaveLocal, Report
<1>8. ASSUME NEW r \in Runs, Stat(r) \/ Confirm(r)  PROVE  BetweenFiles(s)'
  BY <1>8 DEF Stat, Confirm, Publish, ReplaceState
<1>9. ASSUME NEW r \in Runs, Put(r) \/ PutMetadata(r)  PROVE  BetweenFiles(s)'
  <2>1. /\ UNCHANGED <<owner, adapter, built>> /\ disturbed \subseteq disturbed'
        /\ owner # r => r \in disturbed'
    BY <1>9 DEF Put, PutMetadata, Disturbs, ReplaceState
  <2>2. s # r => pc'[s] = pc[s]
    BY <1>9 DEF Put, PutMetadata
  <2>3. CASE s # r
    BY <2>1, <2>2, <2>3
  <2>4. CASE s = r /\ Put(r)
    <3>1. /\ adapter = "local" => object'.body = built[r]
          /\ adapter # "local" => pc'[r] = "confirm"
      BY <2>4 DEF Put, PutBody
    <3> QED  BY <2>1, <2>4, <3>1
  <2>5. CASE s = r /\ PutMetadata(r)
    <3>1. pc'[s] = "confirm"
      BY <2>5 DEF PutMetadata
    <3> QED  BY <3>1
  <2> QED  BY <1>9, <2>3, <2>4, <2>5
<1>10. ASSUME NEW r \in Runs, FailProduct(r)  PROVE  BetweenFiles(s)'
  BY <1>10 DEF FailProduct, Disturbs, CutShort, PutBody, PutMeta, PutWhole, ReplaceState
<1>11. ASSUME NEW r \in Runs, WriteFinalStatus(r) \/ AppendRun(r) \/ FailFinish(r)
       PROVE  BetweenFiles(s)'
  BY <1>11 DEF WriteFinalStatus, AppendRun, FailFinish
<1> QED  BY <1>1, <1>2, <1>3, <1>4, <1>5, <1>6, <1>7, <1>8, <1>9, <1>10, <1>11, NextSteps

\* A run leaves the place between the two files by its second file, or is noted.
LEMMA BrokenStep ==
  ASSUME TypeOK, ObjectInv, [Next]_vars
  PROVE  BrokenOnlyByDisturbance'
<1> DEFINE Open == disturbed # {} \/ \E q \in Runs : pc[q] = "put_meta"
<1> USE DEF TypeOK, ObjectInv, BrokenOnlyByDisturbance, Goto, At
<1>1. CASE UNCHANGED vars
  BY <1>1 DEF vars
<1>2. ASSUME UNCHANGED <<adapter, object>>, Open => Open'  PROVE  BrokenOnlyByDisturbance'
  BY <1>2
<1>3. ASSUME NEW r \in Runs, pc[r] # "put_meta", UNCHANGED disturbed,
             \A q \in Runs \ {r} : pc'[q] = pc[q]
      PROVE  Open => Open'
  BY <1>3
<1>4. ASSUME NEW r \in Runs, Acquire(r) \/ CheckRaises(r) \/ RecordRefused(r)
      PROVE  BrokenOnlyByDisturbance'
  <2>1. pc[r] # "put_meta" /\ \A q \in Runs \ {r} : pc'[q] = pc[q]
    BY <1>4 DEF Acquire, CheckRaises, RecordRefused
  <2>2. UNCHANGED <<adapter, object, disturbed>>
    BY <1>4 DEF Acquire, CheckRaises, RecordRefused
  <2> QED  BY <1>2, <1>3, <2>1, <2>2
<1>5. ASSUME NEW r \in Runs, RunOverTime(r)  PROVE  BrokenOnlyByDisturbance'
  BY <1>5 DEF RunOverTime
<1>6. ASSUME NEW r \in Runs, Crash(r) \/ Abort(r)  PROVE  BrokenOnlyByDisturbance'
  <2>1. /\ UNCHANGED <<adapter, object>> /\ CutShort(r)
        /\ \A q \in Runs \ {r} : pc'[q] = pc[q]
    BY <1>6 DEF Crash, Abort, EndProcess
  <2>2. Open => Open'
    BY <2>1 DEF CutShort
  <2> QED  BY <1>2, <2>1, <2>2
<1>7. ASSUME NEW r \in Runs, ReadsStatus(r) \/ RefreshesStatus(r) \/ SwallowsCheckpoint(r)
      PROVE  BrokenOnlyByDisturbance'
  <2>1. pc[r] # "put_meta" /\ \A q \in Runs \ {r} : pc'[q] = pc[q]
    BY <1>7 DEF ReadsStatus, RefreshesStatus, SwallowsCheckpoint
  <2>2. UNCHANGED <<adapter, object, disturbed>>
    BY <1>7 DEF ReadsStatus, RefreshesStatus, SwallowsCheckpoint
  <2> QED  BY <1>2, <1>3, <2>1, <2>2
<1>8. ASSUME NEW r \in Runs, \/ Build(r) \/ SaveLocal(r) \/ Report(r)
                             \/ WriteFinalStatus(r) \/ AppendRun(r) \/ FailFinish(r)
      PROVE  BrokenOnlyByDisturbance'
  <2>1. pc[r] # "put_meta" /\ \A q \in Runs \ {r} : pc'[q] = pc[q]
    BY <1>8 DEF Build, SaveLocal, Report, WriteFinalStatus, AppendRun, FailFinish
  <2>2. UNCHANGED <<adapter, object, disturbed>>
    BY <1>8 DEF Build, SaveLocal, Report, WriteFinalStatus, AppendRun, FailFinish
  <2> QED  BY <1>2, <1>3, <2>1, <2>2
<1>9. ASSUME NEW r \in Runs, Stat(r) \/ Confirm(r) \/ Release(r)
      PROVE  BrokenOnlyByDisturbance'
  <2>1. pc[r] # "put_meta" /\ \A q \in Runs \ {r} : pc'[q] = pc[q]
    BY <1>9 DEF Stat, Confirm, Publish, Release, EndProcess
  <2>2. UNCHANGED <<adapter, object, disturbed>>
    BY <1>9 DEF Stat, Confirm, Release
  <2> QED  BY <1>2, <1>3, <2>1, <2>2
<1>10. ASSUME NEW r \in Runs, Put(r)  PROVE  BrokenOnlyByDisturbance'
  <2>1. CASE adapter = "local"
    <3>1. pc'[r] = "put_meta" /\ adapter' = "local"
      BY <1>10, <2>1 DEF Put
    <3> QED  BY <3>1
  <2>2. CASE adapter # "local"
    <3>1. object' = PutWhole(object, built[r])
      BY <1>10, <2>2 DEF Put
    <3>2. object'.body = object'.meta
      BY <3>1 DEF PutWhole, PutBody, PutMeta
    <3> QED  BY <3>2 DEF StatRaises
  <2> QED  BY <2>1, <2>2
<1>11. ASSUME NEW r \in Runs, PutMetadata(r)  PROVE  BrokenOnlyByDisturbance'
  BY <1>11 DEF PutMetadata, PutMeta, Disturbs, StatRaises, ReplaceState
<1>12. ASSUME NEW r \in Runs, FailProduct(r)  PROVE  BrokenOnlyByDisturbance'
  <2>1. UNCHANGED adapter /\ \A q \in Runs \ {r} : pc'[q] = pc[q]
    BY <1>12 DEF FailProduct
  <2>2. CASE UNCHANGED object /\ CutShort(r)
    <3>1. Open => Open'
      BY <2>1, <2>2 DEF CutShort
    <3> QED  BY <1>2, <2>1, <2>2, <3>1
  <2>3. CASE object' = PutWhole(object, built[r])
    BY <2>3 DEF PutBody, PutMeta, PutWhole, StatRaises
  <2> QED  BY <1>12, <2>2, <2>3 DEF FailProduct
<1> QED  BY <1>1, <1>4, <1>5, <1>6, <1>7, <1>8, <1>9, <1>10, <1>11, <1>12, NextSteps

LEMMA ObjectStep ==
  ASSUME TypeOK, ContentInv, ObjectInv, [Next]_vars
  PROVE  ObjectInv'
<1>1. /\ \A s \in Runs : StillPublic(s)'
      /\ \A s \in Runs : BetweenFiles(s)'
      /\ BrokenOnlyByDisturbance'
  BY StillPublicStep, BetweenFilesStep, BrokenStep
<1>2. published' \subseteq Runs
  BY TypeStep DEF TypeOK
<1> QED  BY <1>1, <1>2 DEF ObjectInv, StillPublic, BetweenFiles

-----------------------------------------------------------------------------
\* The invariant is inductive, and the properties follow from it.
LEMMA InitFenced == Init => FencedInv
<1> SUFFICES ASSUME Init  PROVE  FencedInv
  OBVIOUS
<1>1. TypeOK
  BY InitType
<1>2. Recorded = {} /\ \A r \in Runs : pc[r] = "idle" /\ built[r] = NoContent
  BY DEF Init, Recorded, Range
<1>3. LockInOrder
  BY <1>2 DEF LockInOrder, Started
<1>4. StatusInv /\ HistoryFollowsStatus /\ RecordedNotCurrent
  BY <1>2 DEF Init, StatusInv, HistoryFollowsStatus, RecordedNotCurrent
<1>5. ContentInv
  BY <1>2, Zero DEF Init, ContentInv, RunContent, Early, Saved, NoObject
<1>6. ObjectInv
  BY <1>2 DEF Init, ObjectInv, BrokenOnlyByDisturbance, StatRaises, NoObject
<1> QED  BY <1>1, <1>3, <1>4, <1>5, <1>6 DEF FencedInv

LEMMA FencedStep == FencedInv /\ [Next]_vars => FencedInv'
<1> SUFFICES ASSUME FencedInv, [Next]_vars  PROVE  FencedInv'
  OBVIOUS
<1>0. /\ TypeOK /\ LockInOrder /\ StatusInv /\ ContentInv /\ ObjectInv
      /\ HistoryFollowsStatus /\ RecordedNotCurrent
  BY DEF FencedInv
<1>1. TypeOK' /\ LockInOrder'
  BY <1>0, TypeStep, LockInOrderStep
<1>2. StatusInv'
  <2>1. \A s \in Runs : OwnersView(s)'
    BY <1>0, OwnersViewStep
  <2>2. \A r \in Recorded' : pc'[r] \in {"release", "ended", "lost"}
    BY <1>0, RecordedBehindStep
  <2> QED  BY <2>1, <2>2 DEF StatusInv, OwnersView
<1>3. ContentInv' /\ ObjectInv'
  BY <1>0, ContentStep, ObjectStep
<1>4. HistoryFollowsStatus' /\ RecordedNotCurrent'
  BY <1>0, HistoryStep
<1> QED  BY <1>1, <1>2, <1>3, <1>4 DEF FencedInv

\* What is true in every execution of overlapping runs.
LEMMA AlwaysFenced == Spec => []FencedInv
BY InitFenced, FencedStep, PTL DEF Spec

\* In every execution the history lists runs in the order they had the lock, none
\* twice, and status.json has seen each of them: neither a checkpoint of a later
\* run nor anything an overtaken run still writes takes last_run back.
THEOREM HistoryInOrder == Spec => []HistoryFollowsStatus
<1>1. FencedInv => HistoryFollowsStatus
  BY DEF FencedInv
<1> QED  BY <1>1, AlwaysFenced, PTL

\* In every execution status.json never shows a run at work that runs.jsonl
\* already lists as finished.
THEOREM RecordedIsOver == Spec => []RecordedNotCurrent
<1>1. FencedInv => RecordedNotCurrent
  BY DEF FencedInv
<1> QED  BY <1>1, AlwaysFenced, PTL

\* In every execution what is public was saved in the data root before, and no
\* older snapshot has been saved over it since.
THEOREM SavedBeforePublic == Spec => []LocalNotBehindPublic
<1>1. FencedInv => LocalNotBehindPublic
  BY DEF FencedInv, ContentInv, LocalNotBehindPublic
<1> QED  BY <1>1, AlwaysFenced, PTL

\* In every execution a run on record as having published has its content
\* public, or newer one, unless a put went on after its run had lost the lock
\* and left an older one.
THEOREM PublishedIsPublic == Spec => []PublishedStaysPublic
<1>1. FencedInv => PublishedStaysPublic
  BY DEF FencedInv, ObjectInv, PublishedStaysPublic
<1> QED  BY <1>1, AlwaysFenced, PTL

\* In every execution the public object cannot be read only in a local store,
\* and there only while a put is between its two files or after one was cut
\* short there or went on after its run had lost the lock.
THEOREM UnreadableOnlyByDisturbance == Spec => []BrokenOnlyByDisturbance
<1>1. FencedInv => BrokenOnlyByDisturbance
  BY DEF FencedInv, ObjectInv
<1> QED  BY <1>1, AlwaysFenced, PTL

=============================================================================
