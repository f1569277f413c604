---------------------------- MODULE IntakeProofs -----------------------------
(***************************************************************************)
(* One Source Hour, for any number of Bundles, page size, lookahead,       *)
(* threads and batch size: what the stream gives out is the listing, in    *)
(* its order and never too much at once, and what the intake commits fits  *)
(* its columns and fills its batches.                                      *)
(*                                                                         *)
(* The argument about the stream is about sets of Bundles.  The listing is *)
(* complete below its cursor.  What was submitted is a beginning of the    *)
(* listing, and splits into what the consumer is done with, the Bundle in  *)
(* hand, and what is pending, in this order; the last two together never   *)
(* exceed the lookahead, because a Bundle moves from one to the other.     *)
(***************************************************************************)
EXTENDS HourIntake, IntegerSetProofs, SequenceTheorems

USE DEF server

\* the Bundle in hand
Out == { b \in Bundles : b = awaited }

\* below the cursor, and everywhere when the listing has ended, nothing is
\* missing that was stored when it began
ListingInv ==
    /\ early \subseteq stored
    /\ main = "list" => \A b \in early : b <= cursor => b \in listed
    /\ main \in {"fill", "wait", "given"} => early \subseteq listed

\* the phases of the main thread
PhaseInv ==
    /\ main = "list" => pending = {} /\ yielded = {} /\ \A b \in Bundles : task[b] = "none"
    /\ main \in {"list", "fill"} => awaited = NoBundle
    /\ main \in {"wait", "given"} => awaited \in Bundles
    /\ main = "given" => task[awaited] = "bundle"
    /\ main \in {"closing", "ended"} => \A b \in Bundles : task[b] # "queued"

\* what was submitted: given out, in hand, pending
Taken == yielded \cup Out \cup pending
SubmittedInv ==
    /\ \A b \in Bundles : task[b] # "none" <=> b \in Taken
    /\ Taken \subseteq listed
    /\ \A b \in yielded : task[b] = "bundle"
    /\ \A b \in Taken, c \in listed : c < b => c \in Taken
    /\ \A b \in yielded : \A c \in Out \cup pending : b < c
    /\ \A b \in Out, c \in pending : b < c
    /\ Cardinality(Out \cup pending) <= Lookahead

CompleteInv == outcome = "complete" => main = "ended" /\ early \subseteq yielded

SourceInv == TypeOK /\ ListingInv /\ PhaseInv /\ SubmittedInv /\ CompleteInv

-----------------------------------------------------------------------------
LEMMA BundleSets ==
  /\ Bundles \subseteq Int /\ NoBundle \notin Bundles /\ IsFiniteSet(Bundles)
  /\ \A S \in SUBSET Bundles : IsFiniteSet(S) /\ S \subseteq Int /\ Cardinality(S) \in Nat
<1>1. IsFiniteSet(Bundles)
  BY FS_Interval, SourceAssumption DEF Bundles
<1>2. Bundles \subseteq Int /\ NoBundle \notin Bundles
  BY SourceAssumption DEF Bundles, NoBundle
<1>3. ASSUME NEW S \in SUBSET Bundles
      PROVE  IsFiniteSet(S) /\ S \subseteq Int /\ Cardinality(S) \in Nat
  BY <1>1, <1>2, FS_Subset, FS_CardinalityType
<1> QED  BY <1>1, <1>2, <1>3

\* A page is a beginning of what it is taken from, and is empty only if that is.
LEMMA PageIsPrefix ==
  ASSUME NEW items \in SUBSET Bundles
  PROVE  /\ FirstPage(items) \subseteq items
         /\ \A b \in FirstPage(items), c \in items : c <= b => c \in FirstPage(items)
         /\ items # {} => FirstPage(items) # {}
<1> DEFINE UpThrough(b) == { c \in items : c <= b }
<1>1. ASSUME NEW b \in items
      PROVE  UpThrough(b) \in SUBSET Bundles /\ IsFiniteSet(UpThrough(b)) /\ Cardinality(UpThrough(b)) \in Nat
  BY BundleSets
<1>2. ASSUME NEW b \in FirstPage(items), NEW c \in items, c <= b
      PROVE  c \in FirstPage(items)
  <2>1. b \in items /\ Cardinality(UpThrough(b)) <= PageLimit
    BY DEF FirstPage
  <2>2. UpThrough(c) \in SUBSET UpThrough(b)
    <3> SUFFICES ASSUME NEW x \in UpThrough(c)  PROVE  x \in UpThrough(b)
      OBVIOUS
    <3>1. x \in Int /\ c \in Int /\ b \in Int
      BY <2>1, BundleSets
    <3> QED  BY <1>2, <3>1
  <2>3. Cardinality(UpThrough(c)) <= Cardinality(UpThrough(b))
    BY <1>1, <2>1, <2>2, FS_Subset
  <2>4. Cardinality(UpThrough(c)) <= PageLimit
    <3> DEFINE m == Cardinality(UpThrough(c))
               n == Cardinality(UpThrough(b))
    <3>1. m \in Nat /\ n \in Nat /\ m <= n /\ n <= PageLimit /\ PageLimit \in Nat
      BY <1>1, <2>1, <2>3, SourceAssumption
    <3> HIDE DEF m, n
    <3>2. m <= PageLimit
      BY <3>1
    <3> QED  BY <3>2 DEF m
  <2> QED  BY <2>4 DEF FirstPage
<1>3. ASSUME items # {}  PROVE  FirstPage(items) # {}
  <2>1. PICK b \in items : \A c \in items : b <= c
    BY <1>3, BundleSets, LeastExists
  <2>2. UpThrough(b) = {b}
    <3>1. \A c \in items : c \in Int
      BY BundleSets
    <3> QED  BY <2>1, <3>1
  <2>3. Cardinality(UpThrough(b)) = 1
    BY <2>2, FS_Singleton
  <2> QED  BY <2>3, SourceAssumption DEF FirstPage
<1> QED  BY <1>2, <1>3 DEF FirstPage

\* What a listing step takes its page from.
LEMMA PageSource ==
  ASSUME TypeOK, NEW items \in {After, FromCursor}
  PROVE  /\ items \in SUBSET Bundles
         /\ \A b \in stored : b <= cursor \/ b \in items
<1>1. cursor \in Int /\ \A b \in stored : b \in Int
  BY SourceAssumption DEF TypeOK, Bundles, NoBundle
<1> QED  BY <1>1 DEF TypeOK, After, FromCursor

LEMMA PageMax ==
  ASSUME NEW items \in SUBSET Bundles, FirstPage(items) # items
  PROVE  /\ Max(FirstPage(items)) \in FirstPage(items)
         /\ Max(FirstPage(items)) \in Bundles
         /\ \A b \in items : b <= Max(FirstPage(items)) => b \in FirstPage(items)
<1>1. FirstPage(items) # {} /\ FirstPage(items) \in SUBSET Bundles
  BY PageIsPrefix
<1>2. Max(FirstPage(items)) \in FirstPage(items)
  BY <1>1, BundleSets, MaxIsGreatest
<1> QED  BY <1>1, <1>2, PageIsPrefix

LEMMA NextSubmitted ==
  ASSUME TypeOK, CanSubmit
  PROVE  LET next == Min(listed \ Submitted)
         IN  /\ next \in listed /\ task[next] = "none"
             /\ \A c \in listed : c < next => task[c] # "none"
<1> DEFINE S == listed \ Submitted
<1>1. S # {} /\ S \in SUBSET Bundles
  BY DEF CanSubmit, Submitted, TypeOK
<1>2. Min(S) \in S /\ \A b \in S : Min(S) <= b
  BY <1>1, BundleSets, MinIsLeast
<1>3. S \subseteq Int /\ listed \subseteq Int
  BY <1>1, BundleSets DEF TypeOK
<1> QED  BY <1>2, <1>3 DEF Submitted

-----------------------------------------------------------------------------
\* What the threads and the server do to the stream.

LEMMA PoolEffect ==
  ASSUME TypeOK, PoolStep
  PROVE  /\ UNCHANGED threads
         /\ \E b \in Bundles :
              /\ task[b] \in Active \cup {"queued"}
              /\ \E result \in Active \cup {"bundle"} \cup Failures :
                   task' = [task EXCEPT ![b] = result]
<1> USE DEF threads, Active, Failures
<1>1. PICK b \in Bundles : Start(b) \/ ThreadStep(b)
  BY DEF PoolStep
<1>2. CASE Start(b)
  BY <1>2 DEF Start, FirstQueued
<1>3. CASE EnterRefresh(b)
  BY <1>3 DEF EnterRefresh
<1>4. ASSUME NEW result \in Tasks, Download(b, result) \/ DownloadAgain(b, result)
      PROVE  /\ UNCHANGED threads /\ task[b] \in Active
             /\ result \in Active \cup {"bundle"} \cup Failures
             /\ task' = [task EXCEPT ![b] = result]
  BY <1>4 DEF Download, DownloadAgain
<1>5. ASSUME NEW result \in Tasks, Relist(b, result)
      PROVE  /\ UNCHANGED threads /\ task[b] \in Active
             /\ result \in Active \cup {"bundle"} \cup Failures
             /\ task' = [task EXCEPT ![b] = result]
  BY <1>5 DEF Relist
<1> HIDE DEF threads, Active, Failures
<1> QED  BY <1>1, <1>2, <1>3, <1>4, <1>5 DEF ThreadStep

LEMMA ServerEffect ==
  ASSUME ServerStep
  PROVE  UNCHANGED <<stream_state, early>> /\ stored \subseteq stored'
<1>1. ASSUME NEW b \in Bundles, Arrive(b)
      PROVE  UNCHANGED <<stream_state, early>> /\ stored \subseteq stored'
  BY <1>1 DEF Arrive, stream_state
<1>2. CASE Retire \/ PassRetention
  BY <1>2 DEF Retire, PassRetention, stream_state
<1> QED  BY <1>1, <1>2 DEF ServerStep

\* Types.
StreamTypes ==
    /\ main \in {"list", "fill", "wait", "given", "cancelling", "closing", "ended"}
    /\ cursor \in Bundles \cup {NoBundle} /\ listed \subseteq Bundles
    /\ pending \subseteq Bundles
    /\ awaited \in Bundles \cup {NoBundle} /\ yielded \subseteq Bundles
    /\ outcome \in {"none", "complete", "closed"} \cup Failures
ServerTypes == stored \subseteq Bundles /\ early \subseteq Bundles /\ gone \in BOOLEAN /\ past \in BOOLEAN
ThreadTypes ==
    /\ task \in [Bundles -> Tasks] /\ refresher \in Bundles \cup {NoBundle}
    /\ \A b \in Bundles : task[b] = "relist" <=> refresher = b

LEMMA TypesSplit == TypeOK <=> StreamTypes /\ ServerTypes /\ ThreadTypes
BY DEF TypeOK, StreamTypes, ServerTypes, ThreadTypes

LEMMA ThreadTypesStep ==
  ASSUME TypeOK, [Next]_vars
  PROVE  ThreadTypes'
<1>0. ThreadTypes /\ NoBundle \notin Bundles
  BY TypesSplit, BundleSets
<1> USE DEF ThreadTypes
<1>1. ASSUME UNCHANGED <<task, refresher>>  PROVE  ThreadTypes'
  BY <1>0, <1>1
<1>2. CASE UNCHANGED vars
  BY <1>1, <1>2 DEF vars
<1>3. CASE ServerStep
  BY <1>1, <1>3, ServerEffect DEF stream_state
<1>4. ASSUME NEW b \in Bundles, Start(b) \/ EnterRefresh(b)  PROVE  ThreadTypes'
  BY <1>0, <1>4 DEF Start, FirstQueued, EnterRefresh, Tasks, Active
<1>5. ASSUME NEW b \in Bundles, NEW result \in Tasks,
             Download(b, result) \/ DownloadAgain(b, result)
      PROVE  ThreadTypes'
  <2>1. /\ task' = [task EXCEPT ![b] = result] /\ refresher' = refresher
        /\ task[b] # "relist" /\ result # "relist"
    BY <1>5 DEF Download, DownloadAgain, Failures
  <2> QED  BY <1>0, <2>1
<1>6. ASSUME NEW b \in Bundles, NEW result \in Tasks, Relist(b, result)
      PROVE  ThreadTypes'
  <2>1. /\ task' = [task EXCEPT ![b] = result] /\ refresher' = NoBundle
        /\ task[b] = "relist" /\ result # "relist"
    BY <1>6 DEF Relist, LeaveRefresh
  <2> QED  BY <1>0, <2>1
<1>7. CASE ListOrWait \/ Resume \/ Complete \/ Close \/ Leave
  <2>1. CASE Submit
    <3>1. task' = [task EXCEPT ![Min(listed \ Submitted)] = "queued"] /\ refresher' = refresher
          /\ CanSubmit
      BY <2>1 DEF Submit
    <3>2. Min(listed \ Submitted) \in Bundles /\ task[Min(listed \ Submitted)] = "none"
      BY <3>1, NextSubmitted DEF TypeOK
    <3>3. "queued" \in Tasks
      BY DEF Tasks
    <3> HIDE DEF Submitted
    <3> QED  BY <1>0, <3>1, <3>2, <3>3
  <2>2. ASSUME NEW b \in Bundles, CancelNext(b)  PROVE  ThreadTypes'
    <3>1. task[b] = "queued" /\ task' = [task EXCEPT ![b] = "cancelled"] /\ refresher' = refresher
      BY <2>2 DEF CancelNext, FirstQueued
    <3>2. "cancelled" \in Tasks
      BY DEF Tasks
    <3> QED  BY <1>0, <3>1, <3>2
  <2>3. CASE \E items \in {After, FromCursor} : ListPage(items)
    BY <1>1, <2>3 DEF ListPage
  <2>4. CASE \E failure \in Failures : FailListing(failure)
    BY <1>1, <2>4 DEF FailListing
  <2>5. CASE (\E b \in Bundles : Await(b)) \/ Yield \/ EndClosing \/ Resume \/ Complete
    BY <1>1, <2>5 DEF Await, Yield, EndClosing, Resume, Complete
  <2>6. CASE Raise \/ Close \/ Leave \/ EndCancelling
    BY <1>1, <2>6 DEF Raise, Close, ShutDown, Leave, EndCancelling
  <2> QED  BY <1>7, <2>1, <2>2, <2>3, <2>4, <2>5, <2>6 DEF ListOrWait
<1> QED
  BY <1>2, <1>3, <1>4, <1>5, <1>6, <1>7 DEF Next, PoolStep, ThreadStep, MainStep

LEMMA ServerTypesStep ==
  ASSUME TypeOK, [Next]_vars
  PROVE  ServerTypes'
<1>0. ServerTypes
  BY TypesSplit
<1> USE DEF ServerTypes
<1>1. ASSUME UNCHANGED server  PROVE  ServerTypes'
  BY <1>0, <1>1
<1>2. CASE UNCHANGED vars
  BY <1>1, <1>2 DEF vars
<1>3. CASE ServerStep
  BY <1>0, <1>3 DEF ServerStep, Arrive, Retire, PassRetention
<1>4. CASE PoolStep
  BY <1>1, <1>4, PoolEffect DEF threads
<1>5. CASE MainStep \/ Close \/ Leave
  BY <1>1, <1>5 DEF MainStep, ListOrWait, ListPage, FailListing, Submit, Await, Yield,
     Raise, Close, Leave, ShutDown, CancelNext, EndCancelling, EndClosing, Resume, Complete
<1> QED  BY <1>2, <1>3, <1>4, <1>5 DEF Next

LEMMA StreamTypesStep ==
  ASSUME TypeOK, PhaseInv, [Next]_vars
  PROVE  StreamTypes'
<1>0. StreamTypes
  BY TypesSplit
<1> USE DEF StreamTypes
<1>1. ASSUME UNCHANGED <<main, cursor, listed, pending, awaited, yielded, outcome>>
      PROVE  StreamTypes'
  BY <1>0, <1>1
<1>2. CASE UNCHANGED vars \/ ServerStep \/ PoolStep
  BY <1>1, <1>2, ServerEffect, PoolEffect DEF vars, threads, stream_state
<1>3. ASSUME NEW items \in {After, FromCursor}, ListPage(items)  PROVE  StreamTypes'
  <2>1. items \in SUBSET Bundles
    BY PageSource
  <2>2. /\ FirstPage(items) \subseteq Bundles
        /\ FirstPage(items) # items => Max(FirstPage(items)) \in Bundles
    BY <2>1, PageIsPrefix, PageMax
  <2>3. /\ main' \in {main, "fill", "ended"} /\ listed' = listed \cup FirstPage(items)
        /\ cursor' = cursor \/ (cursor' = Max(FirstPage(items)) /\ FirstPage(items) # items)
        /\ outcome' \in {outcome, "contract", "expired"}
        /\ UNCHANGED <<pending, awaited, yielded>>
    BY <1>3 DEF ListPage, EndWith
  <2> QED  BY <1>0, <2>2, <2>3 DEF Failures
<1>4. ASSUME NEW failure \in Failures, FailListing(failure)  PROVE  StreamTypes'
  BY <1>0, <1>4 DEF FailListing, EndWith
<1>5. CASE Submit
  <2>1. CanSubmit /\ pending' = pending \cup {Min(listed \ Submitted)}
        /\ UNCHANGED <<main, cursor, listed, awaited, yielded, outcome>>
    BY <1>5 DEF Submit
  <2>2. Min(listed \ Submitted) \in Bundles
    BY <2>1, NextSubmitted DEF TypeOK
  <2> QED  BY <1>0, <2>1, <2>2
<1>6. ASSUME NEW b \in Bundles, Await(b)  PROVE  StreamTypes'
  BY <1>0, <1>6 DEF Await
<1>7. CASE Yield \/ EndCancelling \/ EndClosing \/ Complete \/ Leave
  BY <1>0, <1>7 DEF Yield, EndCancelling, EndClosing, Complete, Leave, EndWith
<1>8. CASE Raise \/ Close \/ \E b \in Bundles : CancelNext(b)
  BY <1>0, <1>8 DEF Raise, Close, ShutDown, CancelNext
<1>9. CASE Resume
  BY <1>0, <1>9 DEF Resume, PhaseInv
<1> QED
  BY <1>2, <1>3, <1>4, <1>5, <1>6, <1>7, <1>8, <1>9 DEF Next, MainStep, ListOrWait

LEMMA TypeStep == TypeOK /\ PhaseInv /\ [Next]_vars => TypeOK'
<1>1. TypeOK' <=> StreamTypes' /\ ServerTypes' /\ ThreadTypes'
  BY DEF TypeOK, StreamTypes, ServerTypes, ThreadTypes
<1> QED  BY <1>1, StreamTypesStep, ServerTypesStep, ThreadTypesStep

-----------------------------------------------------------------------------
\* The stream.

LEMMA ListingStep ==
  ASSUME TypeOK, ListingInv, [Next]_vars
  PROVE  ListingInv'
<1> USE DEF ListingInv
<1>0. early \subseteq Bundles /\ stored \subseteq Bundles /\ listed \subseteq Bundles
  BY DEF TypeOK
<1>1. CASE UNCHANGED vars \/ ServerStep \/ PoolStep
  BY <1>1, ServerEffect, PoolEffect DEF vars, threads, stream_state
<1>2. ASSUME NEW items \in {After, FromCursor}, ListPage(items)  PROVE  ListingInv'
  <2> DEFINE page == FirstPage(items)
  <2>1. /\ main = "list" /\ listed' = listed \cup page /\ UNCHANGED server
        /\ \/ main' = "list" /\ cursor' = Max(page) /\ page # items
           \/ main' = "fill" /\ page = items
           \/ main' = "ended"
    BY <1>2 DEF ListPage, EndWith
  <2>2. items \in SUBSET Bundles /\ \A b \in early : b <= cursor \/ b \in items
    BY PageSource
  <2>3. page # items => \A b \in items : b <= Max(page) => b \in page
    BY <2>2, PageMax
  <2> HIDE DEF page
  <2>4. ASSUME NEW b \in early  PROVE  b \in listed \/ b \in items
    BY <2>1, <2>2
  <2>5. CASE main' = "list" /\ cursor' = Max(page) /\ page # items
    BY <2>1, <2>3, <2>4, <2>5
  <2>6. CASE main' = "fill" /\ page = items
    BY <2>1, <2>4, <2>6
  <2> QED  BY <2>1, <2>5, <2>6
<1>3. ASSUME NEW failure \in Failures, FailListing(failure)  PROVE  ListingInv'
  BY <1>3 DEF FailListing, EndWith
<1>4. CASE Submit \/ (\E b \in Bundles : Await(b)) \/ Yield \/ Resume
  BY <1>4 DEF Submit, Await, Yield, Resume
<1>5. CASE Raise \/ Close \/ EndCancelling \/ EndClosing \/ Complete \/ Leave
  BY <1>5 DEF Raise, Close, ShutDown, EndCancelling, EndClosing, Complete, Leave, EndWith
<1>6. ASSUME NEW b \in Bundles, CancelNext(b)  PROVE  ListingInv'
  BY <1>6 DEF CancelNext
<1> QED
  BY <1>1, <1>2, <1>3, <1>4, <1>5, <1>6 DEF Next, MainStep, ListOrWait

LEMMA PhaseStep ==
  ASSUME TypeOK, PhaseInv, SubmittedInv, [Next]_vars
  PROVE  PhaseInv'
<1> USE DEF PhaseInv
<1>0. task \in [Bundles -> Tasks] /\ yielded \subseteq Bundles
  BY DEF TypeOK
<1>1. CASE UNCHANGED vars \/ ServerStep
  BY <1>1, ServerEffect DEF vars, stream_state
<1>2. CASE PoolStep
  <2>1. PICK b \in Bundles, result \in Active \cup {"bundle"} \cup Failures :
          /\ task[b] \in Active \cup {"queued"} /\ task' = [task EXCEPT ![b] = result]
          /\ UNCHANGED threads
    BY <1>2, PoolEffect
  <2>2. task[b] \notin {"none", "bundle"} /\ result # "queued"
    BY <2>1 DEF Active, Failures
  <2> QED  BY <1>0, <2>1, <2>2 DEF threads
<1>3. ASSUME NEW items \in {After, FromCursor}, ListPage(items)  PROVE  PhaseInv'
  BY <1>3 DEF ListPage, EndWith
<1>4. ASSUME NEW failure \in Failures, FailListing(failure)  PROVE  PhaseInv'
  BY <1>4 DEF FailListing, EndWith
<1>5. CASE Submit \/ Resume
  BY <1>5 DEF Submit, Resume
<1>6. ASSUME NEW b \in Bundles, Await(b)  PROVE  PhaseInv'
  BY <1>6 DEF Await
<1>7. CASE Yield \/ EndCancelling \/ EndClosing
  BY <1>7 DEF Yield, EndCancelling, NoneQueued, EndClosing
<1>8. CASE Raise \/ Close \/ \E b \in Bundles : CancelNext(b)
  BY <1>8 DEF Raise, Close, ShutDown, CancelNext
<1>9. CASE Complete
  <2>1. /\ main' = "ended" /\ yielded = listed /\ task' = task
    BY <1>9 DEF Complete, EndWith
  <2>2. \A b \in Bundles : task[b] # "none" => task[b] = "bundle"
    BY <2>1 DEF SubmittedInv
  <2> QED  BY <2>1, <2>2
<1>10. CASE Leave
  <2>1. main = "fill" /\ main' = "ended" /\ Submitted = {} /\ task' = task
    BY <1>10 DEF Leave, EndWith
  <2>2. \A b \in Bundles : task[b] # "none" => b \in listed
    BY DEF SubmittedInv
  <2>3. \A b \in Bundles : task[b] = "none"
    BY <2>1, <2>2 DEF Submitted
  <2> QED  BY <2>1, <2>3
<1> QED
  BY <1>1, <1>2, <1>3, <1>4, <1>5, <1>6, <1>7, <1>8, <1>9, <1>10 DEF Next, MainStep,
     ListOrWait

LEMMA SubmittedStep ==
  ASSUME TypeOK, PhaseInv, SubmittedInv, [Next]_vars
  PROVE  SubmittedInv'
<1>0. /\ task \in [Bundles -> Tasks] /\ yielded \subseteq Bundles /\ pending \subseteq Bundles
      /\ listed \subseteq Bundles /\ Bundles \subseteq Int /\ NoBundle \notin Bundles
      /\ Out \subseteq Bundles /\ Lookahead \in Nat
  BY BundleSets, SourceAssumption DEF TypeOK, Out
<1>1. ASSUME UNCHANGED <<listed, pending, awaited, yielded>>,
             \A b \in Bundles : /\ task'[b] = "none" <=> task[b] = "none"
                                /\ task[b] = "bundle" => task'[b] = "bundle"
      PROVE  SubmittedInv'
  BY <1>0, <1>1 DEF SubmittedInv, Taken, Out
<1>2. CASE UNCHANGED vars \/ ServerStep
  BY <1>1, <1>2, ServerEffect DEF vars, stream_state
<1>3. CASE PoolStep
  <2>1. PICK b \in Bundles, result \in Active \cup {"bundle"} \cup Failures :
          /\ task[b] \in Active \cup {"queued"} /\ task' = [task EXCEPT ![b] = result]
          /\ UNCHANGED threads
    BY <1>3, PoolEffect
  <2>2. task[b] \notin {"none", "bundle"} /\ result # "none"
    BY <2>1 DEF Active, Failures
  <2> QED  BY <1>0, <1>1, <2>1, <2>2 DEF threads
<1>4. ASSUME NEW items \in {After, FromCursor}, ListPage(items)  PROVE  SubmittedInv'
  <2>1. /\ UNCHANGED <<task, pending, awaited, yielded>> /\ Taken = {}
    BY <1>0, <1>4 DEF ListPage, PhaseInv, Taken, Out
  <2>2. Taken' = {} /\ Out' = Out
    BY <2>1 DEF Taken, Out
  <2> QED  BY <2>1, <2>2 DEF SubmittedInv, Taken
<1>5. CASE \/ (\E failure \in Failures : FailListing(failure)) \/ Yield \/ Complete
           \/ Raise \/ Close \/ Leave \/ EndCancelling \/ EndClosing
  BY <1>1, <1>5 DEF FailListing, Yield, Complete, Raise, Close, ShutDown, Leave,
     EndCancelling, EndClosing
<1>6. ASSUME NEW b \in Bundles, CancelNext(b)  PROVE  SubmittedInv'
  <2>1. /\ task[b] = "queued" /\ task' = [task EXCEPT ![b] = "cancelled"]
        /\ UNCHANGED <<listed, pending, awaited, yielded>>
    BY <1>6 DEF CancelNext, FirstQueued
  <2> QED  BY <1>0, <1>1, <2>1
<1>7. CASE Submit
  <2> DEFINE next == Min(listed \ Submitted)
  <2>1. /\ main = "fill" /\ CanSubmit /\ task' = [task EXCEPT ![next] = "queued"]
        /\ pending' = pending \cup {next} /\ UNCHANGED <<listed, awaited, yielded>>
    BY <1>7 DEF Submit
  <2>2. /\ next \in listed /\ task[next] = "none"
        /\ \A c \in listed : c < next => task[c] # "none"
    BY <2>1, NextSubmitted
  <2>3. Out = {} /\ Out' = {}
    BY <1>0, <2>1 DEF PhaseInv, Out
  <2>4. Cardinality(pending') <= Lookahead
    <3>1. /\ IsFiniteSet(pending) /\ Cardinality(pending) \in Nat
          /\ Cardinality(pending) < Lookahead
      BY <1>0, <2>1, BundleSets DEF CanSubmit
    <3>2. Cardinality(pending') \in {Cardinality(pending), Cardinality(pending) + 1}
      BY <2>1, <3>1, FS_AddElement
    <3> QED  BY <1>0, <3>1, <3>2
  <2> HIDE DEF next
  <2>5. next \notin Taken /\ Taken' = Taken \cup {next}
    BY <1>0, <2>1, <2>2, <2>3 DEF SubmittedInv, Taken
  <2>6. \A b \in Taken : b < next
    BY <1>0, <2>2, <2>5 DEF SubmittedInv
  <2>7. \A b \in Taken', c \in listed' : c < b => c \in Taken'
    BY <1>0, <2>1, <2>2, <2>5 DEF SubmittedInv
  <2>8. \A b \in Bundles : task'[b] # "none" <=> b \in Taken'
    BY <1>0, <2>1, <2>5 DEF SubmittedInv
  <2>9. \A b \in yielded' : task'[b] = "bundle"
    BY <1>0, <2>1, <2>2 DEF SubmittedInv
  <2>10. \A b \in yielded' : \A c \in Out' \cup pending' : b < c
    BY <2>1, <2>3, <2>6 DEF SubmittedInv, Taken
  <2> QED
    BY <2>1, <2>2, <2>3, <2>4, <2>5, <2>7, <2>8, <2>9, <2>10 DEF SubmittedInv
<1>8. ASSUME NEW b \in Bundles, Await(b)  PROVE  SubmittedInv'
  <2>1. /\ main = "fill" /\ NextAwaited(b) /\ awaited' = b /\ pending' = pending \ {b}
        /\ UNCHANGED <<listed, task, yielded>>
    BY <1>8 DEF Await
  <2>2. Out = {} /\ Out' = {b} /\ b \in pending /\ \A c \in pending : b <= c
    BY <1>0, <2>1 DEF PhaseInv, Out, NextAwaited
  <2>3. Out' \cup pending' = Out \cup pending /\ Taken' = Taken
    BY <2>1, <2>2 DEF Taken
  <2>4. \A a \in Out', c \in pending' : a < c
    BY <1>0, <2>1, <2>2
  <2> QED  BY <2>1, <2>3, <2>4 DEF SubmittedInv
<1>9. CASE Resume
  <2>1. /\ main = "given" /\ yielded' = yielded \cup {awaited} /\ awaited' = NoBundle
        /\ UNCHANGED <<listed, task, pending>>
    BY <1>9 DEF Resume
  <2>2. /\ awaited \in Bundles /\ task[awaited] = "bundle" /\ Out = {awaited} /\ Out' = {}
    BY <1>0, <2>1 DEF PhaseInv, Out
  <2>3. Taken' = Taken
    BY <2>1, <2>2 DEF Taken
  <2>4. Cardinality(Out' \cup pending') <= Lookahead
    <3>1. Out' \cup pending' \in SUBSET (Out \cup pending)
      BY <2>1, <2>2
    <3>2. /\ IsFiniteSet(Out \cup pending) /\ Cardinality(Out \cup pending) \in Nat
          /\ Cardinality(Out' \cup pending') \in Nat
      BY <1>0, <2>1, <2>2, BundleSets
    <3>3. Cardinality(Out' \cup pending') <= Cardinality(Out \cup pending)
      BY <3>1, <3>2, FS_Subset
    <3> QED  BY <1>0, <3>2, <3>3 DEF SubmittedInv
  <2>5. \A b \in yielded' : task'[b] = "bundle" /\ \A c \in Out' \cup pending' : b < c
    BY <2>1, <2>2 DEF SubmittedInv
  <2> QED  BY <2>1, <2>2, <2>3, <2>4, <2>5 DEF SubmittedInv
<1> QED
  BY <1>2, <1>3, <1>4, <1>5, <1>6, <1>7, <1>8, <1>9 DEF Next, MainStep, ListOrWait

LEMMA CompleteStep ==
  ASSUME ListingInv, CompleteInv, [Next]_vars, TypeOK
  PROVE  CompleteInv'
<1> USE DEF CompleteInv
<1>1. CASE UNCHANGED vars \/ ServerStep \/ PoolStep
  BY <1>1, ServerEffect, PoolEffect DEF vars, threads, stream_state
<1>2. ASSUME NEW items \in {After, FromCursor}, ListPage(items)  PROVE  CompleteInv'
  BY <1>2 DEF ListPage, EndWith
<1>3. ASSUME NEW failure \in Failures, FailListing(failure)  PROVE  CompleteInv'
  BY <1>3 DEF FailListing, EndWith, Failures
<1>4. CASE \/ Submit \/ (\E b \in Bundles : Await(b)) \/ Yield \/ Resume
           \/ (\E b \in Bundles : CancelNext(b)) \/ EndCancelling \/ EndClosing
  BY <1>4 DEF Submit, Await, Yield, Resume, CancelNext, EndCancelling, EndClosing
<1>5. CASE Raise \/ Close \/ Leave
  BY <1>5 DEF Raise, Close, Leave, EndWith, ShutDown, Failures
<1>6. CASE Complete
  BY <1>6 DEF Complete, EndWith, ListingInv
<1> QED
  BY <1>1, <1>2, <1>3, <1>4, <1>5, <1>6 DEF Next, MainStep, ListOrWait

LEMMA SourceInvariant == Spec => []SourceInv
<1>1. Init => SourceInv
  <2> SUFFICES ASSUME Init  PROVE  SourceInv
    OBVIOUS
  <2>1. NoBundle \notin Bundles /\ Lookahead \in Nat /\ Cardinality({}) = 0
    BY BundleSets, SourceAssumption, FS_EmptySet
  <2>2. Out = {} /\ pending = {} /\ Taken = {}
    BY <2>1 DEF Init, Out, Taken
  <2>3. TypeOK
    BY <2>1 DEF Init, TypeOK, Tasks
  <2>4. ListingInv /\ PhaseInv /\ CompleteInv
    <3>1. \A b \in early : ~(b <= cursor)
      BY SourceAssumption DEF Init, Bundles, NoBundle
    <3> QED  BY <3>1 DEF Init, ListingInv, PhaseInv, CompleteInv
  <2>5. SubmittedInv
    BY <2>1, <2>2 DEF Init, SubmittedInv
  <2> QED  BY <2>3, <2>4, <2>5 DEF SourceInv
<1>2. SourceInv /\ [Next]_vars => SourceInv'
  BY TypeStep, ListingStep, PhaseStep, SubmittedStep, CompleteStep DEF SourceInv
<1> QED  BY <1>1, <1>2, PTL DEF Spec

\* The intake adds nothing to what the source does: each of its steps is a step
\* of the source or leaves it as it is.
LEMMA IntakeStep == [IntakeNext]_allVars => [Next]_vars
<1>1. CASE UNCHANGED allVars
  BY <1>1 DEF allVars
<1>2. ASSUME NEW p \in Payloads, Consume(p)  PROVE  [Next]_vars
  BY <1>2 DEF Consume, Next, MainStep
<1>3. CASE EndProjection
  BY <1>3 DEF EndProjection, Next, MainStep
<1>4. CASE Promote \/ FailWriting
  BY <1>4 DEF Promote, FailWriting
<1>5. CASE CloseStream \/ FailBeforeStream
  BY <1>5 DEF CloseStream, FailBeforeStream, Next
<1>6. CASE SourceStep(ListOrWait) \/ SourceStep(ServerStep) \/ SourceStep(PoolStep)
  BY <1>6 DEF SourceStep, Next, MainStep
<1> QED
  BY <1>1, <1>2, <1>3, <1>4, <1>5, <1>6 DEF IntakeNext, IntakeMainStep

LEMMA IntakeIsSource == IntakeSpec => Spec
<1>1. IntakeInit => Init
  BY DEF IntakeInit
<1> QED  BY <1>1, IntakeStep, PTL DEF IntakeSpec, Spec

LEMMA IntakeSourceInvariant == IntakeSpec => []SourceInv
BY SourceInvariant, IntakeIsSource, PTL

\* A stream that ends well has given out every Bundle the hour had when its
\* listing began, for any page size and whatever arrives, repeats, expires or
\* fails meanwhile (BundleSource.hour_index, stream).
THEOREM StreamIsWhole == IntakeSpec => []HourWhole
<1>1. SourceInv => HourWhole
  BY DEF SourceInv, CompleteInv, HourWhole
<1> QED  BY <1>1, IntakeSourceInvariant, PTL

\* The consumer is handed a beginning of the index, in its order, for any number
\* of threads that finish in any order (BundleSource.stream).
THEOREM StreamInOrder == IntakeSpec => []YieldedInOrder
<1>1. SourceInv => YieldedInOrder
  <2> SUFFICES ASSUME SourceInv, NEW b \in Given, NEW c \in listed, c < b
               PROVE  c \in Given
    BY DEF YieldedInOrder
  <2>1. /\ listed \subseteq Bundles /\ yielded \subseteq Bundles /\ Bundles \subseteq Int
        /\ main = "given" => awaited \in Bundles
    BY BundleSets DEF SourceInv, TypeOK, PhaseInv
  <2>2. b \in yielded \/ (main = "given" /\ b \in Out)
    BY <2>1 DEF Given, Out
  <2>3. c \in Taken
    BY <2>2 DEF SourceInv, SubmittedInv, Taken
  <2>4. c \in Int /\ b \in Int
    BY <2>1, <2>2 DEF Out
  <2>5. CASE c \in pending
    BY <2>2, <2>4, <2>5 DEF SourceInv, SubmittedInv
  <2>6. CASE c \in Out
    BY <2>2, <2>4, <2>6 DEF SourceInv, SubmittedInv, Given, Out
  <2>7. CASE c \in yielded
    BY <2>7 DEF Given
  <2> QED  BY <2>3, <2>5, <2>6, <2>7 DEF Taken
<1> QED  BY <1>1, IntakeSourceInvariant, PTL

\* No more than Lookahead Bundles are under way, waiting or in the consumer's
\* hands (BundleSource.stream).
THEOREM BoundedLookahead == IntakeSpec => []RetainsAtMostLookahead
<1>1. SourceInv => RetainsAtMostLookahead
  <2> SUFFICES ASSUME SourceInv  PROVE  RetainsAtMostLookahead
    OBVIOUS
  <2> DEFINE kept == { b \in listed : task[b] \in {"queued", "bundle"} \cup Active } \ yielded
  <2>1. /\ Out \cup pending \in SUBSET Bundles /\ listed \subseteq Bundles /\ Lookahead \in Nat
        /\ Cardinality(Out \cup pending) <= Lookahead
    BY SourceAssumption DEF SourceInv, TypeOK, SubmittedInv, Out
  <2>2. kept \in SUBSET (Out \cup pending)
    BY <2>1 DEF SourceInv, SubmittedInv, Taken, Active
  <2>3. /\ Cardinality(kept) <= Cardinality(Out \cup pending) /\ Cardinality(kept) \in Nat
        /\ Cardinality(Out \cup pending) \in Nat
    BY <2>1, <2>2, BundleSets, FS_Subset
  <2> HIDE DEF kept
  <2>4. Cardinality(kept) <= Lookahead
    BY <2>1, <2>3
  <2> QED  BY <2>4 DEF RetainsAtMostLookahead, kept
<1> QED  BY <1>1, IntakeSourceInvariant, PTL

\* Once the pool has been shut down, on a failure or because the stream was closed,
\* no queued download is started: there is none left (BundleSource.stream, its
\* executor's shutdown).
THEOREM NoLateStart == IntakeSpec => NothingStartsAfterFailure
<1>1. SourceInv => (main \in {"closing", "ended"} =>
                      \A b \in Bundles : task[b] = "queued" => task'[b] # "download")
  BY DEF SourceInv, PhaseInv
<1> QED  BY <1>1, IntakeSourceInvariant, PTL DEF NothingStartsAfterFailure

-----------------------------------------------------------------------------
\* Flattening.

\* g accumulates the first sequences of s
Accumulates(g, s) == g[0] = <<>> /\ \A i \in 1 .. Len(s) : g[i] = g[i - 1] \o s[i]

\* The accumulation exists,
LEMMA AccumulationExists ==
  ASSUME NEW S, NEW s \in Seq(Seq(S))
  PROVE  \E g \in [0 .. Len(s) -> Seq(S)] : Accumulates(g, s)
<1> DEFINE n == Len(s)
           Upto(g, i) == g[0] = <<>> /\ \A j \in 1 .. i : g[j] = g[j - 1] \o s[j]
           Some(i) == \E g \in [0 .. i -> Seq(S)] : Upto(g, i)
           missing == { i \in 0 .. n : ~Some(i) }
<1>1. n \in Nat /\ \A i \in 1 .. n : s[i] \in Seq(S)
  OBVIOUS
<1>2. Some(0)
  <2>1. <<>> \in Seq(S) /\ 1 .. 0 = {}
    OBVIOUS
  <2>2. [i \in 0 .. 0 |-> <<>>] \in [0 .. 0 -> Seq(S)] /\ Upto([i \in 0 .. 0 |-> <<>>], 0)
    BY <2>1
  <2> QED  BY <2>2
<1>3. ASSUME NEW i \in 1 .. n, Some(i - 1)  PROVE  Some(i)
  <2>1. PICK g \in [0 .. i - 1 -> Seq(S)] : Upto(g, i - 1)
    BY <1>3
  <2> DEFINE h == [j \in 0 .. i |-> IF j = i THEN g[i - 1] \o s[i] ELSE g[j]]
  <2>2. i \in Int /\ 1 <= i /\ i - 1 \in 0 .. i - 1 /\ g[i - 1] \o s[i] \in Seq(S)
    BY <1>1, <2>1, ConcatProperties
  <2>3. h \in [0 .. i -> Seq(S)]
    BY <2>1, <2>2
  <2>4. ASSUME NEW j \in 1 .. i  PROVE  h[j] = h[j - 1] \o s[j]
    <3>1. j \in 0 .. i /\ j - 1 \in 0 .. i /\ j - 1 # i /\ h[j - 1] = g[j - 1]
      BY <2>2
    <3>2. CASE j = i
      BY <3>1, <3>2
    <3>3. CASE j # i
      <4>1. j \in 1 .. i - 1
        BY <2>2, <3>3
      <4> QED  BY <2>1, <3>1, <3>3, <4>1
    <3> QED  BY <3>2, <3>3
  <2>5. h[0] = <<>>
    BY <2>1, <2>2
  <2> HIDE DEF h
  <2> QED  BY <2>3, <2>4, <2>5
<1> HIDE DEF Some
<1>4. missing = {}
  <2> SUFFICES ASSUME missing # {}  PROVE  FALSE
    OBVIOUS
  <2>1. IsFiniteSet(missing) /\ missing \subseteq Int
    <3>1. IsFiniteSet(0 .. n)
      BY <1>1, FS_Interval
    <3> QED  BY <1>1, <3>1, FS_Subset
  <2>2. PICK i \in missing : \A j \in missing : i <= j
    BY <2>1, LeastExists
  <2>3. i \in 1 .. n
    BY <1>1, <1>2, <2>2
  <2>4. i - 1 \in 0 .. n /\ ~(i <= i - 1)
    BY <1>1, <2>3
  <2>5. Some(i - 1)
    BY <2>2, <2>4
  <2> QED  BY <1>3, <2>2, <2>3, <2>5
<1>5. Some(n)
  BY <1>1, <1>4
<1> QED  BY <1>5 DEF Some, Accumulates

\* and flattening takes its last value.
LEMMA FlattenIs ==
  ASSUME NEW S, NEW s \in Seq(Seq(S)), NEW g \in [0 .. Len(s) -> Seq(S)], Accumulates(g, s)
  PROVE  FlattenSeq(s) = g[Len(s)] /\ FlattenSeq(s) \in Seq(S)
<1> DEFINE n == Len(s)
           step(f) == [i \in 1 .. n |-> IF i = 1 THEN s[i] ELSE f[i - 1] \o s[i]]
           r == CHOOSE f : f = step(f)
<1>1. n \in Nat /\ \A i \in 1 .. n : s[i] \in Seq(S)
  OBVIOUS
<1>2. CASE n = 0
  BY <1>1, <1>2, EmptySeq DEF FlattenSeq, Accumulates
<1>3. CASE n # 0
  <2> DEFINE k == [i \in 1 .. n |-> g[i]]
  <2>1. k = step(k)
    <3>1. ASSUME NEW i \in 1 .. n
          PROVE  g[i] = IF i = 1 THEN s[i] ELSE k[i - 1] \o s[i]
      <4>1. CASE i = 1
        <5>1. i - 1 = 0
          BY <4>1
        <5>2. g[i] = g[0] \o s[i]
          BY <3>1, <5>1 DEF Accumulates
        <5>3. g[0] = <<>> /\ s[i] \in Seq(S)
          BY <1>1, <3>1 DEF Accumulates
        <5> QED  BY <4>1, <5>2, <5>3, ConcatEmptySeq
      <4>2. CASE i # 1
        <5>1. i - 1 \in 1 .. n
          BY <1>1, <3>1, <4>2
        <5> QED  BY <3>1, <4>2, <5>1 DEF Accumulates
      <4> QED  BY <4>1, <4>2
    <3> DEFINE next(i) == IF i = 1 THEN s[i] ELSE k[i - 1] \o s[i]
    <3>2. \A i \in 1 .. n : g[i] = next(i)
      BY <3>1
    <3>3. step(k) = [i \in 1 .. n |-> next(i)]
      OBVIOUS
    <3> HIDE DEF next
    <3>4. [i \in 1 .. n |-> g[i]] = [i \in 1 .. n |-> next(i)]
      BY <3>2
    <3> QED  BY <3>3, <3>4
  <2> HIDE DEF k
  <2>2. \E f : f = step(f)
    BY <2>1
  <2> HIDE DEF step
  <2>3. r = step(r)
    BY <2>2, Zenon
  <2> USE DEF step
  <2> HIDE DEF r
  <2> DEFINE wrong == { i \in 1 .. n : r[i] # g[i] }
  <2>4. wrong = {}
    <3> SUFFICES ASSUME wrong # {}  PROVE  FALSE
      OBVIOUS
    <3>1. IsFiniteSet(wrong) /\ wrong \subseteq Int
      <4>1. IsFiniteSet(1 .. n)
        BY <1>1, FS_Interval
      <4> QED  BY <1>1, <4>1, FS_Subset
    <3>2. PICK i \in wrong : \A j \in wrong : i <= j
      BY <3>1, LeastExists
    <3>3. i \in 1 .. n /\ r[i] # g[i]
      BY <3>2
    <3>4. r[i] = IF i = 1 THEN s[i] ELSE r[i - 1] \o s[i]
      BY <2>3, <3>3
    <3>5. k[i] = IF i = 1 THEN s[i] ELSE k[i - 1] \o s[i]
      BY <2>1, <3>3
    <3>6. k[i] = g[i] /\ \A j \in 1 .. n : k[j] = g[j]
      BY <3>3 DEF k
    <3>7. i # 1 => i - 1 \in 1 .. n /\ ~(i <= i - 1)
      BY <1>1, <3>3
    <3>8. i # 1 => r[i - 1] = k[i - 1]
      BY <3>2, <3>6, <3>7
    <3> QED  BY <3>3, <3>4, <3>5, <3>6, <3>8
  <2>5. r[n] = g[n]
    <3>1. \A i \in 1 .. n : r[i] = g[i]
      BY <2>4
    <3>2. n \in 1 .. n
      BY <1>1, <1>3
    <3> HIDE DEF n
    <3> QED  BY <3>1, <3>2, Zenon
  <2>6. FlattenSeq(s) = r[n]
    BY <1>3 DEF FlattenSeq, r
  <2>7. g[n] \in Seq(S)
    BY <1>1
  <2> QED  BY <2>5, <2>6, <2>7
<1> QED  BY <1>2, <1>3

LEMMA FlattenEmpty == FlattenSeq(<<>>) = <<>>
BY EmptySeq DEF FlattenSeq

LEMMA FlattenType ==
  ASSUME NEW S, NEW s \in Seq(Seq(S))
  PROVE  FlattenSeq(s) \in Seq(S)
BY AccumulationExists, FlattenIs

\* Appending three sequences can be regrouped.
Associates(x, y, z) == (x \o y) \o z = x \o (y \o z)

LEMMA Regroup == \A S : \A x, y, z \in Seq(S) : Associates(x, y, z)
BY ConcatAssociative DEF Associates

LEMMA FlattenConcat ==
  ASSUME NEW S, NEW s \in Seq(Seq(S)), NEW t \in Seq(Seq(S))
  PROVE  FlattenSeq(s \o t) = FlattenSeq(s) \o FlattenSeq(t)
<1> DEFINE m == Len(s)
           n == Len(t)
<1>1. PICK g \in [0 .. m -> Seq(S)] : Accumulates(g, s)
  BY AccumulationExists
<1>2. PICK h \in [0 .. n -> Seq(S)] : Accumulates(h, t)
  BY AccumulationExists
<1>3. FlattenSeq(s) = g[m] /\ FlattenSeq(t) = h[n]
  BY <1>1, <1>2, FlattenIs
<1>4. /\ m \in Nat /\ n \in Nat /\ s \o t \in Seq(Seq(S)) /\ Len(s \o t) = m + n
      /\ \A i \in 1 .. m + n : (s \o t)[i] = IF i <= m THEN s[i] ELSE t[i - m]
      /\ \A i \in 1 .. n : t[i] \in Seq(S)
  BY ConcatProperties
<1> HIDE DEF m, n
<1> DEFINE k == [i \in 0 .. m + n |-> IF i <= m THEN g[i] ELSE g[m] \o h[i - m]]
<1>5. g[m] \in Seq(S) /\ \A i \in 0 .. n : h[i] \in Seq(S) /\ g[m] \o h[i] \in Seq(S)
  BY <1>1, <1>2, <1>4, ConcatProperties
<1>6. k \in [0 .. m + n -> Seq(S)]
  <2>1. \A i \in 0 .. m + n : (i <= m => i \in 0 .. m) /\ (~(i <= m) => i - m \in 0 .. n)
    BY <1>4
  <2> QED  BY <1>1, <1>5, <2>1
<1>7. ASSUME NEW i \in 1 .. m + n  PROVE  k[i] = k[i - 1] \o (s \o t)[i]
  <2>1. i \in 0 .. m + n /\ i - 1 \in 0 .. m + n
    BY <1>4
  <2>2. CASE i <= m
    <3>1. i \in 1 .. m /\ i - 1 <= m
      BY <1>4, <1>7, <2>2
    <3>2. g[i] = g[i - 1] \o s[i]
      BY <1>1, <3>1 DEF Accumulates, m
    <3>3. k[i] = g[i] /\ k[i - 1] = g[i - 1]
      BY <2>1, <2>2, <3>1
    <3>4. (s \o t)[i] = s[i]
      BY <1>4, <1>7, <2>2
    <3> HIDE DEF k
    <3> QED  BY <3>2, <3>3, <3>4
  <2>3. CASE ~(i <= m)
    <3> DEFINE j == i - m
    <3>1. j \in 1 .. n /\ j - 1 \in 0 .. n
      BY <1>4, <1>7, <2>3
    <3>2. h[j] = h[j - 1] \o t[j]
      BY <1>2, <3>1 DEF Accumulates, n
    <3>3. h[j - 1] \in Seq(S) /\ t[j] \in Seq(S)
      BY <1>2, <1>4, <3>1
    <3>4. g[m] \o h[j] = (g[m] \o h[j - 1]) \o t[j]
      <4> DEFINE a == g[m]
                 b == h[j - 1]
                 c == t[j]
      <4>1. a \in Seq(S) /\ b \in Seq(S) /\ c \in Seq(S) /\ h[j] = b \o c
        BY <1>5, <3>2, <3>3
      <4> HIDE DEF a, b, c, j
      <4>2. Associates(a, b, c)
        BY <4>1, Regroup
      <4>3. a \o h[j] = (a \o b) \o c
        BY <4>1, <4>2, Zenon DEF Associates
      <4> QED  BY <4>3 DEF a, b, c
    <3>5. k[i] = g[m] \o h[j]
      BY <2>1, <2>3
    <3>6. (s \o t)[i] = t[j]
      BY <1>4, <1>7, <2>3
    <3>7. k[i - 1] = g[m] \o h[j - 1]
      <4>1. CASE j = 1
        <5>1. i - 1 = m /\ j - 1 = 0
          BY <1>4, <4>1
        <5>2. k[i - 1] = g[m]
          BY <1>4, <2>1, <5>1
        <5>3. h[j - 1] = <<>>
          BY <1>2, <5>1 DEF Accumulates
        <5> QED  BY <1>5, <5>2, <5>3, ConcatEmptySeq
      <4>2. CASE j # 1
        <5>1. ~(i - 1 <= m) /\ (i - 1) - m = j - 1
          BY <1>4, <1>7, <3>1, <4>2
        <5> QED  BY <2>1, <5>1
      <4> QED  BY <4>1, <4>2
    <3> HIDE DEF k, j
    <3> QED  BY <3>4, <3>5, <3>6, <3>7
  <2> QED  BY <2>2, <2>3
<1>8. k[0] = <<>>
  <2>1. 0 \in 0 .. m + n /\ 0 <= m
    BY <1>4
  <2> QED  BY <1>1, <2>1 DEF Accumulates
<1>9. k[m + n] = g[m] \o h[n]
  <2>1. m + n \in 0 .. m + n
    BY <1>4
  <2>2. CASE n = 0
    <3>1. k[m + n] = g[m] /\ h[n] = <<>>
      BY <1>2, <1>4, <2>1, <2>2 DEF Accumulates
    <3> QED  BY <1>5, <3>1, ConcatEmptySeq
  <2>3. CASE n # 0
    <3>1. ~(m + n <= m) /\ (m + n) - m = n
      BY <1>4, <2>3
    <3> QED  BY <2>1, <3>1
  <2> QED  BY <2>2, <2>3
<1>10. Accumulates(k, s \o t)
  <2> HIDE DEF k
  <2> QED  BY <1>4, <1>7, <1>8 DEF Accumulates
<1> HIDE DEF k
<1>11. FlattenSeq(s \o t) = k[m + n]
  <2> DEFINE u == s \o t
  <2>1. u \in Seq(Seq(S)) /\ Len(u) = m + n /\ Accumulates(k, u)
    BY <1>4, <1>10
  <2>2. k \in [0 .. Len(u) -> Seq(S)]
    BY <1>6, <2>1
  <2> HIDE DEF u
  <2>3. FlattenSeq(u) = k[Len(u)]
    BY <2>1, <2>2, FlattenIs
  <2> QED  BY <2>1, <2>3 DEF u
<1> QED  BY <1>3, <1>9, <1>11

LEMMA FlattenOne ==
  ASSUME NEW S, NEW x \in Seq(S)
  PROVE  FlattenSeq(<<x>>) = x
<1> DEFINE g == [i \in 0 .. 1 |-> IF i = 0 THEN <<>> ELSE x]
           s == <<x>>
<1>1. s \in Seq(Seq(S)) /\ Len(s) = 1 /\ s[1] = x
  OBVIOUS
<1>2. g \in [0 .. 1 -> Seq(S)] /\ g[0] = <<>> /\ g[1] = x
  OBVIOUS
<1>3. <<>> \o x = x
  BY ConcatEmptySeq
<1> HIDE DEF g, s
<1>4. Accumulates(g, s)
  BY <1>1, <1>2, <1>3 DEF Accumulates
<1>5. g \in [0 .. Len(s) -> Seq(S)]
  BY <1>1, <1>2
<1>6. FlattenSeq(s) = g[1]
  BY <1>1, <1>4, <1>5, FlattenIs
<1> QED  BY <1>2, <1>6 DEF s

-----------------------------------------------------------------------------
\* Batches.

Rows == Bundles \X Nat

\* `n` full batches of RowBatchSize rows, and fewer rows than a batch after them
LEMMA Division ==
  ASSUME NEW len \in Nat
  PROVE  LET n == len \div RowBatchSize
         IN  /\ n \in Nat /\ RowBatchSize * n \in Nat
             /\ RowBatchSize * n <= len /\ len < RowBatchSize * n + RowBatchSize
BY IntakeAssumption

LEMMA BatchBounds ==
  ASSUME NEW len \in Nat, NEW i \in 1 .. (len \div RowBatchSize)
  PROVE  /\ (i - 1) * RowBatchSize + 1 \in 1 .. len
         /\ i * RowBatchSize \in 1 .. len
         /\ i * RowBatchSize - ((i - 1) * RowBatchSize + 1) + 1 = RowBatchSize
<1> DEFINE n == len \div RowBatchSize
           k == RowBatchSize
<1>1. n \in Nat /\ k * n <= len /\ k \in Nat /\ 0 < k
  BY Division, IntakeAssumption
<1> HIDE DEF n, k
<1>2. i \in Nat /\ 1 <= i /\ i <= n
  BY <1>1 DEF n, k
<1>3. i * k <= k * n /\ (i - 1) * k = i * k - k /\ i * k \in Nat /\ k <= i * k
  BY <1>1, <1>2
<1>4. (i - 1) * k + 1 \in 1 .. len /\ i * k \in 1 .. len /\ i * k - ((i - 1) * k + 1) + 1 = k
  BY <1>1, <1>2, <1>3
<1> QED  BY <1>4 DEF k

LEMMA FullBatchesAre ==
  ASSUME NEW S, NEW rows \in Seq(S)
  PROVE  /\ FullBatches(rows) \in Seq(Seq(S))
         /\ Len(FullBatches(rows)) = Len(rows) \div RowBatchSize
         /\ \A i \in 1 .. Len(FullBatches(rows)) :
              /\ FullBatches(rows)[i] \in Seq(S)
              /\ Len(FullBatches(rows)[i]) = RowBatchSize
              /\ \A j \in 1 .. RowBatchSize :
                   FullBatches(rows)[i][j] = rows[(i - 1) * RowBatchSize + j]
<1> DEFINE n == Len(rows) \div RowBatchSize
           k == RowBatchSize
           batch(i) == SubSeq(rows, (i - 1) * k + 1, i * k)
<1>1. Len(rows) \in Nat /\ rows \in [1 .. Len(rows) -> S] /\ n \in Nat /\ k \in Nat
  BY Division, IntakeAssumption
<1>2. ASSUME NEW i \in 1 .. n
      PROVE  /\ batch(i) \in Seq(S) /\ Len(batch(i)) = k
             /\ \A j \in 1 .. k : batch(i)[j] = rows[(i - 1) * k + j]
  <2> DEFINE f == (i - 1) * k + 1
             l == i * k
  <2>1. f \in 1 .. Len(rows) /\ l \in 1 .. Len(rows) /\ l - f + 1 = k
    BY <1>1, BatchBounds
  <2>2. \A j \in 1 .. k : (i - 1) * k + j = f + j - 1
    <3>1. (i - 1) * k \in Int
      BY <1>1
    <3> QED  BY <1>1, <3>1
  <2> HIDE DEF f, l, n, k
  <2>3. \A j \in f .. l : rows[j] \in S
    BY <1>1, <2>1
  <2>4. /\ SubSeq(rows, f, l) \in Seq(S)
        /\ Len(SubSeq(rows, f, l)) = IF f <= l THEN l - f + 1 ELSE 0
        /\ \A j \in 1 .. l - f + 1 : SubSeq(rows, f, l)[j] = rows[f + j - 1]
    BY <2>1, <2>3, SubSeqProperties
  <2>5. Len(SubSeq(rows, f, l)) = k
    BY <1>1, <2>1, <2>4
  <2>6. \A j \in 1 .. k : SubSeq(rows, f, l)[j] = rows[(i - 1) * k + j]
    BY <2>1, <2>2, <2>4
  <2> QED  BY <2>4, <2>5, <2>6 DEF f, l
<1> HIDE DEF n, batch
<1>3. FullBatches(rows) = [i \in 1 .. n |-> batch(i)]
  BY DEF FullBatches, n, batch
<1>4. FullBatches(rows) \in Seq(Seq(S)) /\ Len(FullBatches(rows)) = n
  BY <1>1, <1>2, <1>3
<1> QED  BY <1>2, <1>3, <1>4 DEF n

LEMMA RestIs ==
  ASSUME NEW S, NEW rows \in Seq(S)
  PROVE  LET q == RowBatchSize * (Len(rows) \div RowBatchSize)
         IN  /\ Rest(rows) \in Seq(S) /\ Len(Rest(rows)) = Len(rows) - q
             /\ Len(Rest(rows)) < RowBatchSize
             /\ \A j \in 1 .. Len(Rest(rows)) : Rest(rows)[j] = rows[q + j]
<1> DEFINE q == RowBatchSize * (Len(rows) \div RowBatchSize)
<1>1. /\ Len(rows) \in Nat /\ rows \in [1 .. Len(rows) -> S] /\ RowBatchSize \in Nat
      /\ q \in Nat /\ q <= Len(rows) /\ Len(rows) < q + RowBatchSize
  BY Division, IntakeAssumption
<1>2. Rest(rows) = SubSeq(rows, q + 1, Len(rows))
  BY DEF Rest
<1> HIDE DEF q
<1>3. \A j \in q + 1 .. Len(rows) : rows[j] \in S
  BY <1>1
<1>4. /\ Rest(rows) \in Seq(S)
      /\ Len(Rest(rows)) = IF q + 1 <= Len(rows) THEN Len(rows) - (q + 1) + 1 ELSE 0
      /\ \A j \in 1 .. Len(rows) - (q + 1) + 1 : Rest(rows)[j] = rows[q + 1 + j - 1]
  BY <1>1, <1>2, <1>3, SubSeqProperties
<1> DEFINE m == Len(rows)
           r == Rest(rows)
<1>5. Len(r) = m - q /\ \A j \in 1 .. m - q : r[j] = rows[q + j]
  <2>1. /\ m \in Nat /\ q \in Nat /\ q <= m
        /\ Len(r) = IF q + 1 <= m THEN m - (q + 1) + 1 ELSE 0
        /\ \A j \in 1 .. m - (q + 1) + 1 : r[j] = rows[q + 1 + j - 1]
    BY <1>1, <1>4
  <2> HIDE DEF m, r
  <2>2. m - (q + 1) + 1 = m - q
    BY <2>1
  <2>3. \A j \in 1 .. m - q : q + 1 + j - 1 = q + j
    BY <2>1
  <2>4. Len(r) = m - q
    BY <2>1
  <2> QED  BY <2>1, <2>2, <2>3, <2>4
<1>6. Len(r) < RowBatchSize
  <2>1. m \in Nat /\ m < q + RowBatchSize /\ Len(r) = m - q /\ q \in Nat /\ RowBatchSize \in Nat
    BY <1>1, <1>5
  <2> HIDE DEF m, r
  <2> QED  BY <2>1
<1> QED
  <2>1. r \in Seq(S)
    BY <1>4
  <2> HIDE DEF r, m
  <2>2. /\ r \in Seq(S) /\ Len(r) = m - q /\ Len(r) < RowBatchSize
        /\ \A j \in 1 .. Len(r) : r[j] = rows[q + j]
    BY <1>5, <1>6, <2>1
  <2> QED  BY <2>2 DEF r, q, m

\* Full batches and what is left over are the rows again.
LEMMA FlattenBatches ==
  ASSUME NEW S, NEW rows \in Seq(S)
  PROVE  FlattenSeq(FullBatches(rows)) \o Rest(rows) = rows
<1> DEFINE k == RowBatchSize
           n == Len(rows) \div k
           full == FullBatches(rows)
           head(i) == SubSeq(rows, 1, i * k)
           g == [i \in 0 .. n |-> head(i)]
<1>1. /\ Len(rows) \in Nat /\ k \in Nat /\ n \in Nat /\ k * n \in Nat /\ k * n <= Len(rows)
      /\ k * n = n * k
  BY Division, IntakeAssumption
<1>2. full \in Seq(Seq(S)) /\ Len(full) = n
  BY FullBatchesAre
<1>3. \A i \in 1 .. n : full[i] = SubSeq(rows, (i - 1) * k + 1, i * k)
  BY DEF FullBatches
<1>4. ASSUME NEW i \in 1 .. n
      PROVE  /\ head(i) = head(i - 1) \o full[i] /\ head(i) \in Seq(S)
  <2> DEFINE a == (i - 1) * k
             b == i * k
  <2>1. a \in 0 .. Len(rows) /\ b \in a .. Len(rows)
    <3>1. a + 1 \in 1 .. Len(rows) /\ b \in 1 .. Len(rows) /\ b - (a + 1) + 1 = k
      BY <1>1, BatchBounds
    <3>2. a \in Int /\ b \in Int
      BY <1>1
    <3> HIDE DEF a, b, k
    <3> QED  BY <1>1, <3>1, <3>2
  <2>2. head(i) = SubSeq(rows, 1, b) /\ head(i - 1) = SubSeq(rows, 1, a)
        /\ full[i] = SubSeq(rows, a + 1, b)
    BY <1>3
  <2> HIDE DEF a, b, head, full
  <2>3. SubSeq(rows, 1, a) \o SubSeq(rows, a + 1, b) = SubSeq(rows, 1, b)
    <3>1. 1 \in 1 .. Len(rows) + 1 /\ a \in 1 - 1 .. Len(rows)
      BY <1>1, <2>1
    <3> QED  BY <2>1, <3>1, ConcatAdjacentSubSeq
  <2>4. SubSeq(rows, 1, b) \in Seq(S)
    <3>1. b \in Int /\ \A j \in 1 .. b : rows[j] \in S
      BY <1>1, <2>1
    <3> QED  BY <3>1, SubSeqProperties
  <2> QED  BY <2>2, <2>3, <2>4
<1>5. head(0) = <<>>
  <2>1. 0 * k = 0
    BY <1>1
  <2> QED  BY <2>1, SubSeqEmpty
<1> HIDE DEF head, full, n, k
<1>6. g \in [0 .. n -> Seq(S)]
  <2>1. <<>> \in Seq(S) /\ \A i \in 0 .. n : i = 0 \/ i \in 1 .. n
    BY <1>1
  <2>2. \A i \in 0 .. n : head(i) \in Seq(S)
    BY <1>4, <1>5, <2>1
  <2> QED  BY <2>2
<1>7. Accumulates(g, full)
  <2>1. \A i \in 1 .. n : i \in 0 .. n /\ i - 1 \in 0 .. n
    BY <1>1
  <2>2. g[0] = <<>>
    BY <1>1, <1>5
  <2> QED  BY <1>2, <1>4, <2>1, <2>2 DEF Accumulates
<1>8. FlattenSeq(full) = head(n)
  <2>1. g[n] = head(n)
    BY <1>1
  <2> HIDE DEF g
  <2> QED  BY <1>2, <1>6, <1>7, <2>1, FlattenIs
<1>9. SubSeq(rows, 1, n * k) \o SubSeq(rows, n * k + 1, Len(rows)) = SubSeq(rows, 1, Len(rows))
  <2> DEFINE q == n * k
             l == Len(rows)
  <2>1. q \in 0 .. l /\ l \in Nat
    BY <1>1
  <2> HIDE DEF q
  <2>2. q \in 1 - 1 .. Len(rows) /\ 1 \in 1 .. Len(rows) + 1 /\ Len(rows) \in q .. Len(rows)
    BY <2>1
  <2>3. SubSeq(rows, 1, q) \o SubSeq(rows, q + 1, Len(rows)) = SubSeq(rows, 1, Len(rows))
    BY <2>2, ConcatAdjacentSubSeq
  <2> QED  BY <2>3 DEF q
<1>10. Rest(rows) = SubSeq(rows, n * k + 1, Len(rows))
  BY <1>1 DEF Rest, n, k
<1> QED  BY <1>8, <1>9, <1>10, SubSeqFull DEF head, full

-----------------------------------------------------------------------------
\* What a step does to the intake.

\* the rows of table t that wait to be written when the projection has read p
RowsWith(p, t) == buffer[t] \o RowsOf(awaited, p)[t]

\* Consume, when nothing raises
Takes(p) ==
    /\ intake = "open" /\ Resume
    /\ payload' = [payload EXCEPT ![awaited] = p]
    /\ \A t \in Tables, batch \in Seq(Rows) :
         batch \in Range(FullBatches(RowsWith(p, t))) => Converts(batch, payload')
    /\ staged' = [t \in Tables |-> staged[t] \o FullBatches(RowsWith(p, t))]
    /\ buffer' = [t \in Tables |-> Rest(RowsWith(p, t))]
    /\ UNCHANGED intake

\* EndProjection, when nothing raises
Flushes ==
    /\ intake = "open" /\ Complete /\ yielded = listed
    /\ \A t \in Tables : Converts(buffer[t], payload)
    /\ staged' = [t \in Tables |-> staged[t] \o LastBatch(buffer[t])]
    /\ buffer' = Empty
    /\ UNCHANGED <<intake, payload>>

LEMMA IntakeEffect ==
  ASSUME [IntakeNext]_allVars
  PROVE  \/ /\ UNCHANGED <<intakeState, yielded>>
            /\ intake = "open" /\ StageIsWhole' => StageIsWhole
         \/ FailIntake
         \/ \E p \in Payloads : Takes(p)
         \/ Flushes
         \/ Promote
<1> DEFINE Goal ==
         \/ /\ UNCHANGED <<intakeState, yielded>>
            /\ intake = "open" /\ StageIsWhole' => StageIsWhole
         \/ FailIntake
         \/ \E p \in Payloads : Takes(p)
         \/ Flushes
         \/ Promote
<1> USE DEF StageIsWhole
<1>1. CASE UNCHANGED allVars
  BY <1>1 DEF allVars, vars
<1>2. ASSUME NEW p \in Payloads, Consume(p)  PROVE  Goal
  BY <1>2 DEF Consume, Takes, RowsWith, FailIntake
<1>3. CASE EndProjection
  BY <1>3 DEF EndProjection, Flushes
<1>4. CASE FailWriting \/ FailBeforeStream \/ Promote
  BY <1>4 DEF FailWriting, FailBeforeStream
<1>5. CASE CloseStream
  BY <1>5 DEF CloseStream, Close, ShutDown
<1>6. CASE SourceStep(ListOrWait)
  <2>1. UNCHANGED yielded
    BY <1>6 DEF SourceStep, ListOrWait, ListPage, FailListing, Submit, Await, Yield,
       Raise, ShutDown, CancelNext, EndCancelling, EndClosing
  <2>2. main = "ended" => ~ListOrWait
    BY DEF ListOrWait, ListPage, FailListing, Submit, Await, Yield, Raise, CancelNext,
       EndCancelling, EndClosing
  <2> QED  BY <1>6, <2>1, <2>2 DEF SourceStep
<1>7. CASE SourceStep(PoolStep) \/ SourceStep(ServerStep)
  <2>1. UNCHANGED <<yielded, main, outcome>>
    <3>1. CASE ServerStep
      BY <3>1, ServerEffect DEF stream_state
    <3>2. CASE PoolStep
      BY <3>2 DEF PoolStep, ThreadStep, Start, EnterRefresh, Download, Relist,
         DownloadAgain, threads
    <3> QED  BY <1>7, <3>1, <3>2 DEF SourceStep
  <2> QED  BY <1>7, <2>1 DEF SourceStep
<1> QED
  BY <1>1, <1>2, <1>3, <1>4, <1>5, <1>6, <1>7 DEF IntakeNext, IntakeMainStep

LEMMA EndedStep ==
  ASSUME [Next]_vars, main = "ended", TypeOK
  PROVE  UNCHANGED <<main, outcome, listed>>
<1>1. CASE UNCHANGED vars \/ ServerStep \/ PoolStep
  BY <1>1, ServerEffect, PoolEffect DEF vars, threads, stream_state
<1>2. ~(MainStep \/ Close \/ Leave)
  BY DEF MainStep, ListOrWait, ListPage, FailListing, Submit, Await, Yield, Raise, Close,
     Leave, CancelNext, EndCancelling, EndClosing, Resume, Complete
<1> QED  BY <1>1, <1>2 DEF Next

\* Types of the intake.
LEMMA RowsOfType ==
  ASSUME NEW b \in Bundles, NEW p \in Payloads, NEW t \in Tables
  PROVE  RowsOf(b, p)[t] \in Seq(Rows)
<1>1. p.battles \in Nat
  <2>1. CASE p \in [kind : {"run"}, battles : BattleCounts]
    BY <2>1, IntakeAssumption
  <2>2. CASE p \in [kind : {"discarded", "unfit"}, battles : {0}]
    BY <2>2
  <2> QED  BY <2>1, <2>2 DEF Payloads
<1>2. <<b, 0>> \in Rows /\ \A i \in 1 .. p.battles : <<b, i>> \in Rows
  BY <1>1 DEF Rows
<1>3. [i \in 1 .. p.battles |-> <<b, i>>] \in Seq(Rows)
  BY <1>1, <1>2
<1>4. << <<b, 0>> >> \in Seq(Rows) /\ <<>> \in Seq(Rows)
  BY <1>2
<1> QED  BY <1>3, <1>4 DEF RowsOf, Tables

LEMMA TakenRows ==
  ASSUME IntakeTypeOK, awaited \in Bundles, NEW p \in Payloads, NEW t \in Tables
  PROVE  RowsWith(p, t) \in Seq(Rows)
BY RowsOfType, ConcatProperties DEF IntakeTypeOK, RowsWith, Rows

LEMMA TakesGiven ==
  ASSUME SourceInv, NEW p \in Payloads, Takes(p)
  PROVE  awaited \in Bundles /\ main = "given" /\ main' = "fill"
BY DEF Takes, Resume, SourceInv, PhaseInv

LEMMA IntakeTypeStep ==
  ASSUME SourceInv, SourceInv', IntakeTypeOK, [IntakeNext]_allVars
  PROVE  IntakeTypeOK'
<1>1. TypeOK' /\ payload \in [Bundles -> Payloads \cup {Unread}]
  BY DEF SourceInv, IntakeTypeOK
<1>2. CASE UNCHANGED intakeState
  BY <1>1, <1>2 DEF IntakeTypeOK, intakeState
<1>3. CASE FailIntake
  BY <1>1, <1>3 DEF IntakeTypeOK, FailIntake, Empty
<1>4. ASSUME NEW p \in Payloads, Takes(p)  PROVE  IntakeTypeOK'
  <2>1. awaited \in Bundles
    BY <1>4, TakesGiven
  <2>2. ASSUME NEW t \in Tables
        PROVE  buffer'[t] \in Seq(Rows) /\ staged'[t] \in Seq(Seq(Rows))
    <3>1. RowsWith(p, t) \in Seq(Rows) /\ staged[t] \in Seq(Seq(Rows))
      BY <2>1, TakenRows DEF IntakeTypeOK, Rows
    <3>2. /\ FullBatches(RowsWith(p, t)) \in Seq(Seq(Rows)) /\ Rest(RowsWith(p, t)) \in Seq(Rows)
      BY <3>1, FullBatchesAre, RestIs
    <3>3. staged[t] \o FullBatches(RowsWith(p, t)) \in Seq(Seq(Rows))
      BY <3>1, <3>2, ConcatProperties
    <3> QED  BY <1>4, <3>2, <3>3 DEF Takes
  <2>3. payload' \in [Bundles -> Payloads \cup {Unread}] /\ intake' = intake
    BY <1>1, <1>4, <2>1 DEF Takes
  <2> QED  BY <1>1, <2>2, <2>3 DEF IntakeTypeOK, Rows
<1>5. CASE Flushes
  <2>1. ASSUME NEW t \in Tables
        PROVE  buffer'[t] \in Seq(Rows) /\ staged'[t] \in Seq(Seq(Rows))
    <3>1. buffer[t] \in Seq(Rows) /\ staged[t] \in Seq(Seq(Rows))
      BY DEF IntakeTypeOK, Rows
    <3>2. LastBatch(buffer[t]) \in Seq(Seq(Rows))
      BY <3>1 DEF LastBatch
    <3>3. staged[t] \o LastBatch(buffer[t]) \in Seq(Seq(Rows))
      BY <3>1, <3>2, ConcatProperties
    <3> QED  BY <1>5, <3>3 DEF Flushes, Empty
  <2> QED  BY <1>1, <1>5, <2>1 DEF IntakeTypeOK, Rows, Flushes
<1>6. CASE Promote
  BY <1>1, <1>6 DEF Promote, IntakeTypeOK
<1> QED  BY <1>2, <1>3, <1>4, <1>5, <1>6, IntakeEffect

-----------------------------------------------------------------------------
\* What is in the stage.

\* no number that fits no column is written: it waits in its buffer
FitInv ==
    /\ intake = "open" /\ ~StageIsWhole =>
         \A b \in Bundles : payload[b].kind = "unfit" => <<b, 0>> \in Range(buffer["runs"])
    /\ intake = "committed" \/ (intake = "open" /\ StageIsWhole) =>
         \A b \in Bundles : payload[b].kind # "unfit"

\* a stage that is removed is empty, and a partition is committed at the end
StageInv ==
    /\ intake = "failed" => buffer = Empty /\ staged = Empty
    /\ intake = "committed" => StageIsWhole


\* A row is in a full batch or after all of them.
LEMMA BatchOrRest ==
  ASSUME NEW S, NEW rows \in Seq(S), NEW row \in Range(rows)
  PROVE  \/ \E batch \in Seq(S) : batch \in Range(FullBatches(rows)) /\ row \in Range(batch)
         \/ row \in Range(Rest(rows))
<1> DEFINE k == RowBatchSize
           n == Len(rows) \div k
<1>1. /\ Len(rows) \in Nat /\ k \in Nat /\ 0 < k /\ n \in Nat /\ k * n <= Len(rows)
      /\ k * n \in Nat
  BY Division, IntakeAssumption
<1>2. PICK q \in 1 .. Len(rows) : row = rows[q]
  BY <1>1, RangeEquality
<1>3. CASE k * n < q
  <2>1. /\ Rest(rows) \in Seq(S) /\ Len(Rest(rows)) = Len(rows) - k * n
        /\ \A j \in 1 .. Len(Rest(rows)) : Rest(rows)[j] = rows[k * n + j]
    BY RestIs
  <2> HIDE DEF n, k
  <2>2. q - k * n \in 1 .. Len(Rest(rows)) /\ k * n + (q - k * n) = q
    BY <1>1, <1>2, <1>3, <2>1
  <2>3. Rest(rows)[q - k * n] = row
    BY <1>2, <2>1, <2>2
  <2> QED  BY <2>1, <2>2, <2>3, RangeEquality
<1>4. CASE q <= k * n
  <2> DEFINE i == (q - 1) \div k + 1
             j == q - (i - 1) * k
  <2>1. i \in 1 .. n /\ j \in 1 .. k /\ (i - 1) * k + j = q
    <3> DEFINE e == (q - 1) \div k
    <3>1. e \in Nat /\ k * e \in Nat /\ k * e <= q - 1 /\ q - 1 < k * e + k
      <4>1. q - 1 \in Nat
        BY <1>1, <1>2
      <4> QED  BY <4>1, Division
    <3> HIDE DEF n, k, e
    <3>2. q \in Int /\ k * e < k * n
      BY <1>1, <1>2, <1>4, <3>1
    <3>3. e < n
      BY <1>1, <3>1, <3>2
    <3>4. e * k = k * e
      BY <1>1, <3>1
    <3> QED  BY <1>1, <3>1, <3>2, <3>3, <3>4 DEF e
  <2> DEFINE batch == FullBatches(rows)[i]
  <2>2. /\ FullBatches(rows) \in Seq(Seq(S)) /\ Len(FullBatches(rows)) = n
        /\ batch \in Seq(S) /\ Len(batch) = k
        /\ \A m \in 1 .. k : batch[m] = rows[(i - 1) * k + m]
    <3>1. /\ FullBatches(rows) \in Seq(Seq(S)) /\ Len(FullBatches(rows)) = n
          /\ \A a \in 1 .. Len(FullBatches(rows)) :
               /\ FullBatches(rows)[a] \in Seq(S)
               /\ Len(FullBatches(rows)[a]) = k
               /\ \A m \in 1 .. k : FullBatches(rows)[a][m] = rows[(a - 1) * k + m]
      BY FullBatchesAre
    <3> HIDE DEF i, n, k
    <3> QED  BY <2>1, <3>1
  <2> HIDE DEF i, j, n, k
  <2>3. batch[j] = row
    BY <1>2, <2>1, <2>2
  <2> HIDE DEF batch
  <2>4. row \in Range(batch)
    BY <2>1, <2>2, <2>3, RangeEquality
  <2>5. batch \in Range(FullBatches(rows))
    BY <2>1, <2>2, RangeEquality DEF batch
  <2> QED  BY <2>2, <2>4, <2>5
<1> QED  BY <1>1, <1>2, <1>3, <1>4

LEMMA FitStep ==
  ASSUME SourceInv, SourceInv', IntakeTypeOK, StageInv, FitInv, [IntakeNext]_allVars
  PROVE  FitInv'
<1>0. /\ payload \in [Bundles -> Payloads \cup {Unread}]
      /\ main = "ended" => UNCHANGED <<main, outcome>>
  <2>1. TypeOK /\ [Next]_vars
    BY IntakeStep DEF SourceInv
  <2> QED  BY <2>1, EndedStep DEF IntakeTypeOK
<1>1. CASE UNCHANGED intakeState /\ (intake = "open" /\ StageIsWhole' => StageIsWhole)
  BY <1>0, <1>1 DEF FitInv, intakeState, StageIsWhole
<1>2. CASE FailIntake
  BY <1>2 DEF FailIntake, FitInv
<1>3. ASSUME NEW p \in Payloads, Takes(p)  PROVE  FitInv'
  <2>1. awaited \in Bundles /\ main = "given" /\ main' = "fill" /\ intake' = "open"
        /\ intake = "open"
    BY <1>3, TakesGiven DEF Takes
  <2> DEFINE rows == RowsWith(p, "runs")
  <2>2. rows \in Seq(Rows) /\ buffer["runs"] \in Seq(Rows)
    BY <2>1, TakenRows DEF Tables, IntakeTypeOK, Rows
  <2>3. ASSUME NEW b \in Bundles, payload'[b].kind = "unfit"
        PROVE  <<b, 0>> \in Range(Rest(rows))
    <3>1. RowsOf(awaited, p)["runs"] \in Seq(Rows)
      BY <2>1, RowsOfType DEF Tables
    <3>2. Range(rows) = Range(buffer["runs"]) \cup Range(RowsOf(awaited, p)["runs"])
      BY <2>2, <3>1, RangeConcatenation DEF RowsWith
    <3>3. ASSUME b = awaited  PROVE  <<b, 0>> \in Range(rows)
      <4>1. payload'[b] = p
        BY <1>0, <1>3, <2>1, <3>3 DEF Takes
      <4>2. RowsOf(awaited, p)["runs"] = << <<b, 0>> >>
        BY <2>3, <3>3, <4>1 DEF RowsOf, Tables
      <4>3. <<b, 0>> \in Range(RowsOf(awaited, p)["runs"])
        BY <4>2 DEF Range
      <4> QED  BY <2>3, <3>2, <4>3
    <3>4. ASSUME b # awaited  PROVE  <<b, 0>> \in Range(rows)
      <4>1. payload'[b] = payload[b]
        BY <1>0, <1>3, <2>1, <3>4 DEF Takes
      <4> QED  BY <2>1, <2>3, <3>2, <4>1 DEF FitInv, StageIsWhole
    <3>5. <<b, 0>> \in Range(rows)
      BY <3>3, <3>4
    <3>6. ASSUME NEW batch \in Seq(Rows), batch \in Range(FullBatches(rows)),
                 <<b, 0>> \in Range(batch)
          PROVE  FALSE
      <4>1. Converts(batch, payload')
        BY <1>3, <3>6 DEF Takes, Tables
      <4>2. payload'[<<b, 0>>[1]].kind # "unfit"
        BY <3>6, <4>1 DEF Converts
      <4> QED  BY <2>3, <4>2
    <3> QED  BY <2>2, <3>5, <3>6, BatchOrRest
  <2>4. buffer'["runs"] = Rest(rows)
    BY <1>3 DEF Takes, Tables
  <2> QED  BY <2>1, <2>3, <2>4 DEF FitInv, StageIsWhole
<1>4. CASE Flushes
  <2>1. /\ intake = "open" /\ main = "fill" /\ intake' = "open" /\ payload' = payload
        /\ Converts(buffer["runs"], payload) /\ StageIsWhole'
    BY <1>4 DEF Flushes, Complete, EndWith, Tables, StageIsWhole
  <2>2. ASSUME NEW b \in Bundles, payload[b].kind = "unfit"  PROVE  FALSE
    <3>1. <<b, 0>> \in Range(buffer["runs"])
      BY <2>1, <2>2 DEF FitInv, StageIsWhole
    <3>2. payload[<<b, 0>>[1]].kind # "unfit"
      BY <2>1, <3>1 DEF Converts
    <3> QED  BY <2>2, <3>2
  <2> QED  BY <2>1, <2>2 DEF FitInv
<1>5. CASE Promote
  BY <1>5 DEF Promote, FitInv, vars, StageIsWhole
<1> QED  BY <1>1, <1>2, <1>3, <1>4, <1>5, IntakeEffect DEF intakeState

LEMMA StageStep ==
  ASSUME SourceInv, StageInv, [IntakeNext]_allVars
  PROVE  StageInv'
<1>0. main = "ended" => UNCHANGED <<main, outcome>>
  BY IntakeStep, EndedStep DEF SourceInv
<1>1. CASE UNCHANGED intakeState
  BY <1>0, <1>1 DEF StageInv, intakeState, StageIsWhole
<1>2. CASE FailIntake
  BY <1>2 DEF FailIntake, StageInv
<1>3. ASSUME NEW p \in Payloads, Takes(p)  PROVE  StageInv'
  BY <1>3 DEF Takes, StageInv
<1>4. CASE Flushes
  BY <1>4 DEF Flushes, StageInv
<1>5. CASE Promote
  BY <1>5 DEF Promote, StageInv, StageIsWhole, vars
<1> QED  BY <1>1, <1>2, <1>3, <1>4, <1>5, IntakeEffect DEF intakeState

\* the batches of one table
TableFull(t) ==
    /\ Len(buffer[t]) < RowBatchSize
    /\ \A i \in 1 .. Len(staged[t]) :
         /\ Len(staged[t][i]) \in 1 .. RowBatchSize
         /\ i < Len(staged[t]) \/ ~StageIsWhole => Len(staged[t][i]) = RowBatchSize

LEMMA BatchesFullByTable ==
  ASSUME IntakeTypeOK
  PROVE  BatchesFull <=> \A t \in Tables : TableFull(t)
<1>1. ASSUME NEW t \in Tables  PROVE  DOMAIN staged[t] = 1 .. Len(staged[t])
  BY LenProperties DEF IntakeTypeOK
<1> QED  BY <1>1 DEF BatchesFull, TableFull

LEMMA TableFullStep ==
  ASSUME SourceInv, SourceInv', IntakeTypeOK, NEW t \in Tables, TableFull(t),
         [IntakeNext]_allVars
  PROVE  TableFull(t)'
<1> USE DEF TableFull
<1>0. /\ main = "ended" => UNCHANGED <<main, outcome>>
      /\ buffer[t] \in Seq(Rows) /\ staged[t] \in Seq(Seq(Rows))
      /\ RowBatchSize \in Nat /\ 0 < RowBatchSize
  BY IntakeStep, EndedStep, IntakeAssumption DEF SourceInv, IntakeTypeOK, Rows
<1>1. CASE UNCHANGED intakeState
  BY <1>0, <1>1 DEF intakeState, StageIsWhole
<1>2. CASE FailIntake
  BY <1>0, <1>2 DEF FailIntake, Empty
<1>3. ASSUME NEW p \in Payloads, Takes(p)  PROVE  TableFull(t)'
  <2> DEFINE rows == RowsWith(p, t)
             full == FullBatches(rows)
  <2>1. /\ rows \in Seq(Rows) /\ ~StageIsWhole
    BY <1>3, TakesGiven, TakenRows DEF StageIsWhole
  <2>2. buffer'[t] = Rest(rows) /\ staged'[t] = staged[t] \o full
    BY <1>3 DEF Takes
  <2>3. Len(Rest(rows)) < RowBatchSize
    BY <2>1, RestIs
  <2>4. full \in Seq(Seq(Rows)) /\ \A i \in 1 .. Len(full) : Len(full[i]) = RowBatchSize
    BY <2>1, FullBatchesAre
  <2> HIDE DEF rows, full
  <2>5. /\ staged[t] \o full \in Seq(Seq(Rows))
        /\ Len(staged[t] \o full) = Len(staged[t]) + Len(full)
        /\ \A i \in 1 .. Len(staged[t]) + Len(full) : (staged[t] \o full)[i] =
             IF i <= Len(staged[t]) THEN staged[t][i] ELSE full[i - Len(staged[t])]
    BY <1>0, <2>4, ConcatProperties
  <2>6. ASSUME NEW i \in 1 .. Len(staged'[t])  PROVE  Len(staged'[t][i]) = RowBatchSize
    <3>1. Len(staged[t]) \in Nat /\ Len(full) \in Nat
      BY <1>0, <2>4
    <3>2. CASE i <= Len(staged[t])
      BY <2>1, <2>2, <2>5, <2>6, <3>1, <3>2
    <3>3. CASE Len(staged[t]) < i
      <4>1. i - Len(staged[t]) \in 1 .. Len(full)
        BY <2>2, <2>5, <2>6, <3>1, <3>3
      <4> QED  BY <2>2, <2>4, <2>5, <2>6, <3>1, <3>3, <4>1
    <3> QED  BY <2>2, <2>5, <2>6, <3>1, <3>2, <3>3
  <2> QED  BY <1>0, <2>2, <2>3, <2>6
<1>4. CASE Flushes
  <2> DEFINE last == LastBatch(buffer[t])
  <2>1. /\ ~StageIsWhole /\ StageIsWhole' /\ buffer'[t] = <<>> /\ staged'[t] = staged[t] \o last
    BY <1>4 DEF Flushes, Complete, EndWith, StageIsWhole, Empty
  <2>2. /\ last \in Seq(Seq(Rows)) /\ Len(last) <= 1
        /\ \A i \in 1 .. Len(last) : Len(last[i]) \in 1 .. RowBatchSize
    <3>1. CASE buffer[t] = <<>>
      BY <3>1 DEF LastBatch
    <3>2. CASE buffer[t] # <<>>
      <4>1. Len(buffer[t]) \in 1 .. RowBatchSize
        BY <1>0, <3>2, EmptySeq, LenProperties
      <4> QED  BY <1>0, <3>2, <4>1 DEF LastBatch
    <3> QED  BY <3>1, <3>2
  <2> HIDE DEF last
  <2>3. /\ Len(staged[t] \o last) = Len(staged[t]) + Len(last)
        /\ \A i \in 1 .. Len(staged[t]) + Len(last) : (staged[t] \o last)[i] =
             IF i <= Len(staged[t]) THEN staged[t][i] ELSE last[i - Len(staged[t])]
    BY <1>0, <2>2, ConcatProperties
  <2>4. ASSUME NEW i \in 1 .. Len(staged'[t])
        PROVE  /\ Len(staged'[t][i]) \in 1 .. RowBatchSize
               /\ i < Len(staged'[t]) => Len(staged'[t][i]) = RowBatchSize
    <3>1. Len(staged[t]) \in Nat /\ Len(last) \in Nat
      BY <1>0, <2>2
    <3>2. CASE i <= Len(staged[t])
      <4>1. staged'[t][i] = staged[t][i]
        BY <2>1, <2>3, <2>4, <3>1, <3>2
      <4>2. i \in 1 .. Len(staged[t])
        BY <2>4, <3>1, <3>2
      <4> QED  BY <1>0, <2>1, <4>1, <4>2
    <3>3. CASE Len(staged[t]) < i
      <4>1. i - Len(staged[t]) \in 1 .. Len(last) /\ i = Len(staged'[t])
        BY <2>1, <2>2, <2>3, <2>4, <3>1, <3>3
      <4>2. staged'[t][i] = last[i - Len(staged[t])]
        BY <2>1, <2>3, <2>4, <3>1, <3>3
      <4>3. Len(last[i - Len(staged[t])]) \in 1 .. RowBatchSize
        BY <2>2, <4>1
      <4>4. ~(i < Len(staged'[t]))
        BY <2>4, <4>1
      <4> QED  BY <4>2, <4>3, <4>4
    <3> QED  BY <2>1, <2>3, <2>4, <3>1, <3>2, <3>3
  <2> QED  BY <1>0, <2>1, <2>4
<1>5. CASE Promote
  BY <1>0, <1>5 DEF Promote, vars, StageIsWhole
<1> QED  BY <1>1, <1>2, <1>3, <1>4, <1>5, IntakeEffect DEF intakeState

-----------------------------------------------------------------------------
\* What the stage holds: with the buffer after it, each table is the rows of the
\* Bundles the consumer is done with, in their order.

\* Taking the rows new moves what is full to the stage s, and loses no row.
Conserved(s, buf, new) ==
    FlattenSeq(s \o FullBatches(buf \o new)) \o Rest(buf \o new)
      = (FlattenSeq(s) \o buf) \o new

LEMMA StageTakes ==
  ASSUME NEW S, NEW s \in Seq(Seq(S)), NEW buf \in Seq(S), NEW new \in Seq(S)
  PROVE  Conserved(s, buf, new)
<1> DEFINE rows == buf \o new
           full == FlattenSeq(FullBatches(rows))
           flat == FlattenSeq(s)
<1>1. rows \in Seq(S)
  BY ConcatProperties
<1>2. FullBatches(rows) \in Seq(Seq(S)) /\ Rest(rows) \in Seq(S)
  BY <1>1, FullBatchesAre, RestIs
<1>3. flat \in Seq(S) /\ full \in Seq(S)
  BY <1>2, FlattenType
<1>4. FlattenSeq(s \o FullBatches(rows)) = flat \o full
  BY <1>2, FlattenConcat
<1>5. full \o Rest(rows) = rows
  BY <1>1, FlattenBatches
<1> HIDE DEF flat, full
<1>6. (flat \o full) \o Rest(rows) = flat \o (full \o Rest(rows))
  <2> DEFINE rest == Rest(rows)
  <2>1. rest \in Seq(S)
    BY <1>2
  <2> HIDE DEF rest
  <2>2. Associates(flat, full, rest)
    BY <1>3, <2>1, Regroup
  <2> QED  BY <2>2, Zenon DEF rest, Associates
<1>7. Associates(flat, buf, new)
  BY <1>3, Regroup
<1>8. (flat \o buf) \o new = flat \o rows
  BY <1>7, Zenon DEF Associates
<1> HIDE DEF rows
<1>9. FlattenSeq(s \o FullBatches(rows)) \o Rest(rows) = (flat \o buf) \o new
  BY <1>4, <1>5, <1>6, <1>8, Zenon
<1> QED  BY <1>9 DEF rows, flat, Conserved

\* The last flush loses none.
LEMMA StageFlushes ==
  ASSUME NEW S, NEW s \in Seq(Seq(S)), NEW buf \in Seq(S)
  PROVE  FlattenSeq(s \o LastBatch(buf)) \o <<>> = FlattenSeq(s) \o buf
<1>1. FlattenSeq(s) \in Seq(S)
  BY FlattenType
<1>2. CASE buf = <<>>
  <2>1. LastBatch(buf) = <<>>
    BY <1>2 DEF LastBatch
  <2>2. s \o <<>> = s
    BY ConcatEmptySeq
  <2> QED  BY <1>2, <2>1, <2>2
<1>3. CASE buf # <<>>
  <2>1. LastBatch(buf) = <<buf>> /\ <<buf>> \in Seq(Seq(S))
    BY <1>3 DEF LastBatch
  <2>2. FlattenSeq(s \o <<buf>>) = FlattenSeq(s) \o FlattenSeq(<<buf>>)
    BY <2>1, FlattenConcat
  <2>3. FlattenSeq(<<buf>>) = buf
    BY FlattenOne
  <2>4. FlattenSeq(s) \o buf \in Seq(S)
    BY <1>1, ConcatProperties
  <2> DEFINE both == FlattenSeq(s) \o buf
  <2>5. both \o <<>> = both
    <3> HIDE DEF both
    <3>1. \A x \in Seq(S) : x \o <<>> = x
      BY ConcatEmptySeq
    <3> QED  BY <2>4, <3>1 DEF both
  <2>6. FlattenSeq(s \o <<buf>>) = both
    BY <2>2, <2>3
  <2> HIDE DEF both
  <2>7. FlattenSeq(s \o <<buf>>) \o <<>> = both
    BY <2>5, <2>6, Zenon
  <2> QED  BY <2>1, <2>7 DEF both
<1> QED  BY <1>2, <1>3

\* the rows of table t of the given items, one sequence per item
RowsFor(items, payloads, t) ==
    [i \in 1 .. Len(items) |-> RowsOf(items[i], payloads[items[i]])[t]]

Accounted(t) == RowsFor(Ascending(yielded), payload, t)

WholeInv ==
    /\ intake # "failed" =>
         /\ \A b \in yielded : payload[b] \in Payloads
         /\ \A t \in Tables : FlattenSeq(staged[t]) \o buffer[t] = FlattenSeq(Accounted(t))
         /\ Len(FlattenSeq(Accounted("runs"))) + Len(FlattenSeq(Accounted("quarantine")))
              = Cardinality(yielded)
         /\ StageIsWhole => yielded = listed /\ buffer = Empty

\* The next Bundle adds its rows at the end.
LEMMA RowsForNext ==
  ASSUME NEW S \in SUBSET Bundles, NEW b \in Bundles, \A c \in S : c < b,
         NEW payloads \in [Bundles -> Payloads \cup {Unread}],
         \A c \in S : payloads[c] \in Payloads, NEW p \in Payloads, NEW t \in Tables
  PROVE  LET old == RowsFor(Ascending(S), payloads, t)
             new == RowsFor(Ascending(S \cup {b}), [payloads EXCEPT ![b] = p], t)
         IN  /\ old \in Seq(Seq(Rows)) /\ RowsOf(b, p)[t] \in Seq(Rows)
             /\ new = old \o <<RowsOf(b, p)[t]>>
             /\ Len(Ascending(S)) = Cardinality(S)
<1> DEFINE n == Cardinality(S)
           items == Ascending(S)
           more == Ascending(S \cup {b})
           after == [payloads EXCEPT ![b] = p]
           of(c) == RowsOf(c, payloads[c])[t]
           last == RowsOf(b, p)[t]
           old == RowsFor(items, payloads, t)
           new == RowsFor(more, after, t)
<1>1. /\ IsFiniteSet(S) /\ S \subseteq Int /\ b \in Int /\ n \in Nat
      /\ S \cup {b} \in SUBSET Bundles
      /\ IsFiniteSet(S \cup {b}) /\ S \cup {b} \subseteq Int
  BY BundleSets
<1>2. /\ items \in [1 .. n -> Int] /\ Range(items) = S
      /\ more \in [1 .. Cardinality(S \cup {b}) -> Int]
  BY <1>1, AscendingEnumerates
<1>3. /\ Cardinality(S \cup {b}) = n + 1
      /\ \A k \in 1 .. n : more[k] = items[k]
      /\ more[n + 1] = b
  BY <1>1, AscendingGrows
<1>4. \A k \in 1 .. n : items[k] \in S
  BY <1>2 DEF Range
<1> HIDE DEF n, items, more
<1>5. Len(items) = n /\ Len(more) = n + 1
  <2>1. ASSUME NEW m \in Nat, NEW f \in [1 .. m -> Int]  PROVE  Len(f) = m
    OBVIOUS
  <2>2. more \in [1 .. n + 1 -> Int]
    BY <1>2, <1>3, Zenon
  <2>3. n + 1 \in Nat
    BY <1>1
  <2> QED  BY <1>1, <1>2, <2>1, <2>2, <2>3
<1>6. \A c \in S : of(c) \in Seq(Rows)
  BY RowsOfType
<1>7. last \in Seq(Rows)
  BY RowsOfType
<1>8. \A c \in S : after[c] = payloads[c]
  <2>1. \A c \in S : c # b
    BY <1>1
  <2> QED  BY <2>1
<1>9. after[b] = p
  OBVIOUS
<1> HIDE DEF after, last
<1>10. old = [k \in 1 .. n |-> of(items[k])]
  BY <1>5 DEF RowsFor
<1>11. new = [k \in 1 .. n + 1 |-> RowsOf(more[k], after[more[k]])[t]]
  BY <1>5 DEF RowsFor
<1> HIDE DEF old, new
<1>12. \A k \in 1 .. n : of(items[k]) = RowsOf(more[k], after[more[k]])[t]
  BY <1>3, <1>4, <1>8
<1>13. \A k \in 1 .. n : of(items[k]) \in Seq(Rows)
  BY <1>4, <1>6
<1> HIDE DEF of
<1>14. old \in Seq(Seq(Rows)) /\ Len(old) = n
  BY <1>1, <1>10, <1>13
<1>15. <<last>> \in Seq(Seq(Rows)) /\ Len(<<last>>) = 1 /\ <<last>>[1] = last
  BY <1>7
<1>16. /\ old \o <<last>> \in Seq(Seq(Rows)) /\ Len(old \o <<last>>) = n + 1
       /\ \A k \in 1 .. n + 1 : (old \o <<last>>)[k] = IF k <= n THEN old[k] ELSE <<last>>[k - n]
  BY <1>14, <1>15, ConcatProperties
<1>17. ASSUME NEW k \in 1 .. n + 1  PROVE  new[k] = (old \o <<last>>)[k]
  <2>1. CASE k <= n
    <3>1. k \in 1 .. n
      BY <1>1, <2>1
    <3>2. new[k] = of(items[k]) /\ old[k] = of(items[k])
      BY <1>10, <1>11, <1>12, <3>1
    <3>3. (old \o <<last>>)[k] = old[k]
      BY <1>16, <2>1
    <3> QED  BY <3>2, <3>3
  <2>2. CASE ~(k <= n)
    <3>1. k = n + 1 /\ k - n = 1
      BY <1>1, <1>17, <2>2
    <3>2. (old \o <<last>>)[k] = last
      BY <1>15, <1>16, <2>2, <3>1
    <3>3. new[k] = RowsOf(b, p)[t]
      BY <1>3, <1>9, <1>11, <1>17, <3>1
    <3> QED  BY <3>2, <3>3 DEF last
  <2> QED  BY <2>1, <2>2
<1>18. new = old \o <<last>>
  <2> DEFINE both == old \o <<last>>
  <2>1. both = [k \in 1 .. n + 1 |-> both[k]]
    BY <1>1, <1>16
  <2>2. new = [k \in 1 .. n + 1 |-> new[k]]
    BY <1>11
  <2>3. \A k \in 1 .. n + 1 : new[k] = both[k]
    BY <1>17
  <2> HIDE DEF both
  <2>4. [k \in 1 .. n + 1 |-> new[k]] = [k \in 1 .. n + 1 |-> both[k]]
    BY <2>3
  <2>5. new = both
    BY <2>1, <2>2, <2>4, Zenon
  <2> QED  BY <2>5 DEF both
<1> QED  BY <1>5, <1>7, <1>14, <1>18 DEF n, items, more, after, last, old, new

LEMMA WholeStep ==
  ASSUME SourceInv, SourceInv', IntakeTypeOK, StageInv, WholeInv, [IntakeNext]_allVars
  PROVE  WholeInv'
<1>0. /\ main = "ended" => UNCHANGED <<main, outcome, listed>>
      /\ payload \in [Bundles -> Payloads \cup {Unread}]
      /\ \A t \in Tables : buffer[t] \in Seq(Rows) /\ staged[t] \in Seq(Seq(Rows))
  BY IntakeStep, EndedStep DEF SourceInv, IntakeTypeOK, Rows
<1>1. CASE /\ UNCHANGED <<intakeState, yielded>>
           /\ intake = "open" /\ StageIsWhole' => StageIsWhole
  <2>1. \A t : Accounted(t)' = Accounted(t)
    BY <1>1 DEF Accounted, intakeState
  <2>2. intake' # "failed" /\ StageIsWhole' => StageIsWhole /\ UNCHANGED listed
    BY <1>0, <1>1 DEF StageInv, StageIsWhole, intakeState, SourceInv, TypeOK, IntakeTypeOK
  <2> QED  BY <1>1, <2>1, <2>2 DEF WholeInv, intakeState
<1>2. CASE FailIntake
  BY <1>2 DEF FailIntake, WholeInv
<1>3. ASSUME NEW p \in Payloads, Takes(p)  PROVE  WholeInv'
  <2>1. /\ awaited \in Bundles /\ main' = "fill" /\ intake = "open" /\ intake' = "open"
        /\ yielded' = yielded \cup {awaited}
        /\ payload' = [payload EXCEPT ![awaited] = p]
    BY <1>3, TakesGiven DEF Takes, Resume
  <2>2. yielded \in SUBSET Bundles /\ \A c \in yielded : c < awaited
    BY <2>1 DEF SourceInv, TypeOK, SubmittedInv, Out
  <2>3. \A c \in yielded : payload[c] \in Payloads
    BY <2>1 DEF WholeInv
  <2> DEFINE new(t) == RowsOf(awaited, p)[t]
  <2>4. ASSUME NEW t \in Tables
        PROVE  /\ Accounted(t) \in Seq(Seq(Rows)) /\ new(t) \in Seq(Rows)
               /\ FlattenSeq(Accounted(t)) \in Seq(Rows)
               /\ FlattenSeq(Accounted(t))' = FlattenSeq(Accounted(t)) \o new(t)
    <3>1. /\ Accounted(t) \in Seq(Seq(Rows)) /\ new(t) \in Seq(Rows)
          /\ Accounted(t)' = Accounted(t) \o <<new(t)>>
      BY <1>0, <2>1, <2>2, <2>3, RowsForNext DEF Accounted
    <3> HIDE DEF new
    <3>2. <<new(t)>> \in Seq(Seq(Rows))
      BY <3>1
    <3>3. FlattenSeq(Accounted(t) \o <<new(t)>>)
            = FlattenSeq(Accounted(t)) \o FlattenSeq(<<new(t)>>)
      BY <3>1, <3>2, FlattenConcat
    <3>4. FlattenSeq(<<new(t)>>) = new(t) /\ FlattenSeq(Accounted(t)) \in Seq(Rows)
      BY <3>1, FlattenOne, FlattenType
    <3> QED  BY <3>1, <3>3, <3>4
  <2>5. ASSUME NEW t \in Tables
        PROVE  (FlattenSeq(staged[t]) \o buffer[t])' = FlattenSeq(Accounted(t))'
    <3>1. /\ staged'[t] = staged[t] \o FullBatches(buffer[t] \o new(t))
          /\ buffer'[t] = Rest(buffer[t] \o new(t))
      BY <1>3 DEF Takes, RowsWith
    <3>2. FlattenSeq(staged[t]) \o buffer[t] = FlattenSeq(Accounted(t))
      BY <2>1 DEF WholeInv
    <3>3. FlattenSeq(staged[t] \o FullBatches(buffer[t] \o new(t))) \o Rest(buffer[t] \o new(t))
            = (FlattenSeq(staged[t]) \o buffer[t]) \o new(t)
      <4> DEFINE a == staged[t]
                 b == buffer[t]
                 c == new(t)
      <4>1. a \in Seq(Seq(Rows)) /\ b \in Seq(Rows) /\ c \in Seq(Rows)
        BY <1>0, <2>4
      <4> HIDE DEF a, b, c
      <4>2. Conserved(a, b, c)
        BY <4>1, StageTakes
      <4> QED  BY <4>2 DEF a, b, c, Conserved
    <3> HIDE DEF new
    <3> QED  BY <2>4, <3>1, <3>2, <3>3
  <2>6. (Len(FlattenSeq(Accounted("runs"))) + Len(FlattenSeq(Accounted("quarantine"))))'
          = Cardinality(yielded')
    <3> DEFINE runs == FlattenSeq(Accounted("runs"))
               rejected == FlattenSeq(Accounted("quarantine"))
    <3>1. Len(runs) + Len(rejected) = Cardinality(yielded)
      BY <2>1 DEF WholeInv
    <3>2. /\ runs \in Seq(Rows) /\ rejected \in Seq(Rows)
          /\ new("runs") \in Seq(Rows) /\ new("quarantine") \in Seq(Rows)
          /\ runs' = runs \o new("runs") /\ rejected' = rejected \o new("quarantine")
      BY <2>4 DEF Tables
    <3>3. Len(new("runs")) + Len(new("quarantine")) = 1
      <4>1. CASE p.kind = "discarded"
        <5>1. new("runs") = <<>> /\ new("quarantine") = << <<awaited, 0>> >>
          BY <4>1 DEF RowsOf, Tables
        <5> QED  BY <5>1
      <4>2. CASE p.kind # "discarded"
        <5>1. new("quarantine") = <<>> /\ new("runs") = << <<awaited, 0>> >>
          BY <4>2 DEF RowsOf, Tables
        <5> QED  BY <5>1
      <4> QED  BY <4>1, <4>2
    <3>4. Cardinality(yielded') = Cardinality(yielded) + 1 /\ Cardinality(yielded) \in Nat
      BY <2>1, <2>2, BundleSets, AscendingGrows
    <3> HIDE DEF runs, rejected, new
    <3>5. Len(runs') = Len(runs) + Len(new("runs"))
          /\ Len(rejected') = Len(rejected) + Len(new("quarantine"))
      BY <3>2, ConcatProperties
    <3>6. Len(runs') + Len(rejected') = Cardinality(yielded')
      <4>1. /\ Len(runs) \in Nat /\ Len(new("runs")) \in Nat
            /\ Len(rejected) \in Nat /\ Len(new("quarantine")) \in Nat
        BY <3>2, LenProperties
      <4> QED  BY <3>1, <3>3, <3>4, <3>5, <4>1
    <3> QED  BY <3>6 DEF runs, rejected
  <2>7. \A b \in yielded' : payload'[b] \in Payloads
    BY <1>0, <2>1, <2>2, <2>3
  <2>8. ~StageIsWhole'
    BY <2>1 DEF StageIsWhole
  <2> QED  BY <2>5, <2>6, <2>7, <2>8 DEF WholeInv
<1>4. CASE Flushes
  <2>1. /\ intake = "open" /\ yielded = listed /\ UNCHANGED <<yielded, listed, payload>>
        /\ buffer' = Empty /\ ~StageIsWhole
    BY <1>4 DEF Flushes, Complete, EndWith, StageIsWhole
  <2>2. \A t : Accounted(t)' = Accounted(t)
    BY <2>1 DEF Accounted
  <2>3. ASSUME NEW t \in Tables
        PROVE  (FlattenSeq(staged[t]) \o buffer[t])' = FlattenSeq(staged[t]) \o buffer[t]
    <3>1. staged'[t] = staged[t] \o LastBatch(buffer[t]) /\ buffer'[t] = <<>>
      BY <1>4 DEF Flushes, Empty
    <3>2. FlattenSeq(staged[t] \o LastBatch(buffer[t])) \o <<>> = FlattenSeq(staged[t]) \o buffer[t]
      BY <1>0, StageFlushes
    <3> QED  BY <3>1, <3>2
  <2> QED  BY <2>1, <2>2, <2>3 DEF WholeInv
<1>5. CASE Promote
  <2>1. /\ intake = "open" /\ StageIsWhole
        /\ UNCHANGED <<main, outcome, listed, yielded, payload, buffer, staged>>
    BY <1>5 DEF Promote, vars
  <2>2. \A t : Accounted(t)' = Accounted(t)
    BY <2>1 DEF Accounted
  <2> QED  BY <2>1, <2>2 DEF WholeInv, StageIsWhole
<1> QED  BY <1>1, <1>2, <1>3, <1>4, <1>5, IntakeEffect

LEMMA WholeInit ==
  ASSUME IntakeInit, SourceInv
  PROVE  WholeInv
<1>1. /\ yielded = {} /\ intake = "open" /\ buffer = Empty /\ staged = Empty /\ ~StageIsWhole
  BY DEF IntakeInit, Init, StageIsWhole
<1>2. Cardinality({}) = 0 /\ IsFiniteSet({}) /\ {} \subseteq Int
  BY FS_EmptySet
<1>3. Ascending({}) = <<>>
  <2>1. Ascending({}) \in [1 .. 0 -> Int]
    BY <1>2, AscendingEnumerates
  <2> QED  BY <2>1
<1>4. \A t \in Tables : Accounted(t) = <<>>
  BY <1>1, <1>3 DEF Accounted, RowsFor
<1>5. \A t \in Tables : staged[t] = <<>> /\ buffer[t] = <<>>
  BY <1>1 DEF Empty
<1>6. <<>> \o <<>> = <<>> /\ Len(<<>>) = 0 /\ "runs" \in Tables /\ "quarantine" \in Tables
  BY DEF Tables
<1>7. \A t \in Tables : FlattenSeq(staged[t]) \o buffer[t] = FlattenSeq(Accounted(t))
  BY <1>4, <1>5, <1>6, FlattenEmpty
<1>8. Len(FlattenSeq(Accounted("runs"))) + Len(FlattenSeq(Accounted("quarantine")))
        = Cardinality(yielded)
  BY <1>1, <1>2, <1>4, <1>6, FlattenEmpty
<1> QED  BY <1>1, <1>7, <1>8 DEF WholeInv

-----------------------------------------------------------------------------
IntakeInv ==
    SourceInv /\ IntakeTypeOK /\ StageInv /\ FitInv /\ BatchesFull /\ WholeInv

LEMMA IntakeInvariant == IntakeSpec => []IntakeInv
<1>1. IntakeInit /\ SourceInv => IntakeTypeOK /\ StageInv /\ FitInv /\ BatchesFull /\ WholeInv
  <2> SUFFICES ASSUME IntakeInit, SourceInv
               PROVE  IntakeTypeOK /\ StageInv /\ FitInv /\ BatchesFull /\ WholeInv
    OBVIOUS
  <2>1. IntakeTypeOK
    BY DEF IntakeInit, IntakeTypeOK, SourceInv, Empty
  <2>2. StageInv /\ FitInv
    BY DEF IntakeInit, Init, StageInv, FitInv, StageIsWhole, Unread
  <2>3. \A t \in Tables : TableFull(t)
    BY IntakeAssumption DEF IntakeInit, TableFull, Empty
  <2> QED  BY <2>1, <2>2, <2>3, BatchesFullByTable, WholeInit
<1>2. IntakeInv /\ SourceInv' /\ [IntakeNext]_allVars => IntakeInv'
  <2> SUFFICES ASSUME IntakeInv, SourceInv', [IntakeNext]_allVars  PROVE  IntakeInv'
    OBVIOUS
  <2>1. SourceInv /\ IntakeTypeOK /\ StageInv /\ FitInv /\ IntakeTypeOK'
    BY IntakeTypeStep DEF IntakeInv
  <2>2. \A t \in Tables : TableFull(t)'
    BY <2>1, BatchesFullByTable, TableFullStep DEF IntakeInv
  <2>3. BatchesFull'
    <3>1. ASSUME NEW t \in Tables  PROVE  DOMAIN staged'[t] = 1 .. Len(staged'[t])
      BY <2>1, LenProperties DEF IntakeTypeOK
    <3> QED  BY <2>2, <3>1 DEF BatchesFull, TableFull
  <2> QED  BY <2>1, <2>3, StageStep, FitStep, WholeStep DEF IntakeInv
<1> QED
  BY <1>1, <1>2, IntakeSourceInvariant, PTL DEF IntakeSpec, IntakeInv

\* Every variable of the source and of the intake has its type.
THEOREM IntakeTypeCorrect == IntakeSpec => []IntakeTypeOK
<1>1. IntakeInv => IntakeTypeOK
  BY DEF IntakeInv
<1> QED  BY <1>1, IntakeInvariant, PTL

\* No buffer holds a whole batch, and every batch but the last of its table is
\* full, whatever the batch size and the numbers of battles
\* (projection.py, _BatchWriter; FactStore.commit_hour).
THEOREM BatchesAlwaysFull == IntakeSpec => []BatchesFull
<1>1. IntakeInv => BatchesFull
  BY DEF IntakeInv
<1> QED  BY <1>1, IntakeInvariant, PTL

\* A committed partition holds, table by table, the rows of exactly the hour's
\* Bundles in the order of the index, and accounts for each of them once, for
\* any number of Bundles, threads, battles and any batch size (Projection.stream,
\* _BatchWriter; FactStore.commit_hour).
THEOREM CommittedAlwaysWhole == IntakeSpec => []CommittedIsWhole
<1>1. IntakeInv => CommittedIsWhole
  <2> SUFFICES ASSUME IntakeInv, intake = "committed"
               PROVE  LET items == Ascending(listed)
                          rows(t) == FlattenSeq(RowsFor(items, payload, t))
                          written(t) == FlattenSeq(staged[t])
                      IN  /\ early \subseteq listed
                          /\ \A t \in Tables : written(t) = rows(t)
                          /\ Len(written("runs")) + Len(written("quarantine")) = Len(items)
    BY DEF CommittedIsWhole, RowsFor
  <2>1. /\ StageIsWhole /\ yielded = listed /\ buffer = Empty
        /\ \A t \in Tables : FlattenSeq(staged[t]) \o buffer[t]
                               = FlattenSeq(RowsFor(Ascending(listed), payload, t))
        /\ Len(FlattenSeq(RowsFor(Ascending(listed), payload, "runs")))
             + Len(FlattenSeq(RowsFor(Ascending(listed), payload, "quarantine")))
             = Cardinality(listed)
    BY DEF IntakeInv, StageInv, WholeInv, Accounted
  <2>2. early \subseteq listed
    BY <2>1 DEF IntakeInv, SourceInv, CompleteInv, StageIsWhole
  <2>3. ASSUME NEW t \in Tables
        PROVE  FlattenSeq(staged[t]) = FlattenSeq(RowsFor(Ascending(listed), payload, t))
    <3>1. staged[t] \in Seq(Seq(Rows)) /\ buffer[t] = <<>>
      BY <2>1 DEF IntakeInv, IntakeTypeOK, Rows, Empty
    <3>2. FlattenSeq(staged[t]) \in Seq(Rows)
      BY <3>1, FlattenType
    <3> QED  BY <2>1, <3>1, <3>2, ConcatEmptySeq
  <2>4. Len(Ascending(listed)) = Cardinality(listed)
    <3>1. listed \in SUBSET Bundles
      BY DEF IntakeInv, SourceInv, TypeOK
    <3>2. /\ Ascending(listed) \in [1 .. Cardinality(listed) -> Int]
          /\ Cardinality(listed) \in Nat
      BY <3>1, BundleSets, AscendingEnumerates
    <3> QED  BY <3>2
  <2> QED  BY <2>1, <2>2, <2>3, <2>4 DEF Tables
<1> QED  BY <1>1, IntakeInvariant, PTL

\* A number that fits no column never reaches a committed partition: its row
\* waits in a buffer until the conversion of its batch raises
\* (RecordBatch.from_pylist in projection.py).
THEOREM CommittedAlwaysFits == IntakeSpec => []CommittedFits
<1>1. IntakeInv => CommittedFits
  BY DEF IntakeInv, FitInv, CommittedFits, SourceInv, TypeOK
<1> QED  BY <1>1, IntakeInvariant, PTL

=============================================================================
