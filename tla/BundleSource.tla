---------------------------- MODULE BundleSource ----------------------------
(***************************************************************************)
(* One Source Hour fetched from the Bundle Server (bundle_source.py): the  *)
(* paged listing (hour_index), then the bounded, ordered stream of its     *)
(* downloads (stream) by a pool of threads, each of which may find its     *)
(* download URL expired and list the hour again under a lock.              *)
(*                                                                         *)
(* A Bundle is its position in the keyset order (available_at_ms, id).  A  *)
(* request stands for the request with its retries: it ends well, or with  *)
(* the last error.  The server may receive late Bundles (Arrive) and may   *)
(* stop retaining the hour (Retire), after which a listing is a 410.       *)
(***************************************************************************)
EXTENDS Integers, FiniteSets, FiniteSetsExt

CONSTANTS
    MaxBundles,     \* bound: Bundles of the hour
    PageLimit,      \* page_limit
    Lookahead,      \* lookahead
    Workers         \* download_concurrency

ASSUME SourceAssumption ==
    /\ MaxBundles \in Nat
    /\ PageLimit \in Nat \ {0} /\ Lookahead \in Nat \ {0} /\ Workers \in Nat \ {0}

Bundles == 1 .. MaxBundles
NoBundle == 0

VARIABLES
    stored,     \* the Bundles the server lists
    early,      \* auxiliary: those it listed when the listing began
    gone,       \* the server no longer retains the hour
    past,       \* _is_past_retention by the local clock
    main,       \* the thread that lists and streams
    cursor,     \* position of the last page's last item
    listed,     \* by_id, then index.items
    task,       \* per Bundle its download, from nothing to a result
    pending,    \* `pending`: submitted and not yet waited for
    awaited,    \* the Bundle whose result is waited for, or given out
    yielded,    \* the Bundles the consumer is done with
    refresher,  \* holder of _refresh_lock
    outcome     \* how it ended

server == <<stored, early, gone, past>>
vars == <<server, main, cursor, listed, task, pending, awaited, yielded,
          refresher, outcome>>

Failures == {"expired", "retryable", "contract"}
Active   == {"download", "locked", "relist", "again"}
Tasks    == {"none", "queued", "cancelled", "bundle"} \cup Active \cup Failures

Running   == { b \in Bundles : task[b] \in Active }
Submitted == { b \in listed : task[b] # "none" }

Init ==
    /\ stored \in SUBSET Bundles /\ early = stored
    /\ gone = FALSE /\ past = FALSE
    /\ main = "list" /\ cursor = NoBundle /\ listed = {}
    /\ task = [b \in Bundles |-> "none"]
    /\ pending = {} /\ awaited = NoBundle /\ yielded = {}
    /\ refresher = NoBundle /\ outcome = "none"

-----------------------------------------------------------------------------
\* the server and the clock
stream_state == <<main, cursor, listed, task, pending, awaited, yielded, refresher, outcome>>

Arrive(b) ==
    /\ b \notin stored /\ stored' = stored \cup {b}
    /\ UNCHANGED <<early, gone, past, stream_state>>

Retire ==
    /\ ~gone /\ gone' = TRUE
    /\ UNCHANGED <<stored, early, past, stream_state>>

PassRetention ==
    /\ ~past /\ past' = TRUE
    /\ UNCHANGED <<stored, early, gone, stream_state>>

-----------------------------------------------------------------------------
\* hour_index
EndWith(result) == main' = "ended" /\ outcome' = result

\* bug: the cursor of the next page skips an item
After_SkipsOne == { b \in stored : b > cursor + 1 }

\* what follows the cursor; the server may repeat the cursor's own item
After == { b \in stored : b > cursor }
FromCursor == { b \in stored : b >= cursor }

FirstPage(items) == { b \in items : Cardinality({ c \in items : c <= b }) <= PageLimit }

\* a page: its items join by_id, its last item is the next cursor and has to be
\* beyond the one before; the last page ends the listing, and an empty listing
\* of an hour past retention is an expired hour
ListPage(items) ==
    /\ main = "list" /\ ~gone
    /\ LET page == FirstPage(items)
           more == page # items
       IN  /\ listed' = listed \cup page
           /\ \/ /\ more /\ Max(page) > cursor
                 /\ cursor' = Max(page) /\ UNCHANGED <<main, outcome>>
              \/ /\ more /\ Max(page) <= cursor
                 /\ EndWith("contract") /\ UNCHANGED cursor
              \/ /\ ~more /\ listed' = {} /\ past
                 /\ EndWith("expired") /\ UNCHANGED cursor
              \/ /\ ~more /\ ~(listed' = {} /\ past)
                 /\ main' = "fill" /\ UNCHANGED <<cursor, outcome>>
    /\ UNCHANGED <<server, task, pending, awaited, yielded, refresher>>

\* 410, an exhausted retry, or a response outside the contract
FailListing(failure) ==
    /\ main = "list"
    /\ failure = "expired" => gone
    /\ EndWith(failure)
    /\ UNCHANGED <<server, cursor, listed, task, pending, awaited, yielded, refresher>>

-----------------------------------------------------------------------------
\* stream
CanSubmit_Over == Submitted # listed /\ Cardinality(pending) <= Lookahead    \* bug
CanSubmit == Submitted # listed /\ Cardinality(pending) < Lookahead

Submit ==
    /\ main = "fill" /\ CanSubmit
    /\ LET next == Min(listed \ Submitted)
       IN  /\ task' = [task EXCEPT ![next] = "queued"]
           /\ pending' = pending \cup {next}
    /\ UNCHANGED <<server, main, cursor, listed, awaited, yielded, refresher, outcome>>

\* bug: whichever download is done first
NextAwaited_AnyDone(b) == b \in pending /\ task[b] \notin Active \cup {"queued"}

\* pending.pop(yielded)
NextAwaited(b) == b \in pending /\ \A c \in pending : b <= c

Await(b) ==
    /\ main = "fill" /\ ~CanSubmit
    /\ NextAwaited(b)
    /\ main' = "wait" /\ awaited' = b /\ pending' = pending \ {b}
    /\ UNCHANGED <<server, cursor, listed, task, yielded, refresher, outcome>>

Yield ==
    /\ main = "wait" /\ task[awaited] = "bundle"
    /\ main' = "given"
    /\ UNCHANGED <<server, cursor, listed, task, pending, awaited, yielded, refresher, outcome>>

Resume ==
    /\ main = "given" /\ main' = "fill"
    /\ yielded' = yielded \cup {awaited} /\ awaited' = NoBundle
    /\ UNCHANGED <<server, cursor, listed, task, pending, refresher, outcome>>

\* executor.shutdown(wait=True, cancel_futures=True), entered because a result
\* is a failure or because the consumer closes the stream
ShutDown(result) ==
    /\ main' = "cancelling" /\ outcome' = result
    /\ UNCHANGED <<server, cursor, listed, task, pending, awaited, yielded, refresher>>

Raise == main = "wait" /\ task[awaited] \in Failures /\ ShutDown(task[awaited])
Close == main = "given" /\ ShutDown("closed")

\* the consumer fails before it asks for the first Bundle: the generator has not
\* begun, so that there is no pool to shut down
Leave ==
    /\ main = "fill" /\ Submitted = {}
    /\ EndWith("closed")
    /\ UNCHANGED <<server, cursor, listed, task, pending, awaited, yielded, refresher>>

FirstQueued(b) == task[b] = "queued" /\ \A c \in Bundles : task[c] = "queued" => b <= c

\* the shutdown takes what is queued one by one, in a race with the threads
CancelNext(b) ==
    /\ main = "cancelling" /\ FirstQueued(b)
    /\ task' = [task EXCEPT ![b] = "cancelled"]
    /\ UNCHANGED <<server, main, cursor, listed, pending, awaited, yielded, refresher,
                   outcome>>

\* bug: cancel_futures is not given
NoneQueued_Unchecked == TRUE
NoneQueued == \A b \in Bundles : task[b] # "queued"

EndCancelling ==
    /\ main = "cancelling" /\ NoneQueued /\ main' = "closing"
    /\ UNCHANGED <<server, cursor, listed, task, pending, awaited, yielded, refresher, outcome>>

EndClosing ==
    /\ main = "closing" /\ Running = {} /\ main' = "ended"
    /\ UNCHANGED <<server, cursor, listed, task, pending, awaited, yielded, refresher, outcome>>

Complete ==
    /\ main = "fill" /\ yielded = listed
    /\ EndWith("complete")
    /\ UNCHANGED <<server, cursor, listed, task, pending, awaited, yielded, refresher>>

-----------------------------------------------------------------------------
\* the threads: a download ends with `result`
threads == <<server, main, cursor, listed, pending, awaited, yielded, outcome>>

\* the pool starts what was submitted first
Start(b) ==
    /\ FirstQueued(b)
    /\ Cardinality(Running) < Workers
    /\ task' = [task EXCEPT ![b] = "download"]
    /\ UNCHANGED <<threads, refresher>>

\* _download: a Bundle admitted, an invalid one (retryable), a 403 (the URL
\* has expired, the lock is next), another error; 410 only from a server that
\* no longer retains the hour
Download(b, result) ==
    /\ task[b] = "download"
    /\ result \in {"bundle", "locked"} \cup Failures
    /\ result = "expired" => gone
    /\ task' = [task EXCEPT ![b] = result]
    /\ UNCHANGED <<threads, refresher>>

EnterRefresh(b) ==
    /\ task[b] = "locked" /\ refresher = NoBundle
    /\ refresher' = b /\ task' = [task EXCEPT ![b] = "relist"]
    /\ UNCHANGED threads

\* bug: the lock is kept when the listing fails
LeaveRefresh_OnSuccess(b, result) == IF result = "again" THEN NoBundle ELSE b
LeaveRefresh(b, result) == NoBundle

\* the refresh lists the hour again (in one step here): it fails as a listing
\* can, is refused if the Bundles differ, or else gives a fresh URL
Relist(b, result) ==
    /\ task[b] = "relist"
    /\ \/ result = "again" /\ ~gone /\ stored = listed
       \/ result = "contract" \/ result = "retryable"
       \/ result = "expired" /\ gone
    /\ task' = [task EXCEPT ![b] = result]
    /\ refresher' = LeaveRefresh(b, result)
    /\ UNCHANGED threads

\* the second and last attempt: another 403 is a retryable failure
DownloadAgain(b, result) ==
    /\ task[b] = "again"
    /\ result \in {"bundle"} \cup Failures
    /\ result = "expired" => gone
    /\ task' = [task EXCEPT ![b] = result]
    /\ UNCHANGED <<threads, refresher>>

ThreadStep(b) ==
    \/ EnterRefresh(b)
    \/ \E result \in Tasks : Download(b, result) \/ Relist(b, result) \/ DownloadAgain(b, result)

\* what the main thread does on its own, and what its consumer makes it do
ListOrWait ==
    \/ \E items \in {After, FromCursor} : ListPage(items)
    \/ \E failure \in Failures : FailListing(failure)
    \/ Submit \/ (\E b \in Bundles : Await(b)) \/ Yield \/ Raise
    \/ (\E b \in Bundles : CancelNext(b)) \/ EndCancelling \/ EndClosing

MainStep == ListOrWait \/ Resume \/ Complete

ServerStep == (\E b \in Bundles : Arrive(b)) \/ Retire \/ PassRetention

PoolStep == \E b \in Bundles : Start(b) \/ ThreadStep(b)

Next == ServerStep \/ PoolStep \/ MainStep \/ Close \/ Leave

Spec == Init /\ [][Next]_vars

-----------------------------------------------------------------------------
\* Every variable has its type, and the refresh lock is held by the one thread
\* that lists the hour again.
TypeOK ==
    /\ stored \subseteq Bundles /\ early \subseteq Bundles
    /\ gone \in BOOLEAN /\ past \in BOOLEAN
    /\ main \in {"list", "fill", "wait", "given", "cancelling", "closing", "ended"}
    /\ cursor \in Bundles \cup {NoBundle} /\ listed \subseteq Bundles
    /\ task \in [Bundles -> Tasks] /\ pending \subseteq Bundles
    /\ awaited \in Bundles \cup {NoBundle} /\ yielded \subseteq Bundles
    /\ refresher \in Bundles \cup {NoBundle}
    /\ \A b \in Bundles : task[b] = "relist" <=> refresher = b
    /\ outcome \in {"none", "complete", "closed"} \cup Failures

\* A stream that ends well has given out every Bundle the hour had when its
\* listing began: no page boundary, late arrival, repeated item, expired URL or
\* failed download makes it end well with less.
HourWhole == outcome = "complete" => early \subseteq yielded

\* What the consumer is handed is a beginning of the index, in its order, though
\* threads finish in any order: the partition's bytes do not depend on them.
Given == yielded \cup (IF main = "given" THEN {awaited} ELSE {})
YieldedInOrder == \A b \in Given, c \in listed : c < b => c \in Given

\* No more than Lookahead downloads are under way, done and waiting, or in the
\* consumer's hands, so that a busy hour does not fill the memory.
RetainsAtMostLookahead ==
    Cardinality({ b \in listed : task[b] \in {"queued", "bundle"} \cup Active } \ yielded)
      <= Lookahead

\* docs/measurements.md: when a fatal failure is observed (or the consumer has
\* closed the stream), the queued downloads that have not started are cancelled.
\* The shutdown itself races with the threads; once it is done nothing starts.
NothingStartsAfterFailure ==
    [][(main \in {"closing", "ended"}) =>
         \A b \in Bundles : task[b] = "queued" => task'[b] # "download"]_vars

=============================================================================
