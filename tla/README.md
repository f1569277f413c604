# Verification of the Bazaar++ Analyzer pipeline

TLA+ models of `bpp run`, TLC configurations that check them on small
instances, and TLAPS proofs of the properties that matter most for every value
of the constants. `PROJECT.json` lists the runs, mutants, theorems, findings
and hazards, and maps each definition to the source lines it models. Sources
are named below relative to `src/bppanalyzer/`.

## The system

A scheduled process collects run Bundles from a server hour by hour, turns each
Source Hour into an immutable Parquet partition, seals a UTC day when its 24
hours are there, aggregates the newest sealed days into two JSON products
(heroes and builds) and replaces the two public objects.

| Component | State it keeps | Operations | Talks to |
|---|---|---|---|
| Driver (`driver.py`) | nothing durable; a run's progress | `run`, `_heal`, `_publish_products` | everything below |
| Source calendar (`hour_intake.py`, window selection in `publication.py`) | none | `healing_days`, `is_hour_settled`, `settled_missing_hours`, `select_analysis_window` | driver |
| Hour intake (`hour_intake.py`) | none | `commit` | Bundle source, projection, fact store |
| Fact store (`fact_store.py`) | hour directories, day seals, abandonment records | `commit_hour`, `seal_day`, `abandon_day`, `prune`, the readers | disk, lock (ownership check before each write) |
| Run lock (`locking.py`) | `.lock/heartbeat`, `.lock.takeover`, `.lock.stale-<run>`, a heartbeat thread | `acquire`, `assert_owned`, `touch`, `release` | disk; other processes |
| Bundle source (`bundle_source.py`) | counters, 64 download threads | `hour_index` (paged listing), `stream` (bounded, ordered), retries, URL refresh | Bundle Server |
| Projection (`projection.py`) | none | one Bundle to rows of five tables | hour intake |
| Run admission (`accepted_runs.py`) | none | `admit_run`, and the same rule as SQL | projection, snapshot building |
| Snapshot building (`publication.py`) | one DuckDB connection per product | `build_heroes`, `build_builds`, `select_build_identities` | fact store |
| Latest publisher, object stores (`publication.py`, `object_store.py`) | the public objects | `replace`; `stat`, `get`, `put` | R2, or two local files per object |
| Operational evidence (`operational_evidence.py`) | `status.json`, `runs.jsonl`, logs | `checkpoint`, `finish`, log pruning | driver, fact store |
| Configuration, command line (`config.py`, `cli.py`) | none | parse and validate settings | driver |

What is hard here:

- **Time.** The driver captures the clock once and plans with it; hours are
  listed, expire on the server and pass midnight while it works.
- **Long protocols across runs.** A day is ingested by several runs, then
  sealed or abandoned, shown, and pruned. Each run sees only what is on disk.
- **Crashes.** Between any two file operations; a half-done `rmtree` and a
  half-done prune stay for the next run.
- **Partial failure.** An hour, a day's seal or one product may fail and the
  run goes on. Retention waits for both products in one run.
- **Two processes.** The lock is a directory and a modification time; every
  check-then-act on paths is a race, and a run that was overtaken goes on until
  its next ownership check.
- **Generators inside generators.** Source, projection and store of an hour run
  in turns; a failure of either side must end the other and its threads.
- **References.** Consumers decode a payload of zero-based indices; a mistake
  in one still is valid JSON.

What makes each component correct: facts are immutable and complete, seals
never lie, a day has one fate, public windows can be rebuilt, a run recorded as
`ok` did everything (driver and store); one live owner at a time, writes behind
a check stay fenced, nobody waits for ever (lock); no card is lost and nothing
superfluous is appended (build selection); each Bundle of an hour once, in
index order, in bounded memory (Bundle source); each of its rows once in the
partition (intake); the public object never goes back (publisher); history and
status agree (evidence); a full board counts, anything else does not, and every
reference leads back to one (snapshot building).

## Modules

- `SourceCalendar` -- the date arithmetic as operators. An instant is a UTC
  day and a half-hour in it; an hour is two half-hours, and the settle lag
  (60 s) is one half-hour, so that the clock can stand between an hour's end
  and its settling.
- `FactStore` -- `hours`, `seals`, `abandoned` are the directories and files
  under `facts/`; one operator per store operation, each with what it refuses
  (`...Raises`). Contents are values; `Growing` is an hour listed before its
  uploads had all arrived, `Torn` an hour that `rmtree` has begun to delete.
- `SharedFacts` extends it to runs that overlap on one Source Day, step by step
  in `commit_hour` and `seal_day`: the stages of other runs that a commit
  removes (`OpenStale`, `TearStale`, `SweepStale`: an `rmtree` deletes in the
  directory it has opened, also after that has become a partition), the staged
  directory, `Compare` and `Rename`, the reading and the link of the seal.
  Listings may differ from run to run. This is where a commit meets an hour
  that is there already; one run at a time plans only absent hours, so that in
  `Pipeline` it never does.
- `Pipeline` -- a run as a process with a `pc`: `plan`, the day and hour loops
  of `heal`, `select`, `build` and `publish` for the two products, the two
  loops of the prune, `finish`. `Tick` moves the clock at any point, `Abort` is
  an exception nothing isolates, `Crash` the loss of the process. What a run
  remembers is reset when it ends; disk, public objects and history stay. The
  server may call any planned hour expired (`ExpireHour`), whatever its age:
  the code takes every 410 for an answer. A seal may fail before or after its
  link (`FailSeal`).
- `SourceDayLedger` -- the abstract specification: each day is open, sealed,
  abandoned or retired; a product shows a window of consecutive sealed days
  that ends at the newest and never moves backwards; only an unshown oldest
  day is retired. `Pipeline!ImplementsLedger` is the refinement, with
  `fate[d]` computed from seals, abandonments and the auxiliary `retired`, and
  `shown` the public objects.
- `DirectoryLock` -- the lock system call by system call for several runs,
  each with a main and a heartbeat thread. `.lock` is a record of existence,
  owner, whether the run id is written yet, and age; `leftover` are the
  `.lock.stale-<run>` directories with a file in them, onto which a rename
  fails. The heartbeat's write may fail after its file is made
  (`FailHeartbeat`). `Tick` ages everything and is held back only by `MaxPause` when pauses are bounded. `OneWaits` says that
  runs wait for a lock one at a time, the condition its properties need.
- `BuildSelection` -- `select_build_identities`: candidates are positions in
  the ranking, the loop over uncovered cards is the next-state relation.
- `Sorting` -- Python's `sorted` and SQL's `ORDER BY` over numbers, stated by
  rank: the k-th value has fewer than k values below it and k up to it. The
  library's `SortSeq` is defined by TLC and has no definition to prove with.
- `BuildsSnapshot` extends it to the builds product of one hero. `facts` are
  the completed accepted runs with the hands recorded in their final battles;
  `Eligible` is the query over them, with a bit mask as the set of its bits.
  What a query groups is a family, a function from (hand, place) to rows, and
  not a sequence, for the query gives it no order: build keys, days and tables
  are sorted families, an order is a rank. `Inputs` are the facts considered.
  `SnapshotInit` groups, ranks (in any order: the Wilson score is left out) and
  starts the selection; `Emit` makes the payload and validates it. The rows of
  one signature and of one card set come from the projection.
- `BundleSource` -- one Source Hour fetched: the main thread lists page by page
  and then submits, waits, yields; each download is a state (`queued`,
  `download`, waiting for the refresh lock, listing again, a result). The
  server's late arrivals and the loss of the hour are actions. The shutdown of
  the pool takes queued downloads one at a time (`CancelNext`), in a race with
  the threads, then waits for what runs; a consumer that fails before it asks
  for the first Bundle leaves no pool behind (`Leave`). A Bundle is its
  position in the keyset order; a request stands for itself with its retries;
  the listing of a URL refresh is one step, while the first goes page by page.
- `HourIntake` extends it with the projection and the staging of
  `commit_hour`. `Consume` takes the Bundle in hand, turns it into rows, moves
  full batches into the stage and resumes the source; `EndProjection` flushes,
  `Promote` commits. A failure on the consumer's side leaves the stream
  suspended, as a generator is, until `CloseStream`; one before the stream has
  begun is `FailBeforeStream`. Of a Bundle's payload the
  model keeps whether it is an admitted run, how many battles it has, and
  whether a number in it fits its column.
- `ObjectStore` -- one object as its readers see it: what body is stored and
  what body the metadata describes.
- `FencedRuns` -- runs that overlap, step by step where they write outside the
  facts: the live status (read, then replace), the local snapshot, the public
  object (`stat`, `put` or its two files, confirm), the final status, the line
  of the history, release. A run may be lost at any step, or outlive
  `max_run_seconds`, after which its heartbeat stops and another run takes over
  while it goes on.
- `MCPipeline`, `MCPipelineDaily`, `MCDirectoryLock`, `MCBuildsSnapshot` --
  instances for TLC: a claim about the record, a daily schedule, the states
  crashed runs leave behind, and the families of facts.
- `IntegerSetProofs` -- lemmas the others use on finite sets of integers, on
  sorting by rank and on sums; `PipelineProofs`, `RetentionProofs`,
  `PublicationProofs` -- the pipeline, each extending the one before;
  `DirectoryLockProofs`, `IntakeProofs`, `FencedRunsProofs`,
  `BuildsSnapshotProofs` -- the theorems on the module of that name, those of
  `IntakeProofs` on `HourIntake` with its source and those of
  `BuildsSnapshotProofs` on the selection as well.

The pipeline is checked with one run at a time: mutual exclusion is the lock's
affair and is checked there. Its `Crash` followed by `StartRun` is what a stale
takeover looks like from the pipeline. Overlapping runs are `FencedRuns`, where
a check and the short write after it are one step: `DirectoryLock!FencedStores`
is what makes that sound for a live holder, whose takeover needs a heartbeat
that was missed for `stale_after` (300 s), ten times its interval. Only a run
that is lost or past its time is taken over there, for only its heartbeat
stops. The one write without a check, the put of the public object, is kept
apart from the check before it. In `SharedFacts` every check is apart from its
write, and a run may be taken over between the two.

## Runs

| Run | Question | Bounds |
|---|---|---|
| `hour_intake` | from the listing to the committed partition: completeness, order, bounds, batches, end | 3 Bundles, pages of 1, lookahead 2, 2 threads, batches of 2 rows, runs of 0 or 3 battles |
| `pipeline_hours` | early commits, fates, immutability | 4 days of 2 hours, window 1, retention 2, healing 3; server forgets after 1 day; anchored runs and `--no-publish` |
| `pipeline_days` | seals, torn hours, public windows, `ok` runs, catching up, refinement of `SourceDayLedger` | 5 days of 1 hour, window 2, retention 3, healing 4 = retention + 1; one crash |
| `pipeline_liveness` | every settled day gets its fate | 3 days, fair |
| `dropped_day` | a claim of the architecture document (violated) | 4 days, healing = server retention, a run completed each day |
| `failure_unrecorded` | a failed run leaves a record (violated) | 4 days, retention 2, healing 4 |
| `lock_turns` | fencing, release, takeover | 3 runs, explored while they wait one at a time (the state constraint `OneWaits`, the theorems' hypothesis), staleness 3, heartbeat 1, pauses of at most 1, symmetric in the runs |
| `lock_left_behind` | `acquire` ends | 2 contenders and what a third left |
| `lock_race` | one winner (violated) | 2 contenders for a stale lock |
| `builds_snapshot` | which boards count; no card lost, nothing superfluous; payload valid and decodable | board of 3 slots, 3 templates, core of 1: one run with every odd hand of up to 2 cards, 2 runs of few builds, 5 runs of one build, 4 builds over 3 cards in every order |
| `shared_facts` | what overlapping runs can do to the partitions and the seal of a day | 3 runs, one lost, two past their time; one hour, two contents |
| `fenced_runs` | what overtaken runs can still do to status, history, snapshots | 3 runs, one lost, one past its time, both stores |

Why these bounds are enough: five days let a window slide past a gap, a seal
retire and a prune be interrupted and resumed; with a retention of three and a
window of two both boundaries are one day away from a violation, which the
mutants (`RetentionCutoff_OneFewer`, `PruneApplies_More`, ...) confirm. Two
hours a day are needed only where a day can be partly ingested. A run lasts at
most `MaxRunTicks` half-hours, enough to cross a settling or midnight. One
crash can interrupt any step, and what it leaves is met by every later run.
For the lock, staleness must exceed heartbeat interval plus pauses, as 300 s
and 30 s do; three runs let a contender meet a live holder, a dead one, and one
that is out of time and still at work beside the run that took over from it,
and a holder that finishes late meet the lock of another. The selection needs a
candidate that covers several cards and one made superfluous by it, the nearest
rank four known days of one build, the board an item in its middle.
A second hour adds nothing to `shared_facts` but another place for the same
races; two late runs and a third are needed for a partition that is torn while
it is sealed.
Three Bundles with a lookahead and a pool of two
leave one to be submitted while one is with the consumer and one runs, and let
two threads contend for the refresh lock; pages of one make every Bundle a page
boundary; batches of two with runs of three battles make batches end inside a
Bundle and between two. Of three overlapping runs the first can be lost or
late, the second be overtaken in turn or finish, and the third read what both
left.

Deadlock checking is off for the lock, the overlapping runs (also those over
facts), the builds and the hour intake, which end. The pipeline always has a clock tick or a run to start
until the last day's end, where runs go on for ever.

**Fairness.** `FairSpec` of the pipeline: runs are started again and again (the
scheduler), a run takes its next step (weak fairness), and planning, each
hour's ingestion, each seal and each abandonment go through if offered for ever
(strong fairness: the server and the disk do not fail for ever). Nothing forces
the clock. The lock: time passes and a thread takes its next step unless its
process crashed or the main thread is at work, which no property needs to end.
The hour intake: the main thread, which is source, projection and store in
turns, and each download thread take their next step (weak fairness): requests
have timeouts and a bounded number of retries, threads run, and a stream whose
consumer has failed is closed when the exception that holds it is dropped.

## Findings

- `lock_race`: `acquire` re-checks staleness under the takeover guard but a
  contender making a fresh `.lock` needs no guard; an absent `.lock` counts as
  infinitely old, and the rename takes the fresh one. Both contenders win until
  the loser's next ownership check. `test_stale_lock_race_has_exactly_one_winner`
  states the contrary.
- `dropped_day`: with healing days equal to server retention days, both 8 by
  default, a day leaves the healing window before any hour of it is past
  retention, so `docs/architecture.md`'s "recorded as abandoned" never happens.
- `failure_unrecorded`: a prune that fails half way in an hour (an `OSError`
  from `rmtree`) leaves a torn hour. If the healing window still considers its
  day, which takes `--heal-days` above `fact_retention_days` + 1, the status
  that `finish` builds for the failed run raises on that hour: the run ends
  without `status.json` or `runs.jsonl` saying so, and every later run that
  plans the day as well. `test_unexpected_failure_is_recorded_before_it_is_reraised`
  states the contrary.

## Proofs

Every invariant and every action property of a passing run, but for those of
`shared_facts`, is a theorem of its specification. Every proof is for arbitrary
constants that satisfy the assumptions named in the modules:
`CalendarAssumption`, `RetentionAssumption`,
`StoreAssumption`, `PipelineAssumption`, `LockAssumption`, `SourceAssumption`,
`IntakeAssumption`, `RunsAssumption`, `SelectionAssumption`,
`SnapshotAssumption`, `InputsAssumption` (the columns have their types). A
theorem that needs more says so in its statement:

| Theorem | Property | Needs |
|---|---|---|
| `PipelineProofs!TypeCorrect` | `TypeOK` | |
| `SealsAlwaysBacked` | `SealsBackedByFacts` | |
| `NothingCommittedEarly` | `NoEarlyCommit` | |
| `FactsImmutable` | `CommittedFactsImmutable` | |
| `RetentionCutoffKeeps` | the cutoff exists and keeps exactly `RetainDays` days | |
| `HealingNeverMeetsPrune` | `HealingWindowReadable` | `HealDays <= RetainDays + 1` |
| `FatesAreFinal` | `FatesExclusive` | `HealDays <= RetainDays + 1` |
| `PrunesCatchUp` | `PruneCatchesUp` | |
| `PublicAlwaysBacked` | `PublicBackedByFacts` | no anchored runs |
| `OkIsComplete` | `OkRunIsComplete` | `HealDays <= RetainDays + 1` |
| `PipelineImplementsLedger` | `ImplementsLedger` | both |
| `DirectoryLockProofs!TypeCorrect` | `TypeOK` | |
| `WritesFenced` | `FencedStores` | `[]OneWaits`, pauses covered |
| `ReleaseIsOwn` | `ReleasesOwnLock` | `[]OneWaits`, pauses covered |
| `TakeoverOnlyOfDead` | `OnlyDeadTakenOver` | `[]OneWaits`, pauses covered |
| `TwoRunsTakeTurns` | `[]OneWaits` | two runs |
| `StreamIsWhole` | `HourWhole` | |
| `StreamInOrder` | `YieldedInOrder` | |
| `BoundedLookahead` | `RetainsAtMostLookahead` | |
| `NoLateStart` | `NothingStartsAfterFailure` | |
| `IntakeTypeCorrect` | `IntakeTypeOK` | |
| `BatchesAlwaysFull` | every batch but the last of a table is full (`BatchesFull`) | |
| `CommittedAlwaysFits` | `CommittedFits` | |
| `CommittedAlwaysWhole` | `CommittedIsWhole` | |
| `FencedRunsProofs!TypeCorrect` | `TypeOK` | |
| `HistoryInOrder` | `HistoryFollowsStatus` | |
| `RecordedIsOver` | `RecordedNotCurrent` | |
| `SavedBeforePublic` | `LocalNotBehindPublic` | |
| `PublishedIsPublic` | `PublishedStaysPublic` | |
| `UnreadableOnlyByDisturbance` | `BrokenOnlyByDisturbance` | |
| `NoCardLost` | `EveryCardCovered` | |
| `AppendedAreNeeded` | `AppendedEarnsItsPlace` | |
| `SnapshotSelects` | building a snapshot implements `BuildSelection` | |
| `SnapshotLosesNoCard` | `EveryCardCovered`, `AppendedEarnsItsPlace` | |
| `FullBoardsCount` | `EligibleIsTiling` | |
| `BuilderAgrees` | `SnapshotValid` | |
| `CardsAreFound` | `EveryCardFindable` | |
| `DecodedWasPlayed` | `DecodesToPlayedBoard` | |
| `P75IsRight` | `P75IsNearestRank` | |

The code's defaults meet `HealDays <= RetainDays + 1`; `failure_unrecorded` is
what happens without it. An anchored publishing run does move the public window
back (see Limits). "Pauses covered" is `StaleAfter >= Interval + 2 * MaxPause`
with bounded pauses. `[]OneWaits` is that at no time a run waits for a lock it
has seen while another run is acquiring one; there may be any number of runs
before, inside and after. A scheduler that starts runs far apart meets it, two
runs cannot but meet it (`TwoRunsTakeTurns`), and `lock_race` is what happens
without it. Each run of the model acquires once, as `run` does.

The arguments:

- **Seals.** The inductive invariant adds to the properties why they are
  preserved: what is planned was settled when the run captured the clock and
  the clock only moves forward, so a listing taken now is complete; and while
  the hours loop of the prune runs, no sealed day lies below the cutoff.
- **Fates.** The invariant measures distance: a torn hour, an expired hour or a
  retired day lies below at least `RetainDays` sealed days, each at most today,
  so it is more than `HealDays` - 1 days old. The counting rests on
  `IntegerSetProofs`: in a finite set of integers every rank is taken.
- **Public windows.** A window has at most `AnalysisDays` days, fewer than the
  `RetainDays` that a prune keeps, and without anchors both end at the newest
  seal of their instant. Retention runs only after both products were published
  in the same run, so that the cutoff is behind both windows, and a later
  window is never behind an earlier one.
- **Catching up.** Everything a prune that was cut short left torn lies below
  `RetainDays` seals; a prune that applies has its cutoff above all of it, and
  its loops end only when nothing is left below.
- **`ok`.** While a run heals, every settled day it has passed is sealed or
  abandoned, or the run has recorded a failure; a prune of the same run stays
  below the days it has healed; a publication that failed is recorded too.
- **The ledger.** `LedgerInitial`, and for each action a step of the ledger or
  a stutter: sealing and abandoning decide an open day (`DecideStep`), removing
  a seal retires the oldest day, which no window shows (`RetireStep`), and
  publishing moves a window forward (`ShowStep`).
- **The lock.** Whatever the runs do, a lock is never stale while a run that
  has time left is at its own lock, or has just made or emptied one
  (`NeverStale`): its age is bounded by the time since the heartbeat thread's
  last step, or since the step before that while the touch is under way
  (`Fresh`), and everything others do to a lock makes it younger. So a lock that
  is found stale twice, under the guard, is nobody's who is alive and has time
  left; and as no other run is at its `mkdir`, none will be until the rename
  (`Doomed`). That proves `TakeoverOnlyOfDead`. Fencing and release need that
  no run is out of time: then nobody inside meets a foreign lock (`Calm`).
- **The stream.** The listing is complete below its cursor for the Bundles that
  were there when it began. What was submitted is a beginning of the listing and
  splits into what the consumer is done with, the Bundle in hand and what is
  pending, in this order, of which the last two never exceed the lookahead. The
  theorems are about `IntakeSpec`, in which the consumer may stop at any Bundle;
  `IntakeIsSource` shows that it is a use of the source as `BundleSource` has it.
- **The intake.** Division by the batch size: what was in the buffer and what is
  added make full batches and a remainder smaller than one (`FullBatchesAre`,
  `RestIs`), also at the flush. A row that does not fit stays in the buffer
  until a conversion meets it, which fails the hour.
- **Nothing lost in the batches.** For each table the stage, flattened, followed
  by the buffer is the rows of the Bundles the projection is done with, in the
  order of the index (`WholeInv`). The next Bundle is behind all of those, so
  that the ordered list grows at its end (`AscendingGrows`), and full batches
  and rest are the buffer and the new rows again. Flattening is a recursive
  function of the library; that it distributes over concatenation is shown by
  running totals (`Accumulates`) and a least counterexample instead of an
  induction theorem, which the provers cannot instantiate.
- **Overlapping runs.** The lock goes to runs in the order of their numbers and
  never back, so its owner is the newest and alone in writing what is checked.
  What it remembers of the status between a read and a write is therefore still
  so when it writes, and what it built is at least as new as what any run saved,
  since it built after the last of them lost the lock.
- **Selection.** `covered` is exactly the cards of the selected builds, and an
  uncovered card is still to be looked at; the selected builds have different
  numbers from 1 to how many they are, so that the emitted list is all of them.
- **Full boards.** The sum of the sizes is the number of (item, slot) squares
  (`TotalIsSquares`, on `SumIsAdditive`). As many squares as slots, and every
  slot covered, leave each slot one item (`FullIsTiled`), and the other way.
- **The payload.** Its tables are ascending, so that position and value
  determine each other, and a reference minus its base decodes to what it was
  made of (`CardsMean`, `EnchantmentsMean`, `IndexOfEntry`). A tiled board has
  one item a slot, so that its layout lists its items, and its build key is what
  any sort of their templates gives (`LayoutMeans`, `KeyOfRun`). Sorting by rank
  has as many values below and up to any number as its family has
  (`SortedByCounts`), which is what a nearest rank speaks of (`P75Means`).

Only model-checked: the properties of `SharedFacts`, and liveness:
`SettledDayDecided`, `AcquireEnds` and `IntakeEnds`. Temporal properties under
fairness rest on ENABLED, which is beyond the proof system.

## Limits

- `PublicBackedByFacts` and the ledger are checked for runs without
  `--anchor-day`. An anchored publishing run moves the public window back, and
  its prune may remove days of that window.
- `FencedStores` and `ReleasesOwnLock` rest on bounded pauses: a holder
  suspended between its check and its write for longer than `stale_after` does
  write after a takeover. They also exempt a run that is out of time.
- `PublishedStaysPublic` and `BrokenOnlyByDisturbance` except what a put does
  that was cut short between the two files of the local adapter, or that went
  on after its run had lost the lock. Such a put does replace newer content:
  `LatestPublisher.replace` makes no ownership check, although
  `docs/architecture.md` says the lock "fences stale owners before durable
  writes". A local object broken this way stays broken, since `replace` begins
  with a `stat` that raises on it.
- A run's content is compared by age, to the second: two runs in the same
  second over the same facts build the same bytes.
- A line of the history torn by a full disk makes the record glued to it
  unreadable, and no other: that record ends with a newline (`Appended`). A line
  that lacks only its newline counts as torn. `HistoryFollowsStatus` is about
  the lines that can be read.
- `PartitionsFinal` lets a partition lose files to a run that was taken over
  after an ownership check and still promotes its stage, or still removes the
  stage of another. It needs a pause of more than `stale_after` between a check
  and its write. Nothing repairs such a partition: each plan of its day raises.
- `SharedFacts` leaves out abandonment, pruning and the expiry of hours; how
  those follow one another is `Pipeline`'s, with one run at a time.
- A query of the builds product fails when an item of a final board has a
  negative or very large size or slot: `<<` raises before the checks beside it
  leave the run out. The model has this outcome (`query_failed`), after the
  documented behaviour of DuckDB's shift; no property covers it.
- Builds that the backfill appends come in the order of the cards they cover
  (`IsNextCard`, `AppendBest`), while the consumer contract says that they
  "retain the same ranking order".
- Left out of the pipeline: corrupt files other than torn directories, power
  loss between a rename and its directory's fsync, `--dry-run` (returns before
  any state), progress, timings, reports and logs.

## Not modelled

- Parsing of a payload field by field and MessagePack (`projection.py`): a
  Bundle is an admitted run, a discarded one or one that does not fit.
- `battle_cards` and `quality` rows, which fill buffers as `battles` do.
- Run admission (`accepted_runs.py`): normalising strings.
- `build_heroes` and `fact_stats`: sums of counts in SQL; the Wilson score.
- V5 envelopes, digests, Parquet and its schemas, JSON texts, key syntax.
- Log files and their pruning; `status` and `verify`, which only read;
  environment parsing and command-line output.

## Plan

What is left:

1. A run of its own for the put of an overtaken run, and the pipeline's publish
   step as an abstraction of the publisher.
2. The lock for runs that do contend: which of two winners notices, and when.
   `lock_race` shows the race; what bounds its damage is not stated yet.
3. Theorems on `SharedFacts`, whose invariant would say that a run finds the
   stages of all it has taken over before it compares.
