----------------------------- MODULE HourIntake ------------------------------
(***************************************************************************)
(* One Source Hour from its listing to its committed partition             *)
(* (SourceHourIntake.commit): the Bundle source gives out one Bundle at a  *)
(* time, the projection turns it into rows and yields a batch whenever a   *)
(* table's buffer is full, the fact store writes each batch into a stage   *)
(* and, when the stream has ended well, promotes the stage.                *)
(*                                                                         *)
(* The three are generators inside one another: the source resumes only    *)
(* when the projection asks for the next Bundle, and a failure on either   *)
(* side ends the other.  Of the five tables three are kept: battle_cards   *)
(* and quality are filled as battles is, with rows of a run only.          *)
(***************************************************************************)
EXTENDS BundleSource, SequencesExt, Sorting

CONSTANTS
    RowBatchSize,   \* ROW_BATCH_SIZE
    BattleCounts    \* the numbers of battles of a run

ASSUME IntakeAssumption ==
    RowBatchSize \in Nat \ {0} /\ BattleCounts \subseteq Nat

VARIABLES
    intake,     \* commit_hour: open, committed or failed
    payload,    \* per Bundle what its projection found in it
    buffer,     \* per table the rows not yet in a batch
    staged      \* per table the batches written into the stage

intakeState == <<intake, payload, buffer, staged>>
allVars == <<vars, intakeState>>

Tables == {"runs", "battles", "quarantine"}
Empty == [t \in Tables |-> <<>>]

\* an admitted run with its battles; a run not admitted or a payload that does
\* not decode; an admitted run with a number no column can hold, which only
\* the conversion of its batch finds out
Payloads == [kind : {"run"}, battles : BattleCounts]
              \cup [kind : {"discarded", "unfit"}, battles : {0}]
Unread == [kind |-> "unread", battles |-> 0]

IntakeInit ==
    /\ Init
    /\ intake = "open" /\ payload = [b \in Bundles |-> Unread]
    /\ buffer = Empty /\ staged = Empty

-----------------------------------------------------------------------------
\* the rows of Bundle b: row 0 accounts for the Bundle
RowsOf(b, p) ==
    [t \in Tables |->
       CASE t = "runs"       -> IF p.kind = "discarded" THEN <<>> ELSE << <<b, 0>> >>
         [] t = "quarantine" -> IF p.kind = "discarded" THEN << <<b, 0>> >> ELSE <<>>
         [] t = "battles"    -> [i \in 1 .. p.battles |-> <<b, i>>]]

\* the full batches at the beginning of `rows`, and the rows after them
FullBatches(rows) ==
    [i \in 1 .. Len(rows) \div RowBatchSize |->
       SubSeq(rows, (i - 1) * RowBatchSize + 1, i * RowBatchSize)]
Rest(rows) == SubSeq(rows, RowBatchSize * (Len(rows) \div RowBatchSize) + 1, Len(rows))

\* bug: the conversion wraps a number around instead of raising
Converts_Wraps(rows, payloads) == TRUE

\* RecordBatch.from_pylist raises on a row that does not fit its column
Converts(rows, payloads) == \A row \in Range(rows) : payloads[row[1]].kind # "unfit"

\* the stage is removed, whatever ended commit_hour
FailIntake ==
    /\ intake' = "failed"
    /\ buffer' = Empty /\ staged' = Empty
    /\ UNCHANGED payload

\* the stream must give out the index's items, in its order
MatchesIndex(b) == b \in listed /\ \A c \in listed : c < b => c \in yielded

\* the projection takes the Bundle in hand and asks for the next one; full
\* batches are written on the way
Consume(p) ==
    /\ intake = "open" /\ main = "given"
    /\ LET payloads == [payload EXCEPT ![awaited] = p]
           rows == [t \in Tables |-> buffer[t] \o RowsOf(awaited, p)[t]]
       IN  IF /\ MatchesIndex(awaited)
              /\ \A t \in Tables : \A batch \in Range(FullBatches(rows[t])) :
                   Converts(batch, payloads)
             THEN /\ Resume
                  /\ payload' = payloads
                  /\ staged' = [t \in Tables |-> staged[t] \o FullBatches(rows[t])]
                  /\ buffer' = [t \in Tables |-> Rest(rows[t])]
                  /\ UNCHANGED intake
             ELSE FailIntake /\ UNCHANGED vars

\* bug: the rows that fill no batch are forgotten
LastBatch_None(rows) == <<>>
LastBatch(rows) == IF rows = <<>> THEN <<>> ELSE <<rows>>

\* the stream has ended and every Bundle is accounted for: the rests are written
EndProjection ==
    /\ intake = "open" /\ Complete
    /\ IF /\ yielded = listed
          /\ \A t \in Tables : Converts(buffer[t], payload)
         THEN /\ staged' = [t \in Tables |-> staged[t] \o LastBatch(buffer[t])]
              /\ buffer' = Empty
              /\ UNCHANGED <<intake, payload>>
         ELSE FailIntake

StageIsWhole == main = "ended" /\ outcome = "complete"

\* _commit.json, the last ownership check, and the rename
Promote ==
    /\ intake = "open" /\ StageIsWhole
    /\ intake' = "committed"
    /\ UNCHANGED <<vars, payload, buffer, staged>>

\* a checkpoint, an ownership check or a write raises while the stream waits
\* for its consumer, or after it has ended
FailWriting ==
    /\ intake = "open" /\ (main = "given" \/ StageIsWhole)
    /\ FailIntake
    /\ UNCHANGED vars

\* on_indexed, a check at the beginning of commit_hour or the first write raises
\* before the stream has begun
FailBeforeStream ==
    /\ intake = "open" /\ Leave
    /\ FailIntake

\* the stream is left suspended by a failure of its consumer, and closed when
\* the exception that holds its frames is dropped
CloseStream == intake = "failed" /\ Close /\ UNCHANGED intakeState

\* the source on its own; an exception of its own ends the intake
SourceStep(step) ==
    /\ step
    /\ IF main # "ended" /\ main' = "ended" /\ intake = "open"
         THEN FailIntake ELSE UNCHANGED intakeState

IntakeMainStep ==
    \/ SourceStep(ListOrWait)
    \/ \E p \in Payloads : Consume(p)
    \/ EndProjection \/ Promote \/ FailBeforeStream \/ FailWriting \/ CloseStream

IntakeNext ==
    \/ IntakeMainStep
    \/ SourceStep(ServerStep) \/ SourceStep(PoolStep)

\* every request is answered or fails, every thread runs, the consumer asks for
\* the next Bundle or fails, and a suspended stream is closed at last
IntakeFairness ==
    /\ WF_allVars(IntakeMainStep)
    /\ \A b \in Bundles :
         WF_allVars(SourceStep(Start(b))) /\ WF_allVars(SourceStep(ThreadStep(b)))

IntakeSpec == IntakeInit /\ [][IntakeNext]_allVars /\ IntakeFairness

-----------------------------------------------------------------------------
\* Every variable of the source and of the intake has its type.
IntakeTypeOK ==
    /\ TypeOK
    /\ intake \in {"open", "committed", "failed"}
    /\ payload \in [Bundles -> Payloads \cup {Unread}]
    /\ \A t \in Tables :
         /\ buffer[t] \in Seq(Bundles \X Nat)
         /\ staged[t] \in Seq(Seq(Bundles \X Nat))

\* A committed partition holds, table by table, exactly the rows of the hour's
\* Bundles in the order of the index, whichever threads fetched them in
\* whichever order: no row is lost or repeated between a buffer, its batch and
\* the last flush, and the Bundles accounted for are those of the listing.
CommittedIsWhole ==
    intake = "committed" =>
      LET items == Ascending(listed)
          rows(t) == FlattenSeq([i \in 1 .. Len(items) |-> RowsOf(items[i], payload[items[i]])[t]])
          written(t) == FlattenSeq(staged[t])
      IN  /\ early \subseteq listed
          /\ \A t \in Tables : written(t) = rows(t)
          /\ Len(written("runs")) + Len(written("quarantine")) = Len(items)

\* Memory and file layout: no buffer ever holds a whole batch, every batch is
\* full but the last of its table, and none is empty, so that the same hour
\* gives the same row groups and hence the same bytes whenever it is ingested.
BatchesFull ==
    \A t \in Tables :
      /\ Len(buffer[t]) < RowBatchSize
      /\ \A i \in DOMAIN staged[t] :
           /\ Len(staged[t][i]) \in 1 .. RowBatchSize
           /\ i < Len(staged[t]) \/ ~StageIsWhole => Len(staged[t][i]) = RowBatchSize

\* A number that fits no column never reaches a committed partition: its hour
\* fails, however many batches were already written before it was met.
CommittedFits == intake = "committed" => \A b \in listed : payload[b].kind # "unfit"

\* An intake ends, and with it its pool of threads, also when the failure was
\* its consumer's and left the stream suspended.
IntakeEnds == <>(intake # "open" /\ main = "ended" /\ Running = {})

=============================================================================
