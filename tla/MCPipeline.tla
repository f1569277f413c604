----------------------------- MODULE MCPipeline -----------------------------
(***************************************************************************)
(* The pipeline for TLC, with a claim about the record a run leaves.      *)
(* The bounds are in the configurations.                                   *)
(***************************************************************************)
EXTENDS Pipeline

\* tests/test_driver.py: "def test_unexpected_failure_is_recorded_before_it_is_
\* reraised".  A run whose process reaches the end of finish has left its
\* outcome in the history, also when what failed it was the disk it reports on.
FailureRecorded ==
    [][pc = "finish" /\ pc' = "idle" /\ crashes' = crashes => history' = Outcome]_vars

=============================================================================
