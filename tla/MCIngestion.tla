---------------------------- MODULE MCIngestion -----------------------------
(* Two runs, the first of which may be run twice: two jobs of it fail in    *)
(* the first attempt and one in the second, and the job of the other run    *)
(* passes -- that run can fail without a failed job.                        *)
EXTENDS Ingestion

TwoRuns == <<1, 2>>

RunOfJob == <<1, 1, 1, 2>>

AttemptOfJob == <<1, 1, 2, 1>>

Failing == {1, 2, 3}

=============================================================================
