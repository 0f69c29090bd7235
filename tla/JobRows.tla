------------------------------- MODULE JobRows -------------------------------
(***************************************************************************)
(* The rows of analysis_jobs and the updates the job repositories apply to *)
(* them (inmemory/job_repository.go, postgres/job_repository.go with       *)
(* query/analysis_jobs.sql).  Every update addresses the row by its id and *)
(* none looks at the status the row has: what the callers read before is   *)
(* all that orders them.  The request and the timestamps are left out.     *)
(***************************************************************************)
EXTENDS Naturals

CONSTANT Store     \* "postgres" or "memory": the repository in use

ASSUME StoreAssumption == Store \in {"postgres", "memory"}

-----------------------------------------------------------------------------
JobStatus == {"pending", "running", "completed", "failed", "canceled"}

JobPhase == {"queued", "collecting_signals", "normalizing", "calling_llm",
             "persisting", "done"}

\* The statuses CancelJob returns as they are.
TerminalStatus == {"completed", "failed", "canceled"}

\* A row that was never inserted has the status "absent".
Row == [status   : JobStatus \cup {"absent"},
        phase    : JobPhase,
        progress : 0..100,     \* progress_percent
        attempt  : Nat,
        analysis : BOOLEAN,    \* analysis_id is set
        failure  : BOOLEAN]    \* error_message is not empty

\* The row SubmitAnalysis inserts.
PendingRow == [status |-> "pending", phase |-> "queued", progress |-> 0,
               attempt |-> 0, analysis |-> FALSE, failure |-> FALSE]

AbsentRow == [PendingRow EXCEPT !.status = "absent"]

\* The percentage executeAnalyze reports with each phase.
ProgressOf(phase) ==
    CASE phase = "queued"             -> 0
      [] phase = "collecting_signals" -> 10
      [] phase = "normalizing"        -> 35
      [] phase = "calling_llm"        -> 55
      [] phase = "persisting"         -> 85
      [] phase = "done"               -> 100

-----------------------------------------------------------------------------
\* Variant: the attempt is not counted.
MarkRunningSameAttempt(row) ==
    [row EXCEPT !.status = "running", !.phase = "collecting_signals",
                !.progress = IF Store = "postgres" THEN 0 ELSE @]

\* The in-memory repository keeps the percentage of the previous attempt.
MarkRunning(row) ==
    [row EXCEPT !.status   = "running",
                !.attempt  = @ + 1,
                !.phase    = "collecting_signals",
                !.progress = IF Store = "postgres" THEN 0 ELSE @]

MarkPhase(row, phase) ==
    [row EXCEPT !.phase = phase, !.progress = ProgressOf(phase)]

\* Variant: analysis_id is left out of the update.
MarkCompletedNoAnalysis(row) ==
    [row EXCEPT !.status = "completed", !.phase = "done", !.progress = 100]

MarkCompleted(row) ==
    [row EXCEPT !.status = "completed", !.analysis = TRUE,
                !.phase = "done", !.progress = 100]

MarkFailed(row) == [row EXCEPT !.status = "failed", !.failure = TRUE]

MarkCanceled(row) == [row EXCEPT !.status = "canceled"]
=============================================================================
