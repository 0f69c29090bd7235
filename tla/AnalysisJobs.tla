----------------------------- MODULE AnalysisJobs -----------------------------
(***************************************************************************)
(* Asynchronous analyses: the use case of internal/core/usecase/analysis.go *)
(* (SubmitAnalysis, RunAnalysisJob, CancelJob) between the HTTP handlers    *)
(* that submit and cancel jobs, the queue backend that hands them to the    *)
(* worker pools of one or more instances, the job repository and the       *)
(* repository of finished analyses.                                        *)
(*                                                                         *)
(* A step is one call that another actor can observe: a statement on the   *)
(* job row, an operation on the queue, the mutex-protected map of cancel    *)
(* functions, a call to a provider.  What a goroutine does between two such *)
(* calls is part of the step before.                                       *)
(***************************************************************************)
EXTENDS JobRows, Sequences, FiniteSets

CONSTANTS
    Job,            \* identifiers ids.NextID hands out; a job's analysis has its id
    Worker,         \* goroutines of the worker pools
    Canceler,       \* requests DELETE /v1/jobs/{jobID}
    Instance,       \* processes running the API
    Home,           \* the instance of each worker and canceler
    Backend,        \* "memory", "list" (Redis list) or "asynq"
    Faults,         \* the faults that may occur, see FaultKind
    Uses,           \* what there is: "cache", a context cache; "retention", clients
                    \* that delete analyses
    MaxDeliveries,  \* asynq: deliveries of one task before it is archived
    MaxMishaps,     \* bound on restarts of instances and lost leases
    QueueBuffer,    \* "memory": capacity of the channel
    None

FaultKind == {"provider",   \* a collector or the LLM fails
              "store",      \* a repository call fails, before or after it took effect
              "enqueue",    \* EnqueueAnalysis fails
              "client",     \* the client of a cancel request leaves before the answer
              "shutdown",   \* SIGTERM: the instance stops its workers
              "crash",      \* the process dies
              "lease"}      \* asynq: a worker loses the lease of its task

ASSUME InstanceAssumption == Home \in [Worker \cup Canceler -> Instance]

ASSUME NoneAssumption == None \notin Job \cup Worker \cup Instance

ASSUME BackendAssumption ==
    /\ Backend \in {"memory", "list", "asynq"}
    \* bootstrapStorage: the channel and the memory repository are of one process
    /\ Backend = "memory" \/ Store = "memory" => Cardinality(Instance) = 1

ASSUME BoundAssumption ==
    /\ Faults \subseteq FaultKind /\ Uses \subseteq {"cache", "retention"}
    /\ MaxDeliveries \in Nat /\ MaxMishaps \in Nat /\ QueueBuffer \in Nat

VARIABLES
    jobs,           \* [Job -> Row]: analysis_jobs
    saved,          \* ids of the analyses stored so far
    deleted,        \* those that retention deleted since
    contexts,       \* ids of the analyses in the context cache
    queue,          \* the queue, oldest first
    redeliver,      \* asynq: tasks waiting for a retry or for the recoverer
    deliveries,     \* asynq: times each task was handed to a worker
    submitting,     \* the instance whose handler still has to enqueue the job
    at,             \* where each worker is in RunAnalysisJob
    runJob,         \* the job each worker has
    holds,          \* asynq: the broker still waits for this worker's result
    ctxDone,        \* the worker's run context was canceled
    activeCancels,  \* [Instance -> [Job -> run registered for the job]]
    cancelAt,       \* where each canceler is in CancelJob
    cancelJob,      \* the job each canceler has
    asked,          \* [Job -> "never" canceled by a client, "asked", or "left"]
    stopping,       \* instances whose worker context is canceled
    mishaps,        \* restarts and lost leases so far
    notified        \* [Job -> events sent to the completion notifier]

rowVars    == <<jobs, saved, deleted, contexts>>
brokerVars == <<queue, redeliver, deliveries, submitting>>
runVars    == <<at, runJob, holds, ctxDone, activeCancels>>
cancelVars == <<cancelAt, cancelJob, asked>>
hostVars   == <<stopping, mishaps>>
vars == <<rowVars, brokerVars, runVars, cancelVars, hostVars, notified>>

-----------------------------------------------------------------------------
Event == {"completed", "failed", "canceled"}

\* "running" is between MarkRunning and the first report of executeAnalyze;
\* the phases are the code that runs after the phase was reported.
Analyzing == {"running", "collecting_signals", "normalizing", "calling_llm",
              "persisting"}

Recording == {"mark_completed", "mark_failed", "mark_canceled",
              "notify_completed", "notify_failed", "return_ok", "return_err"}

\* The run is in activeCancels: registerCancel was called, releaseCancel not yet.
Registered == {"mark_running"} \cup Analyzing \cup Recording

RunStep == {"idle", "load", "register"} \cup Registered

CancelStep == {"idle", "mark", "invoke", "answer"}

NextPhase == [step \in Analyzing \ {"persisting"} |->
                CASE step = "running"            -> "collecting_signals"
                  [] step = "collecting_signals" -> "normalizing"
                  [] step = "normalizing"        -> "calling_llm"
                  [] step = "calling_llm"        -> "persisting"]

-----------------------------------------------------------------------------
\* The context a run works under is canceled.  The channel and list workers
\* hand their own context to the handler, asynq one context per task.
CtxCanceled(w) ==
    \/ ctxDone[w]
    \/ Backend # "asynq" /\ stopping[Home[w]]

\* Postgres refuses a statement under a canceled context; the memory
\* repositories do not look at it.
StoreAccepts(w) == Store = "memory" \/ ~CtxCanceled(w)

\* A statement that updates j's row to r took effect and returned no error.
Stored(j, r) == jobs' = [jobs EXCEPT ![j] = r]

\* A statement on j's row fails before it took effect, or after (the reply is lost).
\* Whatever effect a statement has, it has before the call returns.
StoreFault(j, r) ==
    /\ "store" \in Faults
    /\ jobs' \in {jobs, [jobs EXCEPT ![j] = r]}

\* A statement under w's run context returns an error: it is refused, or it fails,
\* or it was on its way to the database when the context was canceled.
RunStoreFault(w, r) ==
    \/ ~StoreAccepts(w) /\ UNCHANGED jobs
    \/ StoreFault(runJob[w], r)

GoTo(w, step) == at' = [at EXCEPT ![w] = step]

Init ==
    /\ jobs = [j \in Job |-> AbsentRow]
    /\ saved = {} /\ deleted = {} /\ contexts = {}
    /\ queue = <<>> /\ redeliver = {}
    /\ deliveries = [j \in Job |-> 0]
    /\ submitting = [j \in Job |-> None]
    /\ at = [w \in Worker |-> "idle"]
    /\ runJob = [w \in Worker |-> None]
    /\ holds = [w \in Worker |-> FALSE]
    /\ ctxDone = [w \in Worker |-> FALSE]
    /\ activeCancels = [i \in Instance |-> [j \in Job |-> None]]
    /\ cancelAt = [c \in Canceler |-> "idle"]
    /\ cancelJob = [c \in Canceler |-> None]
    /\ asked = [j \in Job |-> "never"]
    /\ stopping = [i \in Instance |-> FALSE]
    /\ mishaps = 0
    /\ notified = [j \in Job |-> {}]

-----------------------------------------------------------------------------
(* SubmitAnalysis *)

\* The row is inserted; the job still has to be enqueued.
SubmitAnalysis(j, i) ==
    /\ jobs[j].status = "absent"
    /\ ~stopping[i]
    /\ Stored(j, PendingRow)
    /\ submitting' = [submitting EXCEPT ![j] = i]
    /\ UNCHANGED <<saved, deleted, contexts, queue, redeliver, deliveries, runVars,
                   cancelVars, hostVars, notified>>

\* Variant: the submitter pushes again because it missed the reply.
EnqueueAgain(j) ==
    /\ submitting[j] # None
    /\ Backend = "memory" => Len(queue) < QueueBuffer
    /\ queue' = Append(queue, j)
    /\ UNCHANGED <<rowVars, redeliver, deliveries, submitting, runVars,
                   cancelVars, hostVars, notified>>

EnqueueAnalysis(j) ==
    /\ submitting[j] # None
    /\ Backend = "memory" => Len(queue) < QueueBuffer
    /\ queue' = Append(queue, j)
    /\ submitting' = [submitting EXCEPT ![j] = None]
    /\ UNCHANGED <<rowVars, redeliver, deliveries, runVars, cancelVars,
                   hostVars, notified>>

\* The client gets an error; the row stays as it was created.
EnqueueFails(j) ==
    /\ "enqueue" \in Faults
    /\ submitting[j] # None
    /\ submitting' = [submitting EXCEPT ![j] = None]
    /\ UNCHANGED <<rowVars, queue, redeliver, deliveries, runVars, cancelVars,
                   hostVars, notified>>

-----------------------------------------------------------------------------
(* The queue backends *)

\* A worker whose context is canceled may still get a job: the select of a channel
\* worker has two ready cases, and BLPOP may answer just before.  An asynq server
\* that shuts down takes no more tasks.
Dequeue(w) ==
    /\ at[w] = "idle"
    /\ queue # <<>>
    /\ Backend = "asynq" => ~stopping[Home[w]]
    /\ queue' = Tail(queue)
    /\ GoTo(w, "load")
    /\ runJob' = [runJob EXCEPT ![w] = Head(queue)]
    /\ holds' = [holds EXCEPT ![w] = (Backend = "asynq")]
    /\ deliveries' = [deliveries EXCEPT ![Head(queue)] = @ + 1]
    /\ UNCHANGED <<rowVars, redeliver, submitting, ctxDone, activeCancels,
                   cancelVars, hostVars, notified>>

\* Variant: a task that was not acknowledged is dropped.
RetriedNever(S) == redeliver

\* The tasks asynq will deliver again when the set S of tasks was not acknowledged.
Retried(S) == redeliver \cup {j \in S : deliveries[j] < MaxDeliveries}

\* The retry delay of a task is over, or the recoverer found its lease expired.
Redeliver(j) ==
    /\ j \in redeliver
    /\ redeliver' = redeliver \ {j}
    /\ queue' = Append(queue, j)
    /\ UNCHANGED <<rowVars, deliveries, submitting, runVars, cancelVars,
                   hostVars, notified>>

\* asynq takes the task from a worker that still runs it: its lease expired,
\* or the server is shutting down and does not wait longer.
TakeTask(w) ==
    /\ holds[w]
    /\ \/ "lease" \in Faults /\ mishaps < MaxMishaps /\ mishaps' = mishaps + 1
       \/ stopping[Home[w]] /\ UNCHANGED mishaps
    /\ redeliver' = Retried({runJob[w]})
    /\ holds' = [holds EXCEPT ![w] = FALSE]
    /\ ctxDone' = [ctxDone EXCEPT ![w] = TRUE]
    /\ UNCHANGED <<rowVars, queue, deliveries, submitting, at, runJob,
                   activeCancels, cancelVars, stopping, notified>>

\* The handler's result reaches the backend: asynq retries a task whose
\* handler returned an error, the other backends only report the error.
HandlerReturns(w, err) ==
    /\ GoTo(w, "idle")
    /\ runJob' = [runJob EXCEPT ![w] = None]
    /\ holds' = [holds EXCEPT ![w] = FALSE]
    /\ redeliver' = IF err /\ holds[w] THEN Retried({runJob[w]}) ELSE redeliver
    /\ UNCHANGED <<queue, deliveries, submitting>>

-----------------------------------------------------------------------------
(* RunAnalysisJob *)

\* Variant: the row's status is not looked at.
LoadAnyStatus(w) ==
    /\ at[w] = "load"
    /\ GoTo(w, "register")
    /\ UNCHANGED <<rowVars, brokerVars, runJob, holds, ctxDone, activeCancels,
                   cancelVars, hostVars, notified>>

Load(w) ==
    /\ at[w] = "load"
    /\ \/ /\ StoreAccepts(w)
          /\ IF jobs[runJob[w]].status \in {"completed", "canceled"}
               THEN /\ HandlerReturns(w, FALSE)
                    /\ ctxDone' = [ctxDone EXCEPT ![w] = FALSE]
               ELSE /\ GoTo(w, "register")
                    /\ UNCHANGED <<runJob, holds, ctxDone, brokerVars>>
       \/ /\ ~StoreAccepts(w) \/ "store" \in Faults
          /\ HandlerReturns(w, TRUE)
          /\ ctxDone' = [ctxDone EXCEPT ![w] = FALSE]
    /\ UNCHANGED <<rowVars, activeCancels, cancelVars, hostVars, notified>>

RegisterCancel(w) ==
    /\ at[w] = "register"
    /\ activeCancels' = [activeCancels EXCEPT ![Home[w]][runJob[w]] = w]
    /\ GoTo(w, "mark_running")
    /\ UNCHANGED <<rowVars, brokerVars, runJob, holds, ctxDone, cancelVars,
                   hostVars, notified>>

\* A run that cannot mark the row running leaves it as it is.
StartRun(w) ==
    LET row == MarkRunning(jobs[runJob[w]]) IN
    /\ at[w] = "mark_running"
    /\ \/ StoreAccepts(w) /\ Stored(runJob[w], row) /\ GoTo(w, "running")
       \/ RunStoreFault(w, row) /\ GoTo(w, "return_err")
    /\ UNCHANGED <<saved, deleted, contexts, brokerVars, runJob, holds, ctxDone,
                   activeCancels, cancelVars, hostVars, notified>>

\* The current phase is over without error and the next one is reported.  A
\* collector or the LLM may answer although the context was just canceled.
\* The reporter ignores the errors of MarkPhase.
Advance(w) ==
    LET next == NextPhase[at[w]]
        row  == MarkPhase(jobs[runJob[w]], next) IN
    /\ at[w] \in DOMAIN NextPhase
    /\ \/ StoreAccepts(w) /\ Stored(runJob[w], row)
       \/ RunStoreFault(w, row)
    /\ GoTo(w, next)
    /\ UNCHANGED <<saved, deleted, contexts, brokerVars, runJob, holds, ctxDone,
                   activeCancels, cancelVars, hostVars, notified>>

\* A provider fails, or a retry of its client is interrupted: retry.Do then
\* returns the provider's error and not the cancellation.
ProviderFails(w) ==
    /\ at[w] \in {"collecting_signals", "calling_llm"}
    /\ "provider" \in Faults
    /\ GoTo(w, "mark_failed")
    /\ UNCHANGED <<rowVars, brokerVars, runJob, holds, ctxDone, activeCancels,
                   cancelVars, hostVars, notified>>

\* Variant: a timeout of the provider is taken for a cancellation.
ProviderTimesOut(w) ==
    /\ at[w] \in {"collecting_signals", "calling_llm"}
    /\ GoTo(w, "mark_canceled")
    /\ UNCHANGED <<rowVars, brokerVars, runJob, holds, ctxDone, activeCancels,
                   cancelVars, hostVars, notified>>

\* A provider call returns an error that wraps context.Canceled.
ProviderCanceled(w) ==
    /\ at[w] \in {"collecting_signals", "calling_llm"}
    /\ CtxCanceled(w)
    /\ GoTo(w, "mark_canceled")
    /\ UNCHANGED <<rowVars, brokerVars, runJob, holds, ctxDone, activeCancels,
                   cancelVars, hostVars, notified>>

\* The analysis is upserted under the job's id, whether it was deleted or not.
Upserted(j) ==
    /\ saved' = saved \cup {j}
    /\ deleted' = deleted \ {j}

\* And then cached, best effort.
SaveAnalysis(w) ==
    /\ at[w] = "persisting"
    /\ \/ /\ StoreAccepts(w)
          /\ Upserted(runJob[w])
          /\ \/ UNCHANGED contexts
             \/ "cache" \in Uses /\ contexts' = contexts \cup {runJob[w]}
          /\ GoTo(w, "mark_completed")
       \/ /\ ~StoreAccepts(w)
          /\ \/ UNCHANGED <<saved, deleted>>
             \/ "store" \in Faults /\ Upserted(runJob[w])
          /\ UNCHANGED contexts
          /\ GoTo(w, "mark_canceled")
       \/ /\ StoreAccepts(w) /\ "store" \in Faults
          /\ UNCHANGED <<saved, deleted>> \/ Upserted(runJob[w])
          /\ UNCHANGED contexts
          /\ GoTo(w, "mark_failed")
    /\ UNCHANGED <<jobs, brokerVars, runJob, holds, ctxDone, activeCancels,
                   cancelVars, hostVars, notified>>

\* Under the run's context: a canceled run leaves the row as it is.
CompleteRun(w) ==
    LET row == MarkCompleted(jobs[runJob[w]]) IN
    /\ at[w] = "mark_completed"
    /\ \/ StoreAccepts(w) /\ Stored(runJob[w], row) /\ GoTo(w, "notify_completed")
       \/ RunStoreFault(w, row) /\ GoTo(w, "return_err")
    /\ UNCHANGED <<saved, deleted, contexts, brokerVars, runJob, holds, ctxDone,
                   activeCancels, cancelVars, hostVars, notified>>

\* Under a context of its own.
FailRun(w) ==
    LET row == MarkFailed(jobs[runJob[w]]) IN
    /\ at[w] = "mark_failed"
    /\ \/ Stored(runJob[w], row) /\ GoTo(w, "notify_failed")
       \/ StoreFault(runJob[w], row) /\ GoTo(w, "return_err")
    /\ UNCHANGED <<saved, deleted, contexts, brokerVars, runJob, holds, ctxDone,
                   activeCancels, cancelVars, hostVars, notified>>

\* Variant: a canceled run trusts that whoever canceled it marked the row.
CancelRunSilently(w) ==
    /\ at[w] = "mark_canceled"
    /\ GoTo(w, "return_ok")
    /\ UNCHANGED <<rowVars, brokerVars, runJob, holds, ctxDone, activeCancels,
                   cancelVars, hostVars, notified>>

\* Under a context of its own; the error is ignored and nobody is notified.
CancelRun(w) ==
    LET row == MarkCanceled(jobs[runJob[w]]) IN
    /\ at[w] = "mark_canceled"
    /\ Stored(runJob[w], row) \/ StoreFault(runJob[w], row)
    /\ GoTo(w, "return_ok")
    /\ UNCHANGED <<saved, deleted, contexts, brokerVars, runJob, holds, ctxDone,
                   activeCancels, cancelVars, hostVars, notified>>

Notify(w) ==
    /\ \/ /\ at[w] = "notify_completed"
          /\ notified' = [notified EXCEPT ![runJob[w]] = @ \cup {"completed"}]
          /\ GoTo(w, "return_ok")
       \/ /\ at[w] = "notify_failed"
          /\ notified' = [notified EXCEPT ![runJob[w]] = @ \cup {"failed"}]
          /\ GoTo(w, "return_err")
    /\ UNCHANGED <<rowVars, brokerVars, runJob, holds, ctxDone, activeCancels,
                   cancelVars, hostVars>>

\* Variant: the run is canceled but its entry stays in the map.
ReturnRunKeepsEntry(w) ==
    /\ at[w] \in {"return_ok", "return_err"}
    /\ ctxDone' = [ctxDone EXCEPT ![w] = FALSE]
    /\ HandlerReturns(w, at[w] = "return_err")
    /\ UNCHANGED <<rowVars, activeCancels, cancelVars, hostVars, notified>>

\* Variant: the map is emptied, the entries of other jobs too.
ReturnRunClearsMap(w) ==
    /\ at[w] \in {"return_ok", "return_err"}
    /\ activeCancels' = [activeCancels EXCEPT ![Home[w]] = [j \in Job |-> None]]
    /\ ctxDone' = [ctxDone EXCEPT ![w] = FALSE]
    /\ HandlerReturns(w, at[w] = "return_err")
    /\ UNCHANGED <<rowVars, cancelVars, hostVars, notified>>

\* The deferred releaseCancel cancels and drops whichever run the map has for
\* the job, then the handler returns.
ReturnRun(w) ==
    LET entry == activeCancels[Home[w]][runJob[w]] IN
    /\ at[w] \in {"return_ok", "return_err"}
    /\ activeCancels' = [activeCancels EXCEPT ![Home[w]][runJob[w]] = None]
    /\ ctxDone' = [v \in Worker |-> (ctxDone[v] \/ v = entry) /\ v # w]
    /\ HandlerReturns(w, at[w] = "return_err")
    /\ UNCHANGED <<rowVars, cancelVars, hostVars, notified>>

-----------------------------------------------------------------------------
(* CancelJob *)

\* Variant: the status of the row is not looked at.
RequestAnyCancel(c, j) ==
    /\ cancelAt[c] = "idle"
    /\ ~stopping[Home[c]]
    /\ submitting[j] = None
    /\ jobs[j].status # "absent"
    /\ cancelAt' = [cancelAt EXCEPT ![c] = "mark"]
    /\ cancelJob' = [cancelJob EXCEPT ![c] = j]
    /\ asked' = [asked EXCEPT ![j] = IF @ = "left" THEN @ ELSE "asked"]
    /\ UNCHANGED <<rowVars, brokerVars, runVars, hostVars, notified>>

\* A client knows the id once SubmitAnalysis has returned.  A row with a
\* terminal status is returned as it is, with no effect.
RequestCancel(c, j) ==
    /\ cancelAt[c] = "idle"
    /\ ~stopping[Home[c]]
    /\ submitting[j] = None
    /\ jobs[j].status \notin TerminalStatus \cup {"absent"}
    /\ cancelAt' = [cancelAt EXCEPT ![c] = "mark"]
    /\ cancelJob' = [cancelJob EXCEPT ![c] = j]
    /\ asked' = [asked EXCEPT ![j] = IF @ = "left" THEN @ ELSE "asked"]
    /\ UNCHANGED <<rowVars, brokerVars, runVars, hostVars, notified>>

\* A statement under the context of a request fails: in the store, or because the
\* client left; what was on its way to Postgres may still take effect.
RequestFails ==
    \/ "store" \in Faults
    \/ "client" \in Faults /\ Store = "postgres"

MarkJobCanceled(c) ==
    LET row == MarkCanceled(jobs[cancelJob[c]]) IN
    /\ cancelAt[c] = "mark"
    /\ \/ /\ Stored(cancelJob[c], row)
          /\ cancelAt' = [cancelAt EXCEPT ![c] = "invoke"]
          /\ UNCHANGED <<cancelJob, asked>>
       \/ /\ RequestFails
          /\ UNCHANGED jobs \/ Stored(cancelJob[c], row)
          /\ cancelAt' = [cancelAt EXCEPT ![c] = "idle"]
          /\ cancelJob' = [cancelJob EXCEPT ![c] = None]
          /\ asked' = [asked EXCEPT ![cancelJob[c]] = "left"]
    /\ UNCHANGED <<saved, deleted, contexts, brokerVars, runVars, hostVars, notified>>

\* Only the runs of the canceler's own instance can be reached.
InvokeCancel(c) ==
    LET entry == activeCancels[Home[c]][cancelJob[c]] IN
    /\ cancelAt[c] = "invoke"
    /\ ctxDone' = [w \in Worker |-> ctxDone[w] \/ w = entry]
    /\ cancelAt' = [cancelAt EXCEPT ![c] = "answer"]
    /\ UNCHANGED <<rowVars, brokerVars, at, runJob, holds, activeCancels,
                   cancelJob, asked, hostVars, notified>>

\* The row is read again and, whatever it says, the canceled event is sent; none is
\* if it cannot be read.
AnswerCancel(c) ==
    /\ cancelAt[c] = "answer"
    /\ \/ notified' = [notified EXCEPT ![cancelJob[c]] = @ \cup {"canceled"}]
       \/ RequestFails /\ UNCHANGED notified
    /\ cancelAt' = [cancelAt EXCEPT ![c] = "idle"]
    /\ cancelJob' = [cancelJob EXCEPT ![c] = None]
    /\ UNCHANGED <<asked, rowVars, brokerVars, runVars, hostVars>>

-----------------------------------------------------------------------------
(* AnalysisRetention *)

Analyses == saved \ deleted

\* One analysis, or what a purge selects, is deleted; the rows of jobs and the cache
\* are left as they are: no foreign key leads from a job to its analysis.
DeleteAnalyses(ids) ==
    /\ "retention" \in Uses /\ Store = "postgres"
    /\ ids # {} /\ ids \subseteq Analyses
    /\ deleted' = deleted \cup ids
    /\ UNCHANGED <<jobs, saved, contexts, brokerVars, runVars, cancelVars, hostVars,
                   notified>>

-----------------------------------------------------------------------------
(* The process *)

\* workerCancel, after the HTTP server stopped accepting requests.
Shutdown(i) ==
    /\ "shutdown" \in Faults
    /\ ~stopping[i]
    /\ stopping' = [stopping EXCEPT ![i] = TRUE]
    /\ UNCHANGED <<rowVars, brokerVars, runVars, cancelVars, mishaps, notified>>

HomeWorkers(i) == {w \in Worker : Home[w] = i}

\* The process ends at any point (a crash, or the end of a shutdown) and a new
\* one starts.  Goroutines and the channel are lost, the broker is not.
Restart(i) ==
    LET lost == HomeWorkers(i)
        gone == {c \in Canceler : Home[c] = i} IN
    /\ "crash" \in Faults \/ stopping[i]
    /\ Store = "postgres"
    /\ mishaps < MaxMishaps
    /\ mishaps' = mishaps + 1
    /\ stopping' = [stopping EXCEPT ![i] = FALSE]
    /\ at' = [w \in Worker |-> IF w \in lost THEN "idle" ELSE at[w]]
    /\ runJob' = [w \in Worker |-> IF w \in lost THEN None ELSE runJob[w]]
    /\ holds' = [w \in Worker |-> w \notin lost /\ holds[w]]
    /\ ctxDone' = [w \in Worker |-> w \notin lost /\ ctxDone[w]]
    /\ activeCancels' = [activeCancels EXCEPT ![i] = [j \in Job |-> None]]
    /\ cancelAt' = [c \in Canceler |-> IF c \in gone THEN "idle" ELSE cancelAt[c]]
    /\ cancelJob' = [c \in Canceler |-> IF c \in gone THEN None ELSE cancelJob[c]]
    /\ submitting' = [j \in Job |-> IF submitting[j] = i THEN None ELSE submitting[j]]
    /\ queue' = IF Backend = "memory" THEN <<>> ELSE queue
    /\ redeliver' = Retried({runJob[w] : w \in {v \in lost : holds[v]}})
    /\ UNCHANGED <<rowVars, deliveries, asked, notified>>

-----------------------------------------------------------------------------
WorkerStep(w) ==
    \/ Dequeue(w) \/ Load(w) \/ RegisterCancel(w) \/ StartRun(w) \/ Advance(w)
    \/ ProviderFails(w) \/ ProviderCanceled(w) \/ SaveAnalysis(w)
    \/ CompleteRun(w) \/ FailRun(w) \/ CancelRun(w) \/ Notify(w) \/ ReturnRun(w)

CancelerStep(c) == MarkJobCanceled(c) \/ InvokeCancel(c) \/ AnswerCancel(c)

Next ==
    \/ \E j \in Job, i \in Instance : SubmitAnalysis(j, i)
    \/ \E j \in Job : EnqueueAnalysis(j) \/ EnqueueFails(j) \/ Redeliver(j)
    \/ \E w \in Worker : WorkerStep(w) \/ TakeTask(w)
    \/ \E c \in Canceler, j \in Job : RequestCancel(c, j)
    \/ \E c \in Canceler : CancelerStep(c)
    \/ \E ids \in SUBSET Job : DeleteAnalyses(ids)
    \/ \E i \in Instance : Shutdown(i) \/ Restart(i)

Spec == Init /\ [][Next]_vars

\* Goroutines that can take a step take one: Go schedules every goroutine, the
\* provider and repository calls have timeouts, asynq retries what is due.
\* Clients need neither submit nor cancel.
Fairness ==
    /\ \A w \in Worker : WF_vars(WorkerStep(w))
    /\ \A c \in Canceler : WF_vars(CancelerStep(c))
    /\ \A j \in Job : WF_vars(EnqueueAnalysis(j)) /\ WF_vars(Redeliver(j))

FairSpec == Spec /\ Fairness

-----------------------------------------------------------------------------
(* What is in progress for a job *)

Settled(j) == jobs[j].status \in TerminalStatus

InQueue(j) == \E n \in 1..Len(queue) : queue[n] = j

\* Somebody will still do something about the job without being asked to.
Attended(j) ==
    \/ submitting[j] # None
    \/ InQueue(j)
    \/ j \in redeliver
    \/ \E w \in Worker : runJob[w] = j

Canceling(j) == \E c \in Canceler : cancelJob[c] = j

\* A run that has looked at the row and may still write to it.
Started(j) == \E w \in Worker : runJob[w] = j /\ at[w] # "load"

Final(j) ==
    jobs[j].status \in {"completed", "canceled"} /\ ~Started(j) /\ ~Canceling(j)

\* Every job is handed to at most one worker: no backend but asynq delivers twice.
SingleDelivery == Backend # "asynq"

OneInstance == \A i, k \in Instance : i = k

-----------------------------------------------------------------------------
(* Properties *)

\* The variables have the types their declarations give.
TypeOK ==
    /\ jobs \in [Job -> Row]
    /\ saved \subseteq Job /\ deleted \subseteq saved /\ contexts \subseteq Job
    /\ queue \in Seq(Job) /\ redeliver \subseteq Job
    /\ deliveries \in [Job -> Nat]
    /\ submitting \in [Job -> Instance \cup {None}]
    /\ at \in [Worker -> RunStep]
    /\ runJob \in [Worker -> Job \cup {None}]
    /\ holds \in [Worker -> BOOLEAN]
    /\ ctxDone \in [Worker -> BOOLEAN]
    /\ activeCancels \in [Instance -> [Job -> Worker \cup {None}]]
    /\ cancelAt \in [Canceler -> CancelStep]
    /\ cancelJob \in [Canceler -> Job \cup {None}]
    /\ asked \in [Job -> {"never", "asked", "left"}]
    /\ stopping \in [Instance -> BOOLEAN]
    /\ mishaps \in Nat
    /\ notified \in [Job -> SUBSET Event]

\* Whoever is told that a job completed, by its row or by the completed event,
\* finds its analysis unless retention deleted it after it was stored, whatever runs,
\* cancels and restarts come in between; and the cache has nothing that was never
\* stored: beyond the repository it has what retention deleted, no more.
CompletedIsStored ==
    /\ \A j \in Job : jobs[j].status = "completed" => jobs[j].analysis
    /\ \A j \in Job : jobs[j].analysis \/ "completed" \in notified[j] =>
                         j \in Analyses \cup deleted
    /\ contexts \ Analyses \subseteq deleted

\* activeCancels holds nothing but live runs: an entry is a run of that job on
\* that instance that has not returned, so the map does not leak and invokeCancel
\* never cancels the run of another job.
CancelRegistry ==
    \A i \in Instance, j \in Job :
        LET w == activeCancels[i][j] IN
        w # None => Home[w] = i /\ runJob[w] = j /\ at[w] \in Registered

\* With a backend that delivers once, a registered run stays reachable until it
\* returns: no other run overwrites or releases its entry.
RunStaysReachable ==
    \A w \in Worker :
        at[w] \in Registered => activeCancels[Home[w]][runJob[w]] = w

\* With a backend that delivers once, at most one of the submitter, the queue and
\* the workers has a job, and has it once.
SingleOwner ==
    /\ \A m, n \in 1..Len(queue) : queue[m] = queue[n] => m = n
    /\ \A v, w \in Worker : runJob[v] # None /\ runJob[v] = runJob[w] => v = w
    /\ \A w \in Worker : runJob[w] # None =>
           ~InQueue(runJob[w]) /\ submitting[runJob[w]] = None
    /\ \A j \in Job : submitting[j] # None => ~InQueue(j)

\* A cancellation is lost to a completion only in the window CancelJob leaves
\* between MarkCanceled and invokeCancel, or where the client left while the row was
\* marked: once the run's context is canceled the row is not completed any more.
CompletionOverCancelOnlyInWindow ==
    [][\A j \in Job :
         jobs[j].status = "canceled" /\ jobs'[j].status = "completed" =>
             \/ \E c \in Canceler : cancelAt[c] = "invoke" /\ cancelJob[c] = j
             \/ asked[j] = "left"]_vars

\* Once the row is completed or canceled and the runs and cancel requests that had
\* already looked at it are over, it stays so for good: a delivery that comes later,
\* a retry, a recovered lease, another request or a restart does not touch it, nor
\* does it bring back an analysis that retention deleted.
OutcomeIsFinal ==
    [][\A j \in Job : Final(j) =>
         /\ Final(j)' /\ jobs'[j] = jobs[j]
         /\ j \in Analyses' => j \in Analyses]_vars

\* The progress a client polls does not go back within one attempt, unless two
\* runs of the job overlap.
ProgressWithinAttempt ==
    [][\A j \in Job :
         jobs'[j].progress < jobs[j].progress => jobs'[j].attempt > jobs[j].attempt]_vars

\* Without faults of the store or the process, nobody attends to a job whose row is
\* not terminal in two cases only: the row was inserted and its enqueue failed, and
\* no worker ever had the job; or its analysis was stored and a cancel request
\* interrupted its completion.
UnattendedIsExplained ==
    \A j \in Job :
        ~Settled(j) /\ jobs[j].status # "absent" /\ ~Attended(j) =>
            \/ jobs[j] = PendingRow /\ deliveries[j] = 0
            \/ j \in saved /\ asked[j] # "never"

\* JobStatusCanceled: the job was canceled by a client, who asked for it while it had
\* no outcome, whether the request came to its end or not.
CanceledByClient ==
    \A j \in Job : jobs[j].status = "canceled" => asked[j] # "never"

\* concurrency.md: a worker ends a job by marking its final status.
RunMarksFinalStatus ==
    \A w \in Worker : at[w] \in {"return_ok", "return_err"} => Settled(runJob[w])

\* A canceled job stays canceled, as the second DELETE of the router test expects.
CanceledIsFinal ==
    [][\A j \in Job : jobs[j].status = "canceled" => jobs'[j].status = "canceled"]_vars

StatusOf == [j \in Job |-> jobs[j].status]

HasRun(j, steps) == \E w \in Worker : runJob[w] = j /\ at[w] \in steps

\* A run has read the row, and may mark it running; it is running, and may mark the
\* outcome; then it has no more to say.
Begun == {"register", "mark_running"}

Working == Analyzing \cup {"mark_completed", "mark_failed", "mark_canceled"}

RunOf == [j \in Job |-> IF HasRun(j, Begun) THEN "begun"
                       ELSE IF HasRun(j, Working) THEN "running" ELSE "none"]

Deciding == [c \in Canceler |-> IF cancelAt[c] = "mark" THEN cancelJob[c] ELSE None]

Lifecycle == INSTANCE JobLifecycle WITH
    Request <- Canceler, status <- StatusOf, run <- RunOf, deciding <- Deciding,
    stored <- saved

\* As long as no two runs of a job overlap, jobs follow JobLifecycle whatever
\* fails: a run begins on a job without an outcome and after the run before it, marks
\* it running and leaves at most one outcome; nobody else writes the row but
\* requests that found no outcome.
FollowsLifecycle == Lifecycle!Spec

\* Every job that reached the queue settles, or a client asked to cancel it.
QueuedJobSettles ==
    \A j \in Job : InQueue(j) ~> Settled(j) \/ "canceled" \in notified[j]
=============================================================================
